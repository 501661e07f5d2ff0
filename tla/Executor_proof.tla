--------------------------- MODULE Executor_proof ---------------------------
(***************************************************************************)
(* Proofs about Executor: a function runs in its own instance and on its    *)
(* own frame, the cached memory pointer is fresh, and the stack behaves     *)
(* like a stack of activations, for every program and every limit.          *)
(***************************************************************************)
EXTENDS Executor, TLAPS

-----------------------------------------------------------------------------
(* The call stack *)

\* Entry and After yield places of the function.
LEMMA PlaceFacts ==
    /\ \A f \in Funcs : Entry(f) \in Places /\ Entry(f).func = f
    /\ \A ip \in Places : After(ip) \in Places /\ After(ip).func = ip.func
  BY ExecutorAssumption DEF Places, Entry, After

\* The parts of a frame have their types.
LEMMA FrameFacts ==
    ASSUME NEW x \in Frames
    PROVE  /\ x.start \in Nat /\ x.ip \in Places /\ x.ip.func \in Funcs
           /\ Size[x.ip.func] \in Nat /\ x.start + Size[x.ip.func] \in Nat
           /\ InstanceOf[x.ip.func] \in Instances
<1>1. x.start \in Nat /\ x.ip \in Places /\ x.ip.func \in Funcs
  BY DEF Frames, Places
<1> QED
  BY <1>1, ExecutorAssumption

\* Another frame in the place of the top one.
LEMMA ReplacedFacts ==
    ASSUME NEW fs \in Seq(Frames), fs # <<>>, NEW x \in Frames
    PROVE  LET r == [fs EXCEPT ![Len(fs)] = x]
           IN  /\ r \in Seq(Frames) /\ Len(r) = Len(fs) /\ r # <<>>
               /\ \A k \in 1 .. Len(fs) : r[k] = IF k = Len(fs) THEN x ELSE fs[k]
               /\ r[Len(fs)] = x
<1> DEFINE r == [fs EXCEPT ![Len(fs)] = x]
<1>1. Len(fs) \in Nat \ {0}
  OBVIOUS
<1>2. r \in Seq(Frames) /\ Len(r) = Len(fs)
  BY <1>1
<1>3. \A k \in 1 .. Len(fs) : r[k] = IF k = Len(fs) THEN x ELSE fs[k]
  <2>1. DOMAIN fs = 1 .. Len(fs)
    OBVIOUS
  <2> QED
    BY <2>1
<1> HIDE DEF r
<1>4. r # <<>> /\ r[Len(fs)] = x
  BY <1>1, <1>2, <1>3
<1> QED
  BY <1>2, <1>3, <1>4 DEF r

\* sync_ip changes nothing but the ip of the top frame.
LEMMA SyncFacts ==
    ASSUME NEW fs \in Seq(Frames), fs # <<>>, NEW ip \in Places
    PROVE  LET r == sync_ip(fs, ip)
           IN  /\ r \in Seq(Frames) /\ Len(r) = Len(fs) /\ r # <<>>
               /\ \A k \in 1 .. Len(fs) : /\ r[k].start = fs[k].start
                                          /\ r[k].instance = fs[k].instance
                                          /\ k # Len(fs) => r[k].ip = fs[k].ip
               /\ r[Len(fs)].ip = ip
               /\ top_start(r) = top_start(fs)
<1> DEFINE top == [fs[Len(fs)] EXCEPT !.ip = ip]
           r == [fs EXCEPT ![Len(fs)] = top]
<1>1. Len(fs) \in 1 .. Len(fs) /\ Len(fs) \in Nat
  OBVIOUS
<1>2. fs[Len(fs)] \in Frames
  BY <1>1
<1>3. top \in Frames /\ top.ip = ip /\ top.start = fs[Len(fs)].start
      /\ top.instance = fs[Len(fs)].instance
  BY <1>2 DEF Frames
<1>4. sync_ip(fs, ip) = r
  BY DEF sync_ip
<1> HIDE DEF top
<1>5. r \in Seq(Frames) /\ Len(r) = Len(fs)
  BY <1>3, ReplacedFacts
<1>6. \A k \in 1 .. Len(fs) : r[k] = IF k = Len(fs) THEN top ELSE fs[k]
  BY <1>3, ReplacedFacts
<1> HIDE DEF r
<1>7. r # <<>>
  BY <1>1, <1>5
<1>8. \A k \in 1 .. Len(fs) : /\ r[k].start = fs[k].start
                              /\ r[k].instance = fs[k].instance
                              /\ k # Len(fs) => r[k].ip = fs[k].ip
  BY <1>3, <1>6
<1>9. r[Len(fs)].ip = ip /\ top_start(r) = top_start(fs)
  BY <1>1, <1>3, <1>5, <1>6, <1>7, Zenon DEF top_start
<1> QED
  BY <1>4, <1>5, <1>7, <1>8, <1>9

\* More cells keep a call stack in order.
LEMMA GrownWellFormed ==
    ASSUME NEW fs, NEW i, NEW n \in Nat, WellFormed(fs, i, n), NEW m \in Nat, n <= m
    PROVE  WellFormed(fs, i, m)
<1>1. ASSUME NEW k \in 1 .. Len(fs)
      PROVE  fs[k].start + Size[fs[k].ip.func] <= m
  <2>1. fs[k] \in Frames /\ fs[k].start + Size[fs[k].ip.func] <= n
    BY DEF WellFormed
  <2> QED
    BY <2>1, FrameFacts
<1> QED
  BY <1>1 DEF WellFormed

\* Synchronizing the ip keeps a call stack in order.
LEMMA SyncWellFormed ==
    ASSUME NEW fs, NEW i, NEW n, WellFormed(fs, i, n), fs # <<>>,
           NEW ip \in Places, ip.func = fs[Len(fs)].ip.func
    PROVE  WellFormed(sync_ip(fs, ip), i, n)
<1> DEFINE r == sync_ip(fs, ip)
<1>1. fs \in Seq(Frames)
  BY DEF WellFormed
<1>2. /\ r \in Seq(Frames) /\ Len(r) = Len(fs) /\ r # <<>>
      /\ \A k \in 1 .. Len(fs) : r[k].start = fs[k].start /\ r[k].instance = fs[k].instance
                                 /\ r[k].ip.func = fs[k].ip.func
  BY <1>1, SyncFacts
<1> HIDE DEF r
<1>3. \A k \in 2 .. Len(fs) : k - 1 \in 1 .. Len(fs) /\ k \in 1 .. Len(fs)
  BY <1>1
<1>4. Len(fs) \in 1 .. Len(fs)
  BY <1>1
<1> QED
  BY <1>1, <1>2, <1>3, <1>4, ZenonT(60) DEF WellFormed, r

\* Append, as push uses it.
LEMMA PushFacts ==
    ASSUME NEW fs \in Seq(Frames), NEW x \in Frames
    PROVE  LET r == Append(fs, x)
           IN  /\ r \in Seq(Frames) /\ Len(r) = Len(fs) + 1 /\ r # <<>>
               /\ \A k \in 1 .. Len(fs) : r[k] = fs[k]
               /\ r[Len(fs) + 1] = x
               /\ top_start(r) = x.start
  BY DEF top_start

\* A frame on top that starts inside its caller's frame and remembers the caller's
\* instance, unless it is its own, keeps a call stack in order.
LEMMA PushWellFormed ==
    ASSUME NEW fs, NEW i, NEW n \in Nat, WellFormed(fs, i, n), fs # <<>>,
           NEW x \in Frames, NEW m \in Nat, n <= m,
           x.start >= fs[Len(fs)].start,
           x.start + Size[x.ip.func] <= m,
           i = IF x.instance = NoInst THEN InstanceOf[x.ip.func] ELSE x.instance
    PROVE  WellFormed(Append(fs, x), InstanceOf[x.ip.func], m)
<1> DEFINE r == Append(fs, x)
<1>1. fs \in Seq(Frames) /\ Len(fs) \in Nat /\ Len(fs) \in 1 .. Len(fs)
  BY DEF WellFormed
<1>2. /\ r \in Seq(Frames) /\ Len(r) = Len(fs) + 1 /\ r # <<>>
      /\ \A k \in 1 .. Len(fs) : r[k] = fs[k]
      /\ r[Len(fs) + 1] = x
  BY <1>1, PushFacts, Zenon
<1> HIDE DEF r
<1>3. ASSUME NEW k \in 1 .. Len(fs)
      PROVE  fs[k].start + Size[fs[k].ip.func] \in Nat
  <2>1. fs[k] \in Frames
    BY <1>1
  <2> QED
    BY <2>1, FrameFacts, Zenon
<1>4. \A k \in 1 .. Len(r) : r[k].start + Size[r[k].ip.func] <= m
  <2> SUFFICES ASSUME NEW k \in 1 .. Len(r)
               PROVE  r[k].start + Size[r[k].ip.func] <= m
    OBVIOUS
  <2>1. CASE k = Len(fs) + 1
    BY <2>1, <1>2
  <2>2. CASE k \in 1 .. Len(fs)
    <3>1. fs[k].start + Size[fs[k].ip.func] <= n
      BY <2>2, Zenon DEF WellFormed
    <3> QED
      BY <2>2, <3>1, <1>2, <1>3, SMTT(60)
  <2> QED
    BY <2>1, <2>2, <1>1, <1>2
<1>5. ASSUME NEW k \in 2 .. Len(r)
      PROVE  /\ r[k].start >= r[k - 1].start
             /\ InstanceOf[r[k - 1].ip.func] =
                   IF r[k].instance = NoInst THEN InstanceOf[r[k].ip.func] ELSE r[k].instance
  <2>1. CASE k = Len(fs) + 1
    <3>1. r[k - 1] = fs[Len(fs)] /\ r[k] = x
      BY <2>1, <1>1, <1>2, SMTT(60)
    <3>2. i = InstanceOf[fs[Len(fs)].ip.func]
      BY Zenon DEF WellFormed
    <3> QED
      BY <3>1, <3>2, Zenon
  <2>2. CASE k \in 2 .. Len(fs)
    <3>1. r[k - 1] = fs[k - 1] /\ r[k] = fs[k]
      BY <2>2, <1>1, <1>2, SMTT(60)
    <3> QED
      BY <2>2, <3>1, Zenon DEF WellFormed
  <2> QED
    BY <2>1, <2>2, <1>1, <1>2, SMTT(60)
<1> QED
  BY <1>1, <1>2, <1>4, <1>5, Zenon DEF WellFormed, r

\* The call stack without its top frame.
LEMMA RestFacts ==
    ASSUME NEW fs \in Seq(Frames), fs # <<>>
    PROVE  LET r == Rest(fs)
           IN  /\ r \in Seq(Frames) /\ Len(r) = Len(fs) - 1
               /\ \A k \in 1 .. Len(r) : r[k] = fs[k]
               /\ r = <<>> <=> Len(fs) = 1
               /\ r # <<>> => /\ r[Len(r)] = fs[Len(fs) - 1]
                             /\ top_start(r) = fs[Len(fs) - 1].start
<1> DEFINE r == Rest(fs)
<1>1. Len(fs) \in Nat \ {0}
  OBVIOUS
<1>2. r \in Seq(Frames) /\ Len(r) = Len(fs) - 1
  BY <1>1, SMTT(60) DEF Rest
<1>3. \A k \in 1 .. Len(r) : r[k] = fs[k]
  BY <1>1, <1>2 DEF Rest
<1> HIDE DEF r
<1>4. r = <<>> <=> Len(fs) = 1
  <2>1. r = <<>> => Len(r) = 0
    OBVIOUS
  <2>2. Len(fs) = 1 => r = <<>>
    BY <1>1 DEF Rest, r
  <2> QED
    BY <1>1, <1>2, <2>1, <2>2
<1>5. r # <<>> => r[Len(r)] = fs[Len(fs) - 1]
  BY <1>1, <1>2, <1>3
<1> QED
  BY <1>2, <1>3, <1>4, <1>5 DEF r, top_start

\* Popping a frame, and going back to the instance it remembers, keeps a call stack in
\* order.
LEMMA RestWellFormed ==
    ASSUME NEW fs, NEW i, NEW n, WellFormed(fs, i, n), fs # <<>>,
           NEW j, Rest(fs) # <<>> =>
                    j = IF fs[Len(fs)].instance = NoInst THEN i ELSE fs[Len(fs)].instance
    PROVE  WellFormed(Rest(fs), j, n)
<1> DEFINE r == Rest(fs)
<1>1. fs \in Seq(Frames) /\ Len(fs) \in Nat /\ Len(fs) \in 1 .. Len(fs)
  BY DEF WellFormed
<1>2. /\ r \in Seq(Frames) /\ Len(r) = Len(fs) - 1
      /\ \A k \in 1 .. Len(r) : r[k] = fs[k]
      /\ r = <<>> <=> Len(fs) = 1
  BY <1>1, RestFacts
<1> HIDE DEF r
<1>3. \A k \in 1 .. Len(r) : k \in 1 .. Len(fs)
  BY <1>1, <1>2
<1>4. \A k \in 2 .. Len(r) : k \in 2 .. Len(fs) /\ k - 1 \in 1 .. Len(r) /\ k \in 1 .. Len(r)
  BY <1>1, <1>2, SMTT(60)
<1>5. r # <<>> => j = InstanceOf[r[Len(r)].ip.func]
  <2> HAVE r # <<>>
  <2>1. Len(fs) \in 2 .. Len(fs) /\ r[Len(r)] = fs[Len(fs) - 1]
    BY <1>1, <1>2, SMTT(60)
  <2>2. i = InstanceOf[fs[Len(fs)].ip.func]
    BY Zenon DEF WellFormed
  <2> QED
    BY <2>1, <2>2, Zenon DEF WellFormed, r
<1>6. \A k \in 1 .. Len(r) : r[k].start + Size[r[k].ip.func] <= n
  BY <1>2, <1>3, Zenon DEF WellFormed
<1>7. ASSUME NEW k \in 2 .. Len(r)
      PROVE  /\ r[k].start >= r[k - 1].start
             /\ InstanceOf[r[k - 1].ip.func] =
                   IF r[k].instance = NoInst THEN InstanceOf[r[k].ip.func] ELSE r[k].instance
  <2>1. k \in 2 .. Len(fs) /\ r[k] = fs[k] /\ r[k - 1] = fs[k - 1]
    BY <1>2, <1>4, Zenon
  <2> QED
    BY <2>1 DEF WellFormed
<1>8. WellFormed(r, j, n)
  BY <1>2, <1>5, <1>6, <1>7, Zenon DEF WellFormed
<1> QED
  BY <1>8 DEF r

-----------------------------------------------------------------------------
(* The states a step may lead to *)

\* The registers and the host call of an execution that has ended have their types.
LEMMA NothingTyped ==
    /\ NoArgs \in Registers
    /\ NoHost \in HostCalls
    /\ NoIp \in Ips
  BY ExecutorAssumption
  DEF NoArgs, NoHost, NoIp, DANGLING, Registers, HostCalls, Ips, Addrs, Mem0s

\* The default memory of an instance has the type of a cached pointer.
LEMMA Mem0Typed ==
    ASSUME NEW pg \in [Memories -> 0 .. MaxPages], NEW i \in Instances
    PROVE  extract_mem0(pg, i) \in Mem0s
  BY ExecutorAssumption DEF extract_mem0, Mem0s

\* An execution that ends leaves a stack of the right type.
LEMMA Ends ==
    ASSUME Finish, frames' \in Seq(Frames), instance' \in Instances \cup {NoInst},
           len' \in 0 .. MaxHeight, pages' \in [Memories -> 0 .. MaxPages]
    PROVE  IInv'
<1>1. phase' = "idle" /\ args' \in Registers /\ host' \in HostCalls
  BY NothingTyped, Zenon DEF Finish
<1> QED
  BY <1>1 DEF IInv, TypeOK, RegistersInv, HostInv

\* An execution that goes on does so in the top frame and in its instance.
LEMMA Runs ==
    ASSUME phase' = "running", WellFormed(frames', instance', len'), frames' # <<>>,
           NEW ip \in Places, ip.func = frames'[Len(frames')].ip.func,
           NEW sp \in Addrs, NEW m0 \in Mem0s,
           args' = [ip |-> ip, sp |-> sp, inst |-> instance', mem0 |-> m0],
           host' \in HostCalls, len' \in 0 .. MaxHeight,
           pages' \in [Memories -> 0 .. MaxPages]
    PROVE  IInv'
<1>1. frames' \in Seq(Frames) /\ instance' = InstanceOf[frames'[Len(frames')].ip.func]
  BY Zenon DEF WellFormed
<1>2. instance' \in Instances
  BY <1>1, ExecutorAssumption, Zenon DEF Places
<1>3. args' \in Registers
  BY <1>2, Zenon DEF Registers, Places, Ips
<1>4. TypeOK'
  BY <1>1, <1>2, <1>3, Zenon DEF TypeOK
<1>5. RegistersInv'
  BY Zenon DEF RegistersInv
<1> QED
  BY <1>4, <1>5, Zenon DEF IInv, HostInv

\* A suspended execution has a frame to return to.
LEMMA Suspends ==
    ASSUME phase' = "suspended", WellFormed(frames', instance', len'), frames' # <<>>,
           instance' \in Instances \cup {NoInst},
           args' = NoArgs, host' \in HostCalls, len' \in 0 .. MaxHeight,
           pages' \in [Memories -> 0 .. MaxPages]
    PROVE  IInv'
<1>1. TypeOK'
  BY NothingTyped, ZenonT(60) DEF TypeOK, WellFormed
<1> QED
  BY <1>1 DEF IInv, RegistersInv, HostInv

\* What holds of a running execution.
LEMMA RunningFacts ==
    ASSUME IInv, phase = "running"
    PROVE  /\ WellFormed(frames, instance, len)
           /\ frames \in Seq(Frames) /\ frames # <<>> /\ Len(frames) \in Nat \ {0}
           /\ frames[Len(frames)] \in Frames
           /\ args.ip \in Places /\ args.ip.func = frames[Len(frames)].ip.func
           /\ After(args.ip) \in Places /\ After(args.ip).func = args.ip.func
           /\ args.inst = instance /\ instance \in Instances
           /\ instance = InstanceOf[args.ip.func]
           /\ args \in Registers /\ len \in 0 .. MaxHeight /\ len \in Nat
           /\ pages \in [Memories -> 0 .. MaxPages] /\ host \in HostCalls
           /\ top_start(frames) = frames[Len(frames)].start
           /\ top_start(frames) \in Nat
           /\ top_start(frames) + Size[args.ip.func] <= len
<1>1. /\ WellFormed(frames, instance, len) /\ frames # <<>> /\ frames \in Seq(Frames)
      /\ args.ip.func = frames[Len(frames)].ip.func /\ args.inst = instance
      /\ args \in Registers /\ len \in 0 .. MaxHeight /\ host \in HostCalls
      /\ pages \in [Memories -> 0 .. MaxPages]
  BY DEF IInv, TypeOK, RegistersInv
<1>2. Len(frames) \in Nat \ {0} /\ Len(frames) \in 1 .. Len(frames)
  BY <1>1
<1>3. frames[Len(frames)] \in Frames
  BY <1>1, <1>2, SMTT(60)
<1>4. frames[Len(frames)].ip.func \in Funcs /\ frames[Len(frames)].start \in Nat
  BY <1>3, Zenon DEF Frames, Places
<1>5. args.ip \in Places
  BY <1>1, <1>4, Zenon DEF Registers, Ips, Places
<1>6. instance = InstanceOf[args.ip.func]
  BY <1>1, Zenon DEF WellFormed
<1>7. instance \in Instances /\ len \in Nat
  BY <1>1, <1>4, <1>6, ExecutorAssumption
<1>8. top_start(frames) = frames[Len(frames)].start
  BY <1>1, Zenon DEF top_start
<1>9. top_start(frames) + Size[args.ip.func] <= len
  BY <1>1, <1>2, <1>8, Zenon DEF WellFormed
<1> QED
  BY <1>1, <1>2, <1>3, <1>4, <1>5, <1>6, <1>7, <1>8, <1>9, PlaceFacts, Zenon

\* Synchronizing the ip of a running execution.
LEMMA RunningSynced ==
    ASSUME IInv, phase = "running", NEW ip \in Places, ip.func = args.ip.func
    PROVE  /\ sync_ip(frames, ip) \in Seq(Frames) /\ sync_ip(frames, ip) # <<>>
           /\ Len(sync_ip(frames, ip)) = Len(frames)
           /\ sync_ip(frames, ip)[Len(frames)].ip = ip
           /\ sync_ip(frames, ip)[Len(frames)].start = top_start(frames)
           /\ top_start(sync_ip(frames, ip)) = top_start(frames)
           /\ WellFormed(sync_ip(frames, ip), instance, len)
<1>1. /\ frames \in Seq(Frames) /\ frames # <<>> /\ WellFormed(frames, instance, len)
      /\ ip.func = frames[Len(frames)].ip.func
      /\ top_start(frames) = frames[Len(frames)].start
  BY RunningFacts, Zenon
<1>2. Len(frames) \in 1 .. Len(frames)
  BY <1>1
<1>3. WellFormed(sync_ip(frames, ip), instance, len)
  BY <1>1, SyncWellFormed, Zenon
<1> QED
  BY <1>1, <1>2, <1>3, SyncFacts, Zenon

\* The cells that are made available for a frame that fits.
LEMMA GrownFits ==
    ASSUME len \in 0 .. MaxHeight, NEW end \in Nat, Fits(end)
    PROVE  /\ Grown(end) \in 0 .. MaxHeight /\ Grown(end) \in Nat
           /\ len <= Grown(end) /\ end <= Grown(end)
<1>1. MaxHeight \in Nat
  BY ExecutorAssumption, Zenon
<1> QED
  BY <1>1 DEF Fits, Grown

-----------------------------------------------------------------------------
(* Calls of Wasm functions *)

\* Entering a function whose frame is on top, whether there is room for it or not.
LEMMA EnterKeeps ==
    ASSUME IInv, phase = "running", NEW f \in Funcs, NEW start \in Nat, start <= len,
           Enter(f, start, InstanceOf[f]), UNCHANGED pages,
           frames' \in Seq(Frames), frames' # <<>>, frames'[Len(frames')].ip = Entry(f),
           instance' = InstanceOf[f],
           \A m \in Nat : len <= m /\ start + Size[f] <= m =>
                             WellFormed(frames', instance', m)
    PROVE  IInv'
<1>1. /\ len \in 0 .. MaxHeight /\ pages' \in [Memories -> 0 .. MaxPages]
      /\ host \in HostCalls /\ args.mem0 \in Mem0s
  BY RunningFacts, Zenon DEF Registers
<1>2. /\ InstanceOf[f] \in Instances /\ Size[f] \in Nat /\ MaxHeight \in Nat
      /\ Entry(f) \in Places /\ Entry(f).func = f
  BY ExecutorAssumption, PlaceFacts, Zenon
<1>3. CASE Finish /\ UNCHANGED len
  BY <1>1, <1>2, <1>3, Ends
<1>4. CASE /\ Size[f] = 0 \/ Fits(start + Size[f])
           /\ len' = IF Size[f] = 0 THEN len ELSE Grown(start + Size[f])
           /\ args' = [ip |-> Entry(f), sp |-> IF Size[f] = 0 THEN DANGLING ELSE start,
                       inst |-> InstanceOf[f], mem0 |-> update_instance(InstanceOf[f])]
           /\ phase' = "running"
           /\ UNCHANGED host
  <2>1. len' \in 0 .. MaxHeight /\ len' \in Nat /\ len <= len' /\ start + Size[f] <= len'
    <3>1. CASE Size[f] = 0
      <4>1. len' = len /\ len \in 0 .. MaxHeight /\ MaxHeight \in Nat
        BY <1>1, <1>2, <1>4, <3>1, Zenon
      <4> QED
        BY <3>1, <4>1
    <3>2. CASE Size[f] # 0
      <4>1. start + Size[f] \in Nat
        BY <1>2
      <4>2. len' = Grown(start + Size[f]) /\ Fits(start + Size[f]) /\ len \in 0 .. MaxHeight
        BY <1>1, <1>4, <3>2, Zenon
      <4> QED
        BY <4>1, <4>2, GrownFits, Zenon
    <3> QED
      BY <3>1, <3>2, Zenon
  <2>2. WellFormed(frames', instance', len')
    BY <2>1
  <2>3. update_instance(InstanceOf[f]) \in Mem0s
    BY <1>1, <1>2, Mem0Typed, RunningFacts, Zenon DEF update_instance
  <2>4. (IF Size[f] = 0 THEN DANGLING ELSE start) \in Addrs
    BY Zenon DEF Addrs
  <2> QED
    BY <1>1, <1>2, <1>4, <2>1, <2>2, <2>3, <2>4, Runs, ZenonT(60)
<1> QED
  BY <1>3, <1>4, Zenon DEF Enter

\* call_wasm, for a callee in the current instance or with its instance given.
LEMMA CallKeeps ==
    ASSUME IInv, phase = "running", NEW f \in Funcs, NEW head \in Nat,
           InFrame(head, Params[f]), NEW inst,
           inst = InstanceOf[f] \/ (inst = NoInst /\ InstanceOf[f] = args.inst),
           call_wasm(f, head, inst), UNCHANGED pages
    PROVE  IInv'
<1> DEFINE fs == sync_ip(frames, After(args.ip))
           start == top_start(frames) + head
           x == [ip |-> Entry(f), start |-> start,
                 instance |-> IF inst \in {NoInst, instance} THEN NoInst ELSE instance]
<1>1. CASE Len(frames) = MaxDepth
  BY <1>1, RunningFacts, Ends, ZenonT(60) DEF call_wasm, Unstacked, stackVars
<1>2. CASE Len(frames) # MaxDepth
  <2>1. /\ frames' = push(fs, f, head, inst)
        /\ instance' = IF inst = NoInst THEN instance ELSE inst
        /\ Enter(f, start, IF inst = NoInst THEN args.inst ELSE inst)
    BY <1>2 DEF call_wasm
  <2>2. /\ InstanceOf[f] \in Instances /\ NoInst \notin Instances
        /\ Size[f] \in Nat /\ Params[f] \in Nat
        /\ Entry(f) \in Places /\ Entry(f).func = f
    BY ExecutorAssumption, PlaceFacts, Zenon
  <2>3. instance' = InstanceOf[f] /\ Enter(f, start, InstanceOf[f])
    BY <2>1, <2>2, RunningFacts, ZenonT(60)
  <2>4. Size[args.ip.func] \in Nat
    BY RunningFacts, ExecutorAssumption, Zenon DEF Places
  <2>5. start \in Nat /\ start <= len
    <3>1. top_start(frames) \in Nat /\ len \in Nat /\ top_start(frames) + Size[args.ip.func] <= len
      BY RunningFacts, Zenon
    <3> QED
      BY <2>2, <2>4, <3>1 DEF InFrame
  <2>6. fs \in Seq(Frames) /\ fs # <<>> /\ top_start(fs) = top_start(frames)
        /\ WellFormed(fs, instance, len) /\ fs[Len(fs)].start = top_start(frames)
    BY RunningFacts, RunningSynced, Zenon
  <2>7. frames' = Append(fs, x)
    BY <2>1, <2>6, Zenon DEF push
  <2>8. x \in Frames
    BY <2>2, <2>5, RunningFacts, Zenon DEF Frames
  <2> HIDE DEF fs
  <2>9. frames' \in Seq(Frames) /\ frames' # <<>> /\ frames'[Len(frames')] = x
    <3> HIDE DEF x
    <3>1. /\ Append(fs, x) \in Seq(Frames) /\ Append(fs, x) # <<>>
          /\ Len(Append(fs, x)) = Len(fs) + 1 /\ Append(fs, x)[Len(fs) + 1] = x
      BY <2>6, <2>8, PushFacts, Zenon
    <3> QED
      BY <2>7, <3>1, Zenon
  <2>10. instance = IF x.instance = NoInst THEN InstanceOf[x.ip.func] ELSE x.instance
    BY <2>2, RunningFacts, Zenon
  <2>11. ASSUME NEW m \in Nat, len <= m, start + Size[f] <= m
         PROVE  WellFormed(frames', instance', m)
    <3>1. x.start >= fs[Len(fs)].start /\ x.start + Size[x.ip.func] <= m
          /\ InstanceOf[x.ip.func] = instance'
      <4>1. fs[Len(fs)].start = top_start(frames) /\ top_start(frames) \in Nat
        BY <2>6, RunningFacts, Zenon
      <4>2. x.ip.func = f /\ x.start = start
        BY <2>2, Zenon
      <4>3. start >= top_start(frames)
        BY <4>1
      <4> QED
        BY <2>3, <2>11, <4>1, <4>2, <4>3, Zenon
    <3> QED
      BY <2>6, <2>7, <2>8, <2>10, <2>11, <3>1, RunningFacts, PushWellFormed, ZenonT(60)
  <2> QED
    <3>1. \A m \in Nat : len <= m /\ start + Size[f] <= m => WellFormed(frames', instance', m)
      BY <2>11, Zenon
    <3>2. x.ip = Entry(f)
      OBVIOUS
    <3>3. frames'[Len(frames')].ip = Entry(f)
      BY <2>9, <3>2
    <3> HIDE DEF start, x
    <3> QED
      BY <2>3, <2>5, <2>9, <3>1, <3>3, EnterKeeps, SMTT(60)
<1> QED
  BY <1>1, <1>2

\* The frame that a tail call leaves behind.
LEMMA ReplaceFacts ==
    ASSUME IInv, phase = "running", NEW f \in Funcs, NEW inst,
           inst = InstanceOf[f] \/ inst = NoInst
    PROVE  \E x \in Frames :
               /\ x.ip = Entry(f) /\ x.start = top_start(frames)
               /\ x.instance = IF inst # NoInst /\ frames[Len(frames)].instance = NoInst
                               THEN instance ELSE frames[Len(frames)].instance
               /\ replace(f, inst) = [frames EXCEPT ![Len(frames)] = x]
<1> DEFINE top == frames[Len(frames)]
           x == [top EXCEPT !.ip = Entry(f),
                            !.instance = IF inst # NoInst /\ @ = NoInst THEN instance ELSE @]
<1>1. top \in Frames /\ Entry(f) \in Places /\ instance \in Instances
      /\ top_start(frames) = top.start
  BY RunningFacts, PlaceFacts
<1>2. x \in Frames /\ x.ip = Entry(f) /\ x.start = top.start
      /\ x.instance = IF inst # NoInst /\ top.instance = NoInst THEN instance ELSE top.instance
  BY <1>1, Zenon DEF Frames
<1>3. replace(f, inst) = [frames EXCEPT ![Len(frames)] = x]
  BY RunningFacts, Zenon DEF replace
<1> QED
  BY <1>1, <1>2, <1>3, ZenonT(60)

\* Another frame in the place of the top one, which remembers the caller's instance
\* unless it is its own, keeps a call stack in order.
LEMMA ReplaceWellFormed ==
    ASSUME NEW fs, NEW i, NEW n \in Nat, WellFormed(fs, i, n), fs # <<>>,
           NEW x \in Frames, NEW m \in Nat, n <= m,
           x.start = fs[Len(fs)].start, x.start + Size[x.ip.func] <= m,
           Len(fs) > 1 =>
               InstanceOf[fs[Len(fs) - 1].ip.func] =
                   IF x.instance = NoInst THEN InstanceOf[x.ip.func] ELSE x.instance
    PROVE  /\ WellFormed([fs EXCEPT ![Len(fs)] = x], InstanceOf[x.ip.func], m)
           /\ [fs EXCEPT ![Len(fs)] = x] # <<>>
           /\ Len([fs EXCEPT ![Len(fs)] = x]) = Len(fs)
           /\ [fs EXCEPT ![Len(fs)] = x][Len(fs)] = x
<1> DEFINE r == [fs EXCEPT ![Len(fs)] = x]
<1>1. fs \in Seq(Frames) /\ Len(fs) \in Nat \ {0}
  BY SMTT(60) DEF WellFormed
<1>2. r \in Seq(Frames) /\ Len(r) = Len(fs)
  BY <1>1, ReplacedFacts, Zenon
<1>3. \A k \in 1 .. Len(fs) : r[k] = IF k = Len(fs) THEN x ELSE fs[k]
  BY <1>1, ReplacedFacts, ZenonT(60)
<1>4. r # <<>> /\ r[Len(fs)] = x
  BY <1>1, ReplacedFacts, Zenon
<1> HIDE DEF r
<1>5. ASSUME NEW k \in 1 .. Len(r)
      PROVE  r[k].start + Size[r[k].ip.func] <= m
  <2>1. CASE k = Len(fs)
    BY <2>1, <1>4, Zenon
  <2>2. CASE k # Len(fs)
    <3>1. r[k] = fs[k] /\ fs[k].start + Size[fs[k].ip.func] <= n
      BY <2>2, <1>2, <1>3, Zenon DEF WellFormed
    <3>2. fs[k].start + Size[fs[k].ip.func] \in Nat
      <4>1. fs[k] \in Frames
        BY <1>1, <1>2
      <4> QED
        BY <4>1, FrameFacts, Zenon
    <3> QED
      BY <3>1, <3>2
  <2> QED
    BY <2>1, <2>2, Zenon
<1>6. ASSUME NEW k \in 2 .. Len(r)
      PROVE  /\ r[k].start >= r[k - 1].start
             /\ InstanceOf[r[k - 1].ip.func] =
                   IF r[k].instance = NoInst THEN InstanceOf[r[k].ip.func] ELSE r[k].instance
  <2>0. k - 1 \in 1 .. Len(fs) /\ k - 1 # Len(fs) /\ k \in 1 .. Len(fs) /\ k \in 2 .. Len(fs)
    BY <1>1, <1>2, SMTT(60)
  <2>1. r[k - 1] = fs[k - 1] /\ fs[k].start >= fs[k - 1].start
    BY <2>0, <1>3, Zenon DEF WellFormed
  <2>2. CASE k = Len(fs)
    BY <2>1, <2>2, <1>1, <1>4, SMTT(60)
  <2>3. CASE k # Len(fs)
    <3>1. r[k] = fs[k]
      BY <2>0, <2>3, <1>3
    <3> QED
      BY <2>0, <2>1, <3>1, Zenon DEF WellFormed
  <2> QED
    BY <2>2, <2>3
<1> QED
  BY <1>2, <1>4, <1>5, <1>6, ZenonT(60) DEF WellFormed, r

\* return_call_wasm, for a callee in the current instance or in another one.
LEMMA TailCallKeeps ==
    ASSUME IInv, phase = "running", NEW f \in Funcs, NEW inst,
           \/ inst = InstanceOf[f] /\ inst # args.inst
           \/ inst = NoInst /\ InstanceOf[f] = args.inst,
           return_call_wasm(f, inst), UNCHANGED pages
    PROVE  IInv'
<1>1. PICK x \in Frames :
          /\ x.ip = Entry(f) /\ x.start = top_start(frames)
          /\ x.instance = IF inst # NoInst /\ frames[Len(frames)].instance = NoInst
                          THEN instance ELSE frames[Len(frames)].instance
          /\ replace(f, inst) = [frames EXCEPT ![Len(frames)] = x]
  BY ReplaceFacts, ZenonT(60)
<1>2. /\ InstanceOf[f] \in Instances /\ NoInst \notin Instances
      /\ Size[f] \in Nat /\ Entry(f).func = f /\ Size[args.ip.func] \in Nat
  BY ExecutorAssumption, PlaceFacts, RunningFacts, Zenon DEF Places
<1>3. /\ frames' = [frames EXCEPT ![Len(frames)] = x]
      /\ instance' = InstanceOf[f]
      /\ Enter(f, top_start(frames), InstanceOf[f])
  BY <1>1, <1>2, RunningFacts, Zenon DEF return_call_wasm
<1>4. Len(frames) > 1 =>
          InstanceOf[frames[Len(frames) - 1].ip.func] =
              IF x.instance = NoInst THEN InstanceOf[x.ip.func] ELSE x.instance
  <2> HAVE Len(frames) > 1
  <2>1. Len(frames) \in 2 .. Len(frames)
    BY RunningFacts
  <2>2. InstanceOf[frames[Len(frames) - 1].ip.func] =
            IF frames[Len(frames)].instance = NoInst
            THEN InstanceOf[frames[Len(frames)].ip.func] ELSE frames[Len(frames)].instance
    BY <2>1, RunningFacts, Zenon DEF WellFormed
  <2> QED
    BY <2>2, <1>1, <1>2, RunningFacts, ZenonT(60)
<1>5. ASSUME NEW m \in Nat, len <= m, top_start(frames) + Size[f] <= m
      PROVE  WellFormed(frames', instance', m)
  BY <1>1, <1>2, <1>3, <1>4, <1>5, RunningFacts, ReplaceWellFormed, ZenonT(60)
<1>6. frames' # <<>> /\ frames'[Len(frames')].ip = Entry(f) /\ frames' \in Seq(Frames)
  <2>1. PICK m \in Nat : len <= m /\ top_start(frames) + Size[f] <= m
    <3>1. len \in Nat /\ top_start(frames) \in Nat /\ Size[f] \in Nat
      BY <1>2, RunningFacts, Zenon
    <3> QED
      BY <3>1
  <2>2. frames \in Seq(Frames) /\ frames # <<>>
    BY RunningFacts, Zenon
  <2>3. /\ frames' \in Seq(Frames) /\ frames' # <<>> /\ Len(frames') = Len(frames)
        /\ \A k \in 1 .. Len(frames) : frames'[k] = IF k = Len(frames) THEN x ELSE frames[k]
    <3> DEFINE r == [frames EXCEPT ![Len(frames)] = x]
    <3>1. /\ r \in Seq(Frames) /\ Len(r) = Len(frames)
          /\ \A k \in 1 .. Len(frames) : r[k] = IF k = Len(frames) THEN x ELSE frames[k]
      BY <2>2, ReplacedFacts, Zenon
    <3>2. frames' = r
      BY <1>3, Zenon
    <3> HIDE DEF r
    <3>3. r # <<>>
      BY <2>2, <3>1
    <3> QED
      BY <3>1, <3>2, <3>3, Zenon
  <2>4. Len(frames) \in 1 .. Len(frames)
    BY <2>2
  <2> QED
    BY <1>1, <2>3, <2>4, Zenon
<1>7. top_start(frames) \in Nat /\ top_start(frames) <= len
  <2>1. /\ top_start(frames) \in Nat /\ len \in Nat /\ Size[args.ip.func] \in Nat
        /\ top_start(frames) + Size[args.ip.func] <= len
    BY <1>2, RunningFacts, Zenon
  <2> QED
    BY <2>1
<1> QED
  BY <1>2, <1>3, <1>5, <1>6, <1>7, EnterKeeps, Zenon

-----------------------------------------------------------------------------
(* Every step keeps the invariant *)

\* execute_root_func of a Wasm function starts with an empty stack.
LEMMA Step_execute_root_func ==
    ASSUME IInv, NEW f \in Funcs, execute_root_func(f)
    PROVE  IInv'
<1> DEFINE x == [ip |-> Entry(f), start |-> 0, instance |-> NoInst]
<1>1. /\ Entry(f) \in Places /\ Entry(f).func = f /\ Size[f] \in Nat
      /\ InstanceOf[f] \in Instances /\ MaxHeight \in Nat
      /\ pages \in [Memories -> 0 .. MaxPages] /\ host \in HostCalls
  BY ExecutorAssumption, PlaceFacts, ZenonT(60) DEF IInv, TypeOK
<1>2. x \in Frames /\ frames' = <<x>> /\ instance' = InstanceOf[f] /\ UNCHANGED pages
  BY <1>1, Zenon DEF Frames, execute_root_func
<1>3. x.start = 0 /\ x.ip.func = f /\ x.ip = Entry(f)
  BY <1>1, Zenon
<1> HIDE DEF x
<1>4. frames' \in Seq(Frames) /\ Len(frames') = 1 /\ frames'[1] = x /\ frames' # <<>>
  BY <1>2, SMTT(30)
<1>5. CASE Fits(Size[f])
  <2>1. /\ len' = Size[f] /\ phase' = "running" /\ UNCHANGED host
        /\ args' = [ip |-> Entry(f), sp |-> sp_or_dangling(Size[f], 0),
                    inst |-> InstanceOf[f], mem0 |-> extract_mem0(pages, InstanceOf[f])]
    BY <1>5, ZenonT(60) DEF execute_root_func
  <2>2. len' \in 0 .. MaxHeight /\ WellFormed(frames', instance', len')
    BY <1>1, <1>2, <1>3, <1>4, <1>5, <2>1, SMTT(60) DEF WellFormed, Fits
  <2>3. sp_or_dangling(Size[f], 0) \in Addrs /\ extract_mem0(pages, InstanceOf[f]) \in Mem0s
    BY <1>1, Mem0Typed, ZenonT(60) DEF sp_or_dangling, Addrs
  <2> QED
    BY <1>1, <1>2, <1>3, <1>4, <2>1, <2>2, <2>3, Runs, Zenon
<1>6. CASE ~Fits(Size[f])
  BY <1>1, <1>2, <1>4, <1>6, Ends, SMTT(60) DEF execute_root_func
<1> QED
  BY <1>5, <1>6

\* What popping the top frame of a running execution leaves.
LEMMA PopFacts ==
    ASSUME IInv, phase = "running"
    PROVE  /\ WellFormed(Rest(frames), popped_instance, len)
           /\ Rest(frames) \in Seq(Frames)
           /\ popped_instance \in Instances
           /\ Rest(frames) # <<>> =>
                 LET top == frames[Len(frames) - 1]
                 IN  /\ Rest(frames)[Len(Rest(frames))] = top
                     /\ top \in Frames /\ top_start(Rest(frames)) = top.start
                     /\ popped_instance = IF frames[Len(frames)].instance = NoInst
                                          THEN instance ELSE frames[Len(frames)].instance
<1>1. /\ Rest(frames) \in Seq(Frames)
      /\ Rest(frames) # <<>> =>
            /\ Len(frames) > 1
            /\ Rest(frames)[Len(Rest(frames))] = frames[Len(frames) - 1]
            /\ top_start(Rest(frames)) = frames[Len(frames) - 1].start
  BY RunningFacts, RestFacts
<1>2. Rest(frames) # <<>> =>
          popped_instance = IF frames[Len(frames)].instance = NoInst
                            THEN instance ELSE frames[Len(frames)].instance
  BY DEF popped_instance
<1>3. WellFormed(Rest(frames), popped_instance, len)
  BY <1>2, RunningFacts, RestWellFormed, ZenonT(60)
<1>4. popped_instance \in Instances
  BY RunningFacts, ExecutorAssumption, Zenon DEF popped_instance, Frames
<1>5. Rest(frames) # <<>> => frames[Len(frames) - 1] \in Frames
  BY <1>1, RunningFacts
<1> QED
  BY <1>1, <1>2, <1>3, <1>4, <1>5, Zenon

\* pop_frame: the caller goes on in its instance, or the execution ends.
LEMMA Step_pop_frame ==
    ASSUME IInv, pop_frame
    PROVE  IInv'
<1>1. /\ phase = "running" /\ frames' = Rest(frames) /\ instance' = popped_instance
      /\ UNCHANGED <<len, pages>>
  BY ZenonT(60) DEF pop_frame
<1>2. CASE Rest(frames) = <<>>
  BY <1>1, <1>2, RunningFacts, PopFacts, Ends DEF pop_frame
<1>3. CASE Rest(frames) # <<>>
  <2> DEFINE top == frames[Len(frames) - 1]
             changed == frames[Len(frames)].instance
             sp == sp_or_dangling(len, top.start)
             m0 == IF changed = NoInst THEN args.mem0 ELSE extract_mem0(pages, changed)
  <2>1. /\ args' = [ip |-> top.ip, sp |-> sp,
                    inst |-> IF changed = NoInst THEN args.inst ELSE changed, mem0 |-> m0]
        /\ UNCHANGED <<phase, host>>
    BY <1>3, Zenon DEF pop_frame
  <2>2. /\ frames'[Len(frames')] = top /\ top \in Frames
        /\ instance' = IF changed = NoInst THEN args.inst ELSE changed
        /\ instance' \in Instances /\ WellFormed(frames', instance', len')
    BY <1>1, <1>3, RunningFacts, PopFacts, Zenon
  <2>3. top.ip \in Places /\ sp \in Addrs
    BY <2>2, FrameFacts DEF sp_or_dangling, Addrs
  <2>4. m0 \in Mem0s
    BY <2>2, <1>1, RunningFacts, Mem0Typed, Zenon DEF Registers
  <2> HIDE DEF top, changed, sp, m0
  <2>5. args' = [ip |-> top.ip, sp |-> sp, inst |-> instance', mem0 |-> m0]
    BY <2>1, <2>2, Zenon
  <2>6. frames' # <<>> /\ phase' = "running" /\ host' \in HostCalls
        /\ len' \in 0 .. MaxHeight /\ pages' \in [Memories -> 0 .. MaxPages]
    BY <1>1, <1>3, <2>1, RunningFacts, Zenon
  <2> QED
    BY <2>2, <2>3, <2>4, <2>5, <2>6, Runs, Zenon
<1> QED
  BY <1>2, <1>3, Zenon

\* The host function's extent has its type.
LEMMA HostCellsTyped == \A h \in Hosts : HostCells(h) \in Nat
  BY ExecutorAssumption DEF HostCells

\* execute_root_func of a host function runs it without a frame.
LEMMA Step_execute_root_host ==
    ASSUME IInv, NEW h \in Hosts, execute_root_host(h)
    PROVE  IInv'
<1>1. /\ frames' = <<>> /\ instance' = NoInst /\ UNCHANGED pages
      /\ pages' \in [Memories -> 0 .. MaxPages] /\ args \in Registers
      /\ MaxHeight \in Nat /\ HostCells(h) \in Nat /\ frames' \in Seq(Frames)
  BY ExecutorAssumption, HostCellsTyped, SMTT(60) DEF execute_root_host, IInv, TypeOK
<1>2. CASE Fits(HostCells(h))
  <2>1. /\ len' = HostCells(h) /\ phase' = "host" /\ UNCHANGED args
        /\ host' = [NoHost EXCEPT !.func = h, !.kind = "root"]
    BY <1>2 DEF execute_root_host
  <2>2. host' \in HostCalls /\ host'.func = h /\ host'.kind = "root"
    BY <2>1, NothingTyped, Zenon DEF HostCalls
  <2>3. TypeOK'
    BY <1>1, <1>2, <2>1, <2>2, SMTT(60) DEF TypeOK, Fits
  <2>4. WellFormed(frames', instance', len')
    BY <1>1 DEF WellFormed
  <2> QED
    BY <1>1, <2>1, <2>2, <2>3, <2>4, Zenon DEF IInv, RegistersInv, HostInv
<1>3. CASE ~Fits(HostCells(h))
  BY <1>1, <1>3, Ends, SMTT(60) DEF execute_root_host
<1> QED
  BY <1>2, <1>3

\* call_host: the caller's ip is synchronized before the host function runs.
LEMMA Step_call_host ==
    ASSUME IInv, NEW h \in Hosts, NEW head \in Nat, call_host(h, head)
    PROVE  IInv'
<1> DEFINE start == top_start(frames)
           end == start + head + HostCells(h)
<1>1. /\ phase = "running" /\ frames' = sync_ip(frames, After(args.ip))
      /\ UNCHANGED <<instance, pages>>
  BY ZenonT(60) DEF call_host
<1>2. /\ frames' \in Seq(Frames) /\ frames' # <<>> /\ frames'[Len(frames')].ip = After(args.ip)
      /\ WellFormed(frames', instance', len)
  <2>1. After(args.ip) \in Places /\ After(args.ip).func = args.ip.func
    BY <1>1, RunningFacts, Zenon
  <2> QED
    BY <1>1, <2>1, RunningSynced, Zenon
<1>3. end \in Nat /\ start \in Nat /\ start + head \in Nat /\ MaxHeight \in Nat
  <2>1. start \in Nat /\ HostCells(h) \in Nat
    BY <1>1, RunningFacts, HostCellsTyped, Zenon
  <2>2. MaxHeight \in Nat
    BY ExecutorAssumption, Zenon
  <2> HIDE DEF start
  <2> QED BY <2>1, <2>2
<1>4. CASE Fits(end)
  <2>1. /\ len' = Grown(end) /\ phase' = "host" /\ UNCHANGED args
        /\ host' = [func |-> h, kind |-> "call", head |-> head, base |-> start + head,
                    ip |-> After(args.ip), sp |-> start, inst |-> args.inst]
    BY <1>4 DEF call_host
  <2>2. host' \in HostCalls
    BY <1>1, <1>3, <2>1, RunningFacts, ZenonT(60) DEF HostCalls, Places, Ips, Addrs
  <2>3. len' \in 0 .. MaxHeight /\ len' \in Nat /\ len <= len'
    <3> HIDE DEF end
    <3>1. len \in 0 .. MaxHeight
      BY <1>1, RunningFacts, Zenon
    <3> QED
      BY <1>3, <1>4, <2>1, <3>1, GrownFits, Zenon
  <2>4. WellFormed(frames', instance', len')
    BY <1>1, <1>2, <2>3, RunningFacts, GrownWellFormed, Zenon
  <2>5. TypeOK'
    BY <1>1, <1>2, <2>1, <2>2, <2>3, RunningFacts, Zenon DEF TypeOK
  <2>6. HostInv'
    BY <1>1, <1>2, <2>1, RunningFacts, Zenon DEF HostInv
  <2> QED
    BY <2>1, <2>4, <2>5, <2>6 DEF IInv, RegistersInv
<1>5. CASE ~Fits(end)
  BY <1>1, <1>2, <1>5, RunningFacts, Ends, Zenon DEF call_host
<1> QED
  BY <1>4, <1>5

\* return_call_host: the caller's frame is gone when the host function runs.
LEMMA Step_return_call_host ==
    ASSUME IInv, NEW h \in Hosts, NEW head \in Nat, return_call_host(h, head)
    PROVE  IInv'
<1> DEFINE start == top_start(frames)
           rest == Rest(frames)
           end == start + HostCells(h)
<1>1. /\ phase = "running" /\ h \in TailHosts
      /\ frames' = rest /\ instance' = popped_instance /\ UNCHANGED pages
  BY Zenon DEF return_call_host
<1>2. /\ rest \in Seq(Frames) /\ popped_instance \in Instances
      /\ WellFormed(rest, popped_instance, len)
      /\ rest # <<>> => rest[Len(rest)] \in Frames /\ top_start(rest) \in Nat
  BY <1>1, PopFacts, FrameFacts, ZenonT(30)
<1>3. end \in Nat /\ start \in Nat /\ MaxHeight \in Nat /\ HostCells(h) \in Nat
  <2>1. start \in Nat /\ HostCells(h) \in Nat
    BY <1>1, RunningFacts, HostCellsTyped, Zenon
  <2>2. MaxHeight \in Nat
    BY ExecutorAssumption, Zenon
  <2> HIDE DEF start
  <2> QED BY <2>1, <2>2
<1>4. CASE HostCells(h) = 0 \/ Fits(end)
  <2> DEFINE ip == IF rest = <<>> THEN NoIp ELSE rest[Len(rest)].ip
             kind == IF rest = <<>> THEN "tail_root" ELSE "tail"
             changed == frames[Len(frames)].instance
             inst == IF changed = NoInst THEN args.inst ELSE changed
  <2>0. inst \in Instances \cup {NoInst} /\ (rest # <<>> => inst = popped_instance)
    BY <1>1, RunningFacts, PopFacts, FrameFacts, Zenon DEF Frames
  <2>1. /\ len' = IF HostCells(h) = 0 THEN len ELSE Grown(end)
        /\ phase' = "host" /\ UNCHANGED args
        /\ host' = [func |-> h, kind |-> kind, head |-> head, base |-> start, ip |-> ip,
                    sp |-> return_host_sp(h), inst |-> inst]
    BY <1>4, Zenon DEF return_call_host
  <2>2. ip \in Ips
    BY <1>2, FrameFacts, NothingTyped, Zenon DEF Places, Ips
  <2>3. return_host_sp(h) \in Addrs
    BY <1>2, Zenon DEF return_host_sp, Addrs, top_start
  <2>4. host' \in HostCalls
    BY <1>2, <1>3, <2>0, <2>1, <2>2, <2>3, ZenonT(60) DEF HostCalls
  <2>5. len' \in 0 .. MaxHeight /\ len' \in Nat /\ len <= len'
    <3> HIDE DEF end
    <3>1. len \in 0 .. MaxHeight /\ len \in Nat
      BY <1>1, RunningFacts, Zenon
    <3>2. len <= len
      BY <3>1
    <3>3. CASE HostCells(h) = 0
      BY <2>1, <3>1, <3>2, <3>3, Zenon
    <3>4. CASE HostCells(h) # 0
      BY <1>3, <1>4, <2>1, <3>1, <3>4, GrownFits, Zenon
    <3> QED
      BY <3>3, <3>4, Zenon
  <2>6. WellFormed(frames', instance', len')
    BY <1>1, <1>2, <2>5, RunningFacts, GrownWellFormed, ZenonT(30)
  <2>7. TypeOK'
    BY <1>1, <1>2, <2>1, <2>4, <2>5, RunningFacts, Zenon DEF TypeOK
  <2>8. HostInv'
    <3> HIDE DEF inst
    <3> QED
      BY <1>1, <2>0, <2>1, RunningFacts, Zenon DEF HostInv
  <2> QED
    BY <2>1, <2>6, <2>7, <2>8, Zenon DEF IInv, RegistersInv
<1>5. CASE ~(HostCells(h) = 0 \/ Fits(end))
  BY <1>1, <1>2, <1>5, RunningFacts, Ends, ZenonT(60) DEF return_call_host
<1> QED
  BY <1>4, <1>5, Zenon

-----------------------------------------------------------------------------
(* Calls of the host, and the invariant *)

\* What holds while a host function runs that will return to a frame, and of a
\* suspended execution.
LEMMA WaitingFacts ==
    ASSUME IInv, \/ phase = "suspended"
                 \/ phase = "host" /\ host.kind \in {"call", "tail"}
    PROVE  /\ WellFormed(frames, instance, len)
           /\ frames \in Seq(Frames) /\ frames # <<>> /\ Len(frames) \in Nat \ {0}
           /\ frames[Len(frames)] \in Frames
           /\ instance = InstanceOf[frames[Len(frames)].ip.func] /\ instance \in Instances
           /\ len \in 0 .. MaxHeight /\ pages \in [Memories -> 0 .. MaxPages]
           /\ phase = "host" => host.ip = frames[Len(frames)].ip /\ host.inst = instance
<1>1. /\ WellFormed(frames, instance, len) /\ frames # <<>> /\ frames \in Seq(Frames)
      /\ len \in 0 .. MaxHeight /\ pages \in [Memories -> 0 .. MaxPages]
      /\ phase = "host" => host.ip = frames[Len(frames)].ip /\ host.inst = instance
  BY DEF IInv, TypeOK, HostInv
<1>2. Len(frames) \in Nat \ {0} /\ frames[Len(frames)] \in Frames
  BY <1>1
<1>3. instance = InstanceOf[frames[Len(frames)].ip.func]
  BY <1>1, ZenonT(60) DEF WellFormed
<1> QED
  BY <1>1, <1>2, <1>3, FrameFacts, ZenonT(60)

\* Memories that grow while no Wasm code runs leave the stack alone.
LEMMA Step_grow ==
    ASSUME IInv, NEW m \in Memories, host_grow(m) \/ embedder_grow(m)
    PROVE  IInv'
<1>1. /\ pages' = [pages EXCEPT ![m] = @ + 1] /\ pages[m] < MaxPages
      /\ UNCHANGED <<frames, instance, len, args, phase, host>>
  BY Zenon DEF host_grow, embedder_grow, stackVars
<1>2. pages' \in [Memories -> 0 .. MaxPages]
  BY <1>1, ExecutorAssumption DEF IInv, TypeOK
<1>3. TypeOK'
  BY <1>1, <1>2, Zenon DEF IInv, TypeOK
<1> QED
  BY <1>1, <1>3, Zenon DEF IInv, RegistersInv, HostInv, WellFormed

\* A host function returns to the frame that called it, or that called its caller.
LEMMA Step_host_ok ==
    ASSUME IInv, call_host_ok \/ return_call_host_ok
    PROVE  IInv'
<1>1. /\ phase = "host" /\ host.kind \in {"call", "tail"}
      /\ phase' = "running" /\ host' = NoHost /\ UNCHANGED <<frames, instance, len, pages>>
  BY Zenon DEF call_host_ok, return_call_host_ok, stackVars
<1>2. PICK m0 : /\ args' = [ip |-> host.ip, sp |-> host.sp, inst |-> host.inst, mem0 |-> m0]
                /\ m0 = extract_mem0(pages, host.inst) \/ m0 = args.mem0
  BY Zenon DEF call_host_ok, return_call_host_ok, update_instance
<1>3. /\ m0 \in Mem0s /\ host.sp \in Addrs /\ host' \in HostCalls
  <2>1. args.mem0 \in Mem0s /\ host.sp \in Addrs
    BY DEF IInv, TypeOK, Registers, HostCalls
  <2> QED
    BY <1>1, <1>2, <2>1, WaitingFacts, Mem0Typed, NothingTyped, Zenon
<1>4. host.ip \in Places /\ host.ip.func = frames'[Len(frames')].ip.func
  BY <1>1, WaitingFacts, FrameFacts, Zenon
<1>5. /\ WellFormed(frames', instance', len') /\ frames' # <<>> /\ len' \in 0 .. MaxHeight
      /\ pages' \in [Memories -> 0 .. MaxPages] /\ host.inst = instance'
  BY <1>1, WaitingFacts, Zenon
<1> QED
  BY <1>1, <1>2, <1>3, <1>4, <1>5, Runs, Zenon

\* A host function fails and suspends the execution.
LEMMA Step_host_error ==
    ASSUME IInv, host_error
    PROVE  IInv'
<1>1. /\ phase = "host" /\ host.kind \in {"call", "tail"} /\ phase' = "suspended"
      /\ args' = NoArgs /\ UNCHANGED <<frames, instance, len, pages>>
      /\ host' = [NoHost EXCEPT !.func = host.func, !.kind = host.kind,
                                !.head = host.head, !.base = host.base]
  BY DEF host_error, stackVars
<1>2. host' \in HostCalls
  BY <1>1, NothingTyped, ZenonT(60) DEF IInv, TypeOK, HostCalls
<1> QED
  BY <1>1, <1>2, WaitingFacts, Suspends, Zenon

\* An execution ends where its stack is left alone.
LEMMA Step_end ==
    ASSUME IInv, host_done \/ trap \/ drop
    PROVE  IInv'
<1>1. Finish /\ UNCHANGED <<frames, instance, len, pages>>
  BY ZenonT(60) DEF host_done, trap, drop, Unstacked, stackVars
<1> QED
  BY <1>1, Ends, Zenon DEF IInv, TypeOK

\* An operator that stays in its function.
LEMMA Step_step ==
    ASSUME IInv, step
    PROVE  IInv'
<1>1. PICK p \in 0 .. MaxPos : args' = [args EXCEPT !.ip.pos = p]
  BY DEF step
<1>2. phase = "running" /\ UNCHANGED <<frames, instance, len, phase, host, pages>>
  BY DEF step, stackVars
<1> DEFINE ip == [args.ip EXCEPT !.pos = p]
<1>3. args' = [ip |-> ip, sp |-> args.sp, inst |-> args.inst, mem0 |-> args.mem0]
  BY <1>1, <1>2, RunningFacts, Zenon DEF Registers
<1>4. ip \in Places /\ ip.func = args.ip.func
  BY <1>2, RunningFacts, Zenon DEF Places
<1>5. args.sp \in Addrs /\ args.mem0 \in Mem0s
  BY <1>2, RunningFacts, Zenon DEF Registers
<1> HIDE DEF ip
<1>6. /\ args' = [ip |-> ip, sp |-> args.sp, inst |-> instance', mem0 |-> args.mem0]
      /\ ip.func = frames'[Len(frames')].ip.func
  BY <1>2, <1>3, <1>4, RunningFacts, Zenon
<1> QED
  BY <1>2, <1>4, <1>5, <1>6, RunningFacts, Runs, Zenon

\* The fuel runs out.
LEMMA Step_fuel ==
    ASSUME IInv, out_of_fuel \/ table_grow
    PROVE  IInv'
<1>1. /\ phase = "running" /\ phase' = "suspended" /\ args' = NoArgs
      /\ host' = [NoHost EXCEPT !.kind = "fuel"] /\ UNCHANGED <<instance, len, pages>>
      /\ frames' = sync_ip(frames, args.ip) \/ frames' = frames
  BY DEF out_of_fuel, table_grow, OutOfFuel, stackVars
<1>2. host' \in HostCalls
  BY <1>1, NothingTyped, Zenon DEF HostCalls
<1>3. WellFormed(frames', instance', len') /\ frames' # <<>>
  <2>1. /\ frames # <<>> /\ WellFormed(frames, instance, len) /\ args.ip \in Places
        /\ args.ip.func = args.ip.func
    BY <1>1, RunningFacts, Zenon
  <2>2. WellFormed(sync_ip(frames, args.ip), instance, len) /\ sync_ip(frames, args.ip) # <<>>
    BY <1>1, <2>1, RunningSynced, Zenon
  <2> QED
    BY <1>1, <2>1, <2>2, Zenon
<1> QED
  BY <1>1, <1>2, <1>3, RunningFacts, Suspends, Zenon

\* memory.grow.
LEMMA Step_memory_grow ==
    ASSUME IInv, NEW m \in Memories, NEW default \in BOOLEAN, memory_grow(m, default)
    PROVE  IInv'
<1> DEFINE m0 == IF default THEN extract_mem0(pages', args.inst) ELSE args.mem0
<1>1. /\ phase = "running" /\ pages[m] < MaxPages /\ pages' = [pages EXCEPT ![m] = @ + 1]
      /\ args' = [args EXCEPT !.ip = After(args.ip),
                              !.mem0 = IF default THEN extract_mem0(pages', args.inst) ELSE @]
      /\ UNCHANGED <<frames, instance, len, phase, host>>
  BY DEF memory_grow, stackVars
<1>2. pages' \in [Memories -> 0 .. MaxPages]
  <2>1. pages \in [Memories -> 0 .. MaxPages] /\ MaxPages \in Nat
    BY <1>1, RunningFacts, ExecutorAssumption, Zenon
  <2>2. pages[m] + 1 \in 0 .. MaxPages
    BY <1>1, <2>1
  <2> QED
    BY <1>1, <2>1, <2>2, Zenon
<1>3. m0 \in Mem0s /\ args.sp \in Addrs
  BY <1>1, <1>2, RunningFacts, Mem0Typed, Zenon DEF Registers
<1>4. args' = [ip |-> After(args.ip), sp |-> args.sp, inst |-> args.inst, mem0 |-> m0]
  BY <1>1, RunningFacts, Zenon DEF Registers
<1> HIDE DEF m0
<1>5. /\ args' = [ip |-> After(args.ip), sp |-> args.sp, inst |-> instance', mem0 |-> m0]
      /\ After(args.ip).func = frames'[Len(frames')].ip.func /\ After(args.ip) \in Places
  BY <1>1, <1>4, RunningFacts, Zenon
<1> QED
  BY <1>1, <1>2, <1>3, <1>5, RunningFacts, Runs, ZenonT(60)

\* A suspended execution is resumed where it was suspended.
LEMMA Step_resume ==
    ASSUME IInv, resume
    PROVE  IInv'
<1> DEFINE top == frames[Len(frames)]
           sp == sp_or_dangling(len, top.start)
           m0 == extract_mem0(pages, instance)
<1>1. /\ phase = "suspended" /\ phase' = "running" /\ host' = NoHost
      /\ args' = [ip |-> top.ip, sp |-> sp, inst |-> instance', mem0 |-> m0]
      /\ UNCHANGED <<frames, instance, len, pages>>
  BY DEF resume, stackVars
<1>2. top.ip \in Places /\ sp \in Addrs /\ m0 \in Mem0s
  BY <1>1, WaitingFacts, FrameFacts, Mem0Typed, Zenon DEF sp_or_dangling, Addrs
<1> HIDE DEF sp, m0
<1> QED
  BY <1>1, <1>2, WaitingFacts, NothingTyped, Runs, Zenon

\* The four operators that call a Wasm function.
LEMMA Step_calls ==
    ASSUME IInv, NEW f \in Funcs, NEW head \in Nat,
           \/ call_internal(f, head) \/ call_imported(f, head)
           \/ return_call_internal(f) \/ return_call_imported(f)
    PROVE  IInv'
<1>1. CASE call_internal(f, head)
  BY <1>1, CallKeeps, ZenonT(60) DEF call_internal
<1>2. CASE call_imported(f, head)
  BY <1>2, CallKeeps, ZenonT(60) DEF call_imported
<1>3. CASE return_call_internal(f)
  BY <1>3, TailCallKeeps DEF return_call_internal
<1>4. CASE return_call_imported(f)
  <2>1. CASE InstanceOf[f] = args.inst
    BY <1>4, <2>1, TailCallKeeps, ZenonT(60) DEF return_call_imported
  <2>2. CASE InstanceOf[f] # args.inst
    BY <1>4, <2>2, TailCallKeeps, ZenonT(60) DEF return_call_imported
  <2> QED
    BY <2>1, <2>2, Zenon
<1> QED
  BY <1>1, <1>2, <1>3, <1>4, Zenon

-----------------------------------------------------------------------------
(* The inductive invariant *)

\* Before the first execution the stack is empty.
LEMMA InitIInv == Init => IInv
<1> SUFFICES ASSUME Init PROVE IInv
  BY Zenon
<1>1. TypeOK
  BY NothingTyped, ExecutorAssumption, SMTT(60) DEF Init, TypeOK
<1> QED
  BY <1>1 DEF Init, IInv, RegistersInv, HostInv

\* Every step keeps the invariant.
LEMMA NextIInv == IInv /\ [Next]_vars => IInv'
<1> SUFFICES ASSUME IInv, [Next]_vars PROVE IInv'
  BY ZenonT(60)
<1> USE DEF Slots
<1>1. CASE UNCHANGED vars
  <2>1. TypeOK'
    BY <1>1, Zenon DEF IInv, TypeOK, vars
  <2> QED
    BY <1>1, <2>1, ZenonT(60) DEF IInv, vars, RegistersInv, HostInv, WellFormed
<1>2. CASE \E f \in Funcs : execute_root_func(f)
  BY <1>2, Step_execute_root_func, Zenon
<1>3. CASE \E f \in Funcs : return_call_internal(f) \/ return_call_imported(f)
  <2>1. 0 \in Nat
    OBVIOUS
  <2> QED
    BY <1>3, <2>1, Step_calls
<1>4. CASE \E f \in Funcs, head \in Slots : call_internal(f, head) \/ call_imported(f, head)
  BY <1>4, Step_calls, SMTT(60)
<1>5. CASE \E h \in Hosts : execute_root_host(h)
  BY <1>5, Step_execute_root_host, Zenon
<1>6. CASE \E h \in Hosts, head \in Slots : call_host(h, head) \/ return_call_host(h, head)
  BY <1>6, Step_call_host, Step_return_call_host, SMTT(60)
<1>7. CASE \E m \in Memories : host_grow(m) \/ embedder_grow(m)
  BY <1>7, Step_grow, Zenon
<1>8. CASE \E m \in Memories, default \in BOOLEAN : memory_grow(m, default)
  BY <1>8, Step_memory_grow, Zenon
<1>9. CASE pop_frame \/ step \/ trap \/ out_of_fuel \/ table_grow
  BY <1>9, Step_pop_frame, Step_step, Step_end, Step_fuel, Zenon
<1>10. CASE call_host_ok \/ return_call_host_ok \/ host_done \/ host_error
  BY <1>10, Step_host_ok, Step_end, Step_host_error, Zenon
<1>11. CASE resume \/ drop
  BY <1>11, Step_resume, Step_end
<1> QED
  BY <1>1, <1>2, <1>3, <1>4, <1>5, <1>6, <1>7, <1>8, <1>9, <1>10, <1>11, ZenonT(60) DEF Next

\* The inductive invariant holds in every reachable state.
THEOREM Invariant == Spec => []IInv
  BY InitIInv, NextIInv, PTL DEF Spec

\* Every function runs in its own instance, however it was entered or returned to:
\* CallStack::push, pop and replace restore what they change.
THEOREM RunsInOwnInstance == Spec => []OwnInstance
<1>1. IInv => OwnInstance
  BY RunningFacts DEF OwnInstance
<1> QED
  BY <1>1, Invariant, PTL

\* A suspended call can be resumed: restore_frame never panics.
THEOREM CanBeRestored == Spec => []Restorable
<1>1. IInv => Restorable
  BY WaitingFacts DEF Restorable
<1> QED
  BY <1>1, Invariant, PTL

\* The frames of a live execution lie on the value stack, callees behind callers.
THEOREM Fit == Spec => []FramesFit
<1>1. IInv => FramesFit
  <2> SUFFICES ASSUME IInv, phase \in {"running", "suspended"},
                      NEW k \in 1 .. Len(frames)
               PROVE  /\ frames[k].start + Size[frames[k].ip.func] <= len
                      /\ k > 1 => frames[k].start >= frames[k - 1].start
    BY Zenon DEF FramesFit
  <2>1. WellFormed(frames, instance, len)
    BY Zenon DEF IInv
  <2>2. k > 1 => k \in 2 .. Len(frames)
    BY SMTT(60)
  <2> QED
    BY <2>1, <2>2, Zenon DEF WellFormed
<1> QED
  BY <1>1, Invariant, PTL

-----------------------------------------------------------------------------
(* The cached memory pointer *)

\* No memory grows while a tail called host function runs.
TailHostsQuiet == \A h \in TailHosts : Grows[h] = {}

\* No instance has its default memory at another index as well.
Mem0NotAliased == \A i \in Instances : Mem0[i] \notin OtherMems[i]

\* Entering a function leaves a fresh pointer in the registers.
LEMMA EnterFresh ==
    ASSUME IInv, MemInv, phase = "running", UNCHANGED pages, NEW f, NEW start, NEW i,
           Enter(f, start, i)
    PROVE  MemInv'
  BY DEF Enter, Finish, MemInv, Mem0Fresh, update_instance, extract_mem0

\* The operators that call Wasm functions leave a fresh pointer.
LEMMA CallsFresh ==
    ASSUME IInv, MemInv, NEW f \in Funcs, NEW head,
           \/ call_internal(f, head) \/ call_imported(f, head)
           \/ return_call_internal(f) \/ return_call_imported(f)
    PROVE  MemInv'
<1>1. phase = "running" /\ UNCHANGED pages
  BY Zenon DEF call_internal, call_imported, return_call_internal, return_call_imported
<1>2. \/ Finish
      \/ \E start, i : Enter(f, start, i)
  BY Zenon DEF call_internal, call_imported, return_call_internal, return_call_imported,
         call_wasm, return_call_wasm, Unstacked
<1>3. CASE Finish
  BY <1>3, Zenon DEF Finish, MemInv, Mem0Fresh
<1> QED
  BY <1>1, <1>2, <1>3, EnterFresh, Zenon

\* Memories that grow do so out of reach of the cached pointer, or it is reloaded.
LEMMA GrowsFresh ==
    ASSUME IInv, MemInv, TailHostsQuiet, Mem0NotAliased, NEW m \in Memories,
           \/ host_grow(m) \/ embedder_grow(m)
           \/ \E default \in BOOLEAN : memory_grow(m, default)
    PROVE  MemInv'
<1>1. CASE host_grow(m)
  <2>1. host.kind # "tail"
    BY <1>1, Zenon DEF host_grow, IInv, HostInv, TailHostsQuiet
  <2> QED
    BY <1>1, <2>1, Zenon DEF host_grow, MemInv, Mem0Fresh
<1>2. CASE embedder_grow(m)
  BY <1>2, Zenon DEF embedder_grow, MemInv, Mem0Fresh
<1>3. ASSUME NEW default \in BOOLEAN, memory_grow(m, default)
      PROVE  MemInv'
  <2>1. /\ phase = "running" /\ phase' = "running" /\ pages' = [pages EXCEPT ![m] = @ + 1]
        /\ default \/ m \in OtherMems[args.inst]
        /\ args'.inst = args.inst
        /\ args'.mem0 = IF default THEN extract_mem0(pages', args.inst) ELSE args.mem0
    BY <1>3, RunningFacts, Zenon DEF memory_grow, Registers
  <2>2. args.mem0 = extract_mem0(pages, args.inst) /\ args.inst \in Instances
    BY <2>1, RunningFacts, Zenon DEF MemInv, Mem0Fresh
  <2>3. CASE default
    BY <2>1, <2>3, Zenon DEF MemInv, Mem0Fresh
  <2>4. CASE ~default
    <3>1. m # Mem0[args.inst]
      BY <2>1, <2>2, <2>4, Zenon DEF Mem0NotAliased
    <3>2. extract_mem0(pages', args.inst) = extract_mem0(pages, args.inst)
      BY <2>1, <3>1, RunningFacts, ExecutorAssumption, ZenonT(60) DEF extract_mem0
    <3> QED
      BY <2>1, <2>2, <2>4, <3>2, Zenon DEF MemInv, Mem0Fresh
  <2> QED
    BY <2>3, <2>4
<1> QED
  BY <1>1, <1>2, <1>3

\* All other steps leave a fresh pointer.
LEMMA OthersFresh ==
    ASSUME IInv, MemInv,
           \/ \E f \in Funcs : execute_root_func(f)
           \/ \E h \in Hosts : execute_root_host(h)
           \/ \E h \in Hosts, head \in Slots : call_host(h, head) \/ return_call_host(h, head)
           \/ pop_frame \/ step \/ trap \/ out_of_fuel \/ table_grow
           \/ call_host_ok \/ return_call_host_ok \/ host_done \/ host_error
           \/ resume \/ drop
    PROVE  MemInv'
<1> USE DEF MemInv, Mem0Fresh, Finish, Unstacked, OutOfFuel
<1>1. CASE \E f \in Funcs : execute_root_func(f)
  <2>1. PICK f \in Funcs : execute_root_func(f)
    BY <1>1, Zenon
  <2>2. CASE Fits(Size[f])
    <3>1. /\ phase' = "running" /\ pages' = pages
          /\ args' = [ip |-> Entry(f), sp |-> sp_or_dangling(Size[f], 0),
                      inst |-> InstanceOf[f], mem0 |-> extract_mem0(pages, InstanceOf[f])]
      BY <2>1, <2>2, ZenonT(60) DEF execute_root_func
    <3>2. args'.mem0 = extract_mem0(pages, InstanceOf[f]) /\ args'.inst = InstanceOf[f]
      BY <3>1
    <3>3. extract_mem0(pages, InstanceOf[f])' = extract_mem0(pages, InstanceOf[f])
      BY <3>1, Zenon DEF extract_mem0
    <3> QED
      BY <3>1, <3>2, <3>3, Zenon DEF extract_mem0
  <2>3. CASE ~Fits(Size[f])
    <3>1. phase' = "idle"
      BY <2>1, <2>3, Zenon DEF execute_root_func
    <3> QED
      BY <3>1, Zenon
  <2> QED
    BY <2>2, <2>3, Zenon
<1>2. CASE \E h \in Hosts : execute_root_host(h)
  BY <1>2, ZenonT(60) DEF execute_root_host, NoHost
<1>3. CASE \E h \in Hosts, head \in Slots : call_host(h, head)
  BY <1>3 DEF call_host
<1>4. CASE \E h \in Hosts, head \in Slots : return_call_host(h, head)
  BY <1>4, Zenon DEF return_call_host
<1>5. CASE pop_frame
  <2>0. phase = "running" /\ pages' = pages /\ args.mem0 = extract_mem0(pages, args.inst)
    BY <1>5, Zenon DEF pop_frame
  <2>1. CASE Rest(frames) = <<>>
    <3>1. phase' = "idle"
      BY <1>5, <2>1, Zenon DEF pop_frame
    <3> QED
      BY <3>1, Zenon
  <2>2. CASE Rest(frames) # <<>>
    <3> DEFINE top == frames[Len(frames) - 1]
               changed == frames[Len(frames)].instance
    <3>1. /\ phase' = phase
          /\ args' = [ip |-> top.ip, sp |-> sp_or_dangling(len, top.start),
                      inst |-> IF changed = NoInst THEN args.inst ELSE changed,
                      mem0 |-> IF changed = NoInst THEN args.mem0
                               ELSE extract_mem0(pages, changed)]
      BY <1>5, <2>2, Zenon DEF pop_frame
    <3>2. /\ args'.inst = IF changed = NoInst THEN args.inst ELSE changed
          /\ args'.mem0 = IF changed = NoInst THEN args.mem0 ELSE extract_mem0(pages, changed)
      BY <3>1, Zenon
    <3> HIDE DEF changed, top
    <3>3. args'.mem0 = extract_mem0(pages, args'.inst)
      BY <2>0, <3>2, Zenon
    <3>4. phase' # "host"
      BY <2>0, <3>1, ZenonT(60)
    <3> QED
      BY <2>0, <3>3, <3>4, Zenon DEF extract_mem0
  <2> QED
    BY <2>1, <2>2, Zenon
<1>6. CASE step
  <2>1. phase = "running" /\ args'.mem0 = args.mem0 /\ args'.inst = args.inst
        /\ UNCHANGED <<phase, pages>>
    BY <1>6, RunningFacts DEF step, Registers
  <2> QED
    BY <2>1, Zenon
<1>7. CASE trap \/ out_of_fuel \/ table_grow \/ host_done \/ host_error \/ drop
  BY <1>7, Zenon DEF trap, out_of_fuel, table_grow, host_done, host_error, drop
<1>8. CASE call_host_ok \/ resume
  <2>1. CASE call_host_ok
    <3>1. phase' = "running" /\ pages' = pages
      BY <2>1, Zenon DEF call_host_ok
    <3>2. args' = [ip |-> host.ip, sp |-> host.sp, inst |-> host.inst,
                   mem0 |-> extract_mem0(pages, host.inst)]
      BY <2>1, Zenon DEF call_host_ok
    <3>3. args'.mem0 = extract_mem0(pages, host.inst) /\ args'.inst = host.inst
      BY <3>2, ZenonT(60)
    <3> QED
      BY <3>1, <3>3, Zenon DEF extract_mem0
  <2>2. CASE resume
    <3>1. phase' = "running" /\ pages' = pages
      BY <2>2, Zenon DEF resume
    <3>2. PICK p, q : args' = [ip |-> p, sp |-> q, inst |-> instance,
                               mem0 |-> extract_mem0(pages, instance)]
      BY <2>2, Zenon DEF resume
    <3>3. args'.mem0 = extract_mem0(pages, instance) /\ args'.inst = instance
      BY <3>2, ZenonT(60)
    <3> QED
      BY <3>1, <3>3, Zenon DEF extract_mem0
  <2> QED
    BY <1>8, <2>1, <2>2, ZenonT(60)
<1>9. CASE return_call_host_ok
  BY <1>9 DEF return_call_host_ok, update_instance
<1> QED
  BY <1>1, <1>2, <1>3, <1>4, <1>5, <1>6, <1>7, <1>8, <1>9, Zenon

\* The cached pointer to the default memory is never stale, in programs that tail call
\* no host function that lets a memory grow and have no second name for that memory.
THEOREM FreshMem0 ==
    ASSUME TailHostsQuiet, Mem0NotAliased
    PROVE  Spec => []Mem0Fresh
<1>1. Init => MemInv
  BY DEF Init, MemInv, Mem0Fresh
<1>2. IInv /\ MemInv /\ [Next]_vars => MemInv'
  <2> SUFFICES ASSUME IInv, MemInv, [Next]_vars PROVE MemInv'
    OBVIOUS
  <2>1. CASE UNCHANGED vars
    BY <2>1, ZenonT(60) DEF vars, MemInv, Mem0Fresh, extract_mem0
  <2>2. CASE Next
    BY <2>2, CallsFresh, GrowsFresh, OthersFresh, Zenon DEF Next
  <2> QED
    BY <2>1, <2>2
<1>3. MemInv => Mem0Fresh
  BY Zenon DEF MemInv
<1> QED
  BY <1>1, <1>2, <1>3, Invariant, PTL DEF Spec

-----------------------------------------------------------------------------
(* The stack pointer *)

\* Tail called host functions have parameters or results.
TailHostsHaveCells == \A h \in TailHosts : HostCells(h) # 0

\* Entering a function on the top frame sets the stack pointer to it.
LEMMA EnterSp ==
    ASSUME SpInv, NEW f, NEW start, NEW i, Enter(f, start, i), top_start(frames') = start
    PROVE  SpInv'
<1>1. CASE Size[f] = 0 \/ Fits(start + Size[f])
  <2>1. CASE phase' = "idle"
    BY <2>1, Zenon DEF SpInv, SpOfTop
  <2>2. CASE phase' # "idle"
    <3>1. phase' = "running"
      BY <2>2, Zenon DEF Enter, Finish
    <3>2. PICK m : args' = [ip |-> Entry(f), sp |-> IF Size[f] = 0 THEN DANGLING ELSE start,
                            inst |-> i, mem0 |-> m]
      BY <2>2, ZenonT(60) DEF Enter, Finish
    <3>3. args'.ip.func = f
      BY <3>2 DEF Entry
    <3>4. Size[f] # 0 => args'.sp = start
      BY <3>2, ZenonT(60)
    <3> QED
      BY <3>1, <3>3, <3>4, Zenon DEF SpInv, SpOfTop
  <2> QED
    BY <2>1, <2>2, Zenon
<1>2. CASE ~(Size[f] = 0 \/ Fits(start + Size[f]))
  <2>1. phase' = "idle"
    BY <1>2, Zenon DEF Enter, Finish
  <2> QED
    BY <2>1 DEF SpInv, SpOfTop
<1> QED
  BY <1>1, <1>2

\* The operators that call Wasm functions set the stack pointer.
LEMMA CallsSp ==
    ASSUME IInv, SpInv, NEW f \in Funcs, NEW head \in Nat,
           \/ call_internal(f, head) \/ call_imported(f, head)
           \/ return_call_internal(f) \/ return_call_imported(f)
    PROVE  SpInv'
<1>1. CASE call_internal(f, head) \/ call_imported(f, head)
  <2>1. PICK inst : /\ inst \in Instances \cup {NoInst} /\ call_wasm(f, head, inst)
    BY <1>1, ExecutorAssumption, ZenonT(30) DEF call_internal, call_imported
  <2>2. phase = "running"
    BY <1>1, ZenonT(60) DEF call_internal, call_imported
  <2>3. CASE Len(frames) = MaxDepth
    BY <2>1, <2>3, Zenon DEF call_wasm, Unstacked, Finish, SpInv, SpOfTop
  <2>4. CASE Len(frames) # MaxDepth
    <3> DEFINE fs == sync_ip(frames, After(args.ip))
               x == [ip |-> Entry(f), start |-> top_start(frames) + head,
                     instance |-> IF inst \in {NoInst, instance} THEN NoInst ELSE instance]
    <3>1. fs \in Seq(Frames) /\ top_start(fs) = top_start(frames)
      BY <2>2, RunningFacts, SyncFacts, ZenonT(60)
    <3>2. frames' = Append(fs, x)
      BY <2>1, <2>4, <3>1, Zenon DEF call_wasm, push
    <3>3. x \in Frames
      <4>1. Entry(f) \in Places
        BY PlaceFacts
      <4>2. top_start(frames) \in Nat /\ instance \in Instances
        BY <2>2, RunningFacts, Zenon
      <4>3. top_start(frames) + head \in Nat
        BY <4>2, SMTT(60)
      <4> QED
        BY <4>1, <4>2, <4>3, Zenon DEF Frames
    <3> HIDE DEF fs
    <3>4. top_start(frames') = top_start(frames) + head
      BY <3>1, <3>2, <3>3, PushFacts, Zenon
    <3> QED
      BY <2>1, <2>4, <3>4, EnterSp, Zenon DEF call_wasm
  <2> QED
    BY <2>3, <2>4, Zenon
<1>2. CASE return_call_internal(f) \/ return_call_imported(f)
  <2>1. PICK inst : /\ inst = NoInst \/ inst = InstanceOf[f]
                    /\ return_call_wasm(f, inst)
    BY <1>2, Zenon DEF return_call_internal, return_call_imported
  <2>2. phase = "running"
    BY <1>2, ZenonT(60) DEF return_call_internal, return_call_imported
  <2>3. PICK x \in Frames : /\ x.start = top_start(frames)
                            /\ replace(f, inst) = [frames EXCEPT ![Len(frames)] = x]
    BY <2>1, <2>2, ReplaceFacts, SMTT(60)
  <2>4. top_start(frames') = top_start(frames)
    <3>1. frames \in Seq(Frames) /\ frames # <<>>
      BY <2>2, RunningFacts, Zenon
    <3>2. frames' = [frames EXCEPT ![Len(frames)] = x]
      BY <2>1, <2>3, Zenon DEF return_call_wasm
    <3>3. Len(frames') = Len(frames) /\ frames' # <<>> /\ frames'[Len(frames)] = x
      BY <3>1, <3>2, ReplacedFacts, Zenon
    <3> QED
      BY <2>3, <3>3, Zenon DEF top_start
  <2> QED
    BY <2>1, <2>4, EnterSp, Zenon DEF return_call_wasm
<1> QED
  BY <1>1, <1>2

\* A function with cells makes the value stack non-empty.
LEMMA CellsAvailable ==
    ASSUME NEW fs, NEW i, NEW n \in Nat, WellFormed(fs, i, n), fs # <<>>,
           Size[fs[Len(fs)].ip.func] # 0
    PROVE  sp_or_dangling(n, fs[Len(fs)].start) = top_start(fs)
<1>1. fs[Len(fs)] \in Frames /\ fs[Len(fs)].start + Size[fs[Len(fs)].ip.func] <= n
  BY SMTT(60) DEF WellFormed
<1>2. n # 0
  BY <1>1, FrameFacts, SMTT(60)
<1> QED
  BY <1>2, ZenonT(60) DEF sp_or_dangling, top_start

\* Returning to a frame, by whatever way, sets the stack pointer to it.
LEMMA ReturnsSp ==
    ASSUME IInv, SpInv, pop_frame \/ resume \/ call_host_ok \/ return_call_host_ok
    PROVE  SpInv'
<1>1. CASE pop_frame
  <2>1. /\ phase = "running" /\ frames' = Rest(frames) /\ UNCHANGED len
    BY <1>1, Zenon DEF pop_frame
  <2>2. CASE Rest(frames) = <<>>
    BY <1>1, <2>2, Zenon DEF pop_frame, Finish, SpInv, SpOfTop
  <2>3. CASE Rest(frames) # <<>>
    <3> DEFINE top == frames[Len(frames) - 1]
    <3> DEFINE changed == frames[Len(frames)].instance
    <3>a. /\ args' = [ip   |-> top.ip,
                      sp   |-> sp_or_dangling(len, top.start),
                      inst |-> IF changed = NoInst THEN args.inst ELSE changed,
                      mem0 |-> IF changed = NoInst THEN args.mem0
                                                   ELSE extract_mem0(pages, changed)]
          /\ UNCHANGED <<phase, host>>
      BY <1>1, <2>3, Zenon DEF pop_frame
    <3> HIDE DEF top, changed
    <3>1. /\ args'.ip = top.ip /\ args'.sp = sp_or_dangling(len, top.start)
          /\ UNCHANGED <<phase, host>>
      BY <3>a, Zenon
    <3> USE DEF top
    <3>2. frames'[Len(frames')] = top /\ WellFormed(frames', popped_instance, len)
          /\ frames' # <<>> /\ len \in Nat
      BY <2>1, <2>3, PopFacts, RunningFacts, Zenon
    <3>3. Size[args'.ip.func] # 0 => args'.sp = top_start(frames')
      BY <3>1, <3>2, CellsAvailable, Zenon
    <3> QED
      BY <2>1, <3>1, <3>3, Zenon DEF SpInv, SpOfTop
  <2> QED
    BY <2>2, <2>3, Zenon
<1>2. CASE resume
  <2>1. /\ phase = "suspended" /\ phase' = "running" /\ UNCHANGED frames
        /\ args'.ip = frames[Len(frames)].ip
        /\ args'.sp = sp_or_dangling(len, frames[Len(frames)].start)
    BY <1>2, ZenonT(60) DEF resume, stackVars
  <2>2. Size[args'.ip.func] # 0 => args'.sp = top_start(frames')
    <3>1. /\ WellFormed(frames, instance, len) /\ frames # <<>> /\ len \in 0 .. MaxHeight
      BY <2>1, WaitingFacts, Zenon
    <3>2. len \in Nat
      BY <3>1
    <3> QED
      BY <2>1, <3>1, <3>2, CellsAvailable, Zenon
  <2> QED
    BY <2>1, <2>2, Zenon DEF SpInv, SpOfTop
<1>3. CASE call_host_ok \/ return_call_host_ok
  <2>1. /\ phase = "host" /\ host.kind \in {"call", "tail"}
        /\ phase' = "running" /\ frames' = frames
        /\ args'.ip = host.ip /\ args'.sp = host.sp
    <3>1. /\ phase = "host" /\ host.kind \in {"call", "tail"}
          /\ phase' = "running" /\ frames' = frames
          /\ \E m : args' = [ip |-> host.ip, sp |-> host.sp, inst |-> host.inst, mem0 |-> m]
      BY <1>3, Zenon DEF call_host_ok, return_call_host_ok, stackVars
    <3> QED
      BY <3>1
  <2>2. top_start(frames') = top_start(frames)
    BY <2>1, Zenon
  <2> QED
    BY <2>1, <2>2, ZenonT(60) DEF SpInv, SpOfTop
<1> QED
  BY <1>1, <1>2, <1>3, Zenon

\* The host functions called get the stack pointer of the frame they return to.
LEMMA HostsSp ==
    ASSUME IInv, SpInv, TailHostsHaveCells, NEW h \in Hosts, NEW head \in Nat,
           call_host(h, head) \/ return_call_host(h, head)
    PROVE  SpInv'
<1>1. CASE call_host(h, head)
  <2>1. top_start(frames') = top_start(frames)
    BY <1>1, RunningFacts, SyncFacts, Zenon DEF call_host
  <2>2. \/ phase' = "host" /\ host'.sp = top_start(frames)
        \/ phase' = "idle"
    <3>1. CASE Fits(top_start(frames) + head + HostCells(h))
      <4>1. /\ phase' = "host"
            /\ host' = [func |-> h, kind |-> "call", head |-> head,
                        base |-> top_start(frames) + head, ip |-> After(args.ip),
                        sp |-> top_start(frames), inst |-> args.inst]
        BY <1>1, <3>1, Zenon DEF call_host
      <4> QED
        BY <4>1
    <3>2. CASE ~Fits(top_start(frames) + head + HostCells(h))
      BY <1>1, <3>2, ZenonT(60) DEF call_host, Finish
    <3> QED
      BY <3>1, <3>2, ZenonT(60)
  <2> QED
    BY <2>1, <2>2, Zenon DEF SpInv, SpOfTop
<1>2. CASE return_call_host(h, head)
  <2>1. \/ phase' = "host" /\ host'.sp = return_host_sp(h)
        \/ phase' = "idle"
    <3>1. CASE HostCells(h) = 0 \/ Fits(top_start(frames) + HostCells(h))
      <4>1. /\ phase' = "host"
            /\ host' = [func |-> h, kind |-> IF Rest(frames) = <<>> THEN "tail_root" ELSE "tail",
                        head |-> head, base |-> top_start(frames),
                        ip   |-> IF Rest(frames) = <<>> THEN NoIp
                                 ELSE Rest(frames)[Len(Rest(frames))].ip,
                        sp   |-> return_host_sp(h),
                        inst |-> IF frames[Len(frames)].instance = NoInst THEN args.inst
                                 ELSE frames[Len(frames)].instance]
        BY <1>2, <3>1, Zenon DEF return_call_host
      <4> QED
        BY <4>1, ZenonT(60)
    <3>2. CASE ~(HostCells(h) = 0 \/ Fits(top_start(frames) + HostCells(h)))
      BY <1>2, <3>2, Zenon DEF return_call_host, Finish
    <3> QED
      BY <3>1, <3>2, ZenonT(60)
  <2>2. return_host_sp(h) = top_start(frames')
    BY <1>2, Zenon DEF return_call_host, return_host_sp, TailHostsHaveCells
  <2> QED
    BY <2>1, <2>2, Zenon DEF SpInv, SpOfTop
<1> QED
  BY <1>1, <1>2

\* A function with cells always finds them, in programs that tail call no host function
\* without parameters and results.
THEOREM SpIsTop ==
    ASSUME TailHostsHaveCells
    PROVE  Spec => []SpOfTop
<1>1. Init => SpInv
  BY ZenonT(60) DEF Init, SpInv, SpOfTop
<1>2. IInv /\ SpInv /\ [Next]_vars => SpInv'
  <2> SUFFICES ASSUME IInv, SpInv, [Next]_vars PROVE SpInv'
    BY Zenon
  <2>1. CASE UNCHANGED vars
    BY <2>1, Zenon DEF vars, SpInv, SpOfTop, top_start
  <2>2. CASE \E f \in Funcs : execute_root_func(f)
    <3>1. PICK f \in Funcs : execute_root_func(f)
      BY <2>2, ZenonT(60)
    <3>2. CASE Fits(Size[f])
      <4>1. /\ phase' = "running"
            /\ frames' = <<[ip |-> Entry(f), start |-> 0, instance |-> NoInst]>>
            /\ args' = [ip |-> Entry(f), sp |-> sp_or_dangling(Size[f], 0),
                        inst |-> InstanceOf[f], mem0 |-> extract_mem0(pages, InstanceOf[f])]
        BY <3>1, <3>2, Zenon DEF execute_root_func
      <4>2. args'.ip.func = f /\ args'.sp = sp_or_dangling(Size[f], 0)
        BY <4>1, ZenonT(60) DEF Entry
      <4>3. top_start(frames') = 0
        BY <4>1 DEF top_start
      <4> QED
        BY <4>1, <4>2, <4>3, Zenon DEF SpInv, SpOfTop, sp_or_dangling, top_start
    <3>3. CASE ~Fits(Size[f])
      <4>1. phase' = "idle"
        BY <3>1, <3>3, ZenonT(60) DEF execute_root_func, Finish
      <4> QED
        BY <4>1, Zenon DEF SpInv, SpOfTop
    <3> QED
      BY <3>2, <3>3, Zenon
  <2>3. CASE step \/ \E m \in Memories, default \in BOOLEAN : memory_grow(m, default)
    <3>1. /\ phase = "running" /\ args'.sp = args.sp /\ args'.ip.func = args.ip.func
          /\ UNCHANGED <<phase, frames>>
      BY <2>3, RunningFacts, ZenonT(60) DEF step, memory_grow, stackVars, Registers, Ips
    <3> QED
      BY <3>1 DEF SpInv, SpOfTop
  <2>4. CASE \E m \in Memories : host_grow(m) \/ embedder_grow(m)
    BY <2>4, Zenon DEF host_grow, embedder_grow, stackVars, SpInv, SpOfTop, top_start
  <2>5. CASE \/ trap \/ out_of_fuel \/ table_grow \/ host_done \/ host_error \/ drop
             \/ \E h \in Hosts : execute_root_host(h)
    BY <2>5, Zenon DEF trap, out_of_fuel, table_grow, host_done, host_error, drop, NoHost,
       execute_root_host, Unstacked, Finish, OutOfFuel, SpInv, SpOfTop
  <2>6. CASE pop_frame \/ resume \/ call_host_ok \/ return_call_host_ok
    BY <2>6, ReturnsSp, Zenon
  <2>7. CASE \E h \in Hosts, head \in Slots : call_host(h, head) \/ return_call_host(h, head)
    BY <2>7, HostsSp, SMTT(60) DEF Slots
  <2>8. CASE \/ \E f \in Funcs : return_call_internal(f) \/ return_call_imported(f)
             \/ \E f \in Funcs, head \in Slots : call_internal(f, head) \/ call_imported(f, head)
    <3>1. 0 \in Nat /\ \A head \in Slots : head \in Nat
      BY SMTT(60) DEF Slots
    <3> QED
      BY <2>8, <3>1, CallsSp, Zenon
  <2> QED
    BY <2>1, <2>2, <2>3, <2>4, <2>5, <2>6, <2>7, <2>8, Zenon DEF Next
<1>3. SpInv => SpOfTop
  BY DEF SpInv
<1> QED
  BY <1>1, <1>2, <1>3, Invariant, PTL DEF Spec

-----------------------------------------------------------------------------
(* The results of resumed calls *)

\* No tail called host function returns an error.
TailHostsInfallible == TailHosts \cap Fallible = {}

\* A resumed call puts the results of the failed host function where the host function
\* would have put them, in programs that tail call no fallible host function.
THEOREM ResumesWithResults ==
    ASSUME TailHostsInfallible
    PROVE  Spec => []ResumeSlots
<1>1. Init => SlotInv
  BY Zenon DEF Init, SlotInv
<1>2. IInv /\ SlotInv /\ [Next]_vars => SlotInv'
  <2> SUFFICES ASSUME IInv, SlotInv, [Next]_vars PROVE SlotInv'
    BY Zenon
  <2>1. CASE UNCHANGED <<frames, phase, host>>
    BY <2>1 DEF SlotInv, top_start
  <2>2. CASE phase' \in {"idle", "running"}
    BY <2>2, ZenonT(60) DEF SlotInv
  <2>3. CASE \E h \in Hosts, head \in Slots : call_host(h, head)
    <3>1. PICK h \in Hosts, head \in Slots : call_host(h, head)
      BY <2>3
    <3>2. top_start(frames') = top_start(frames)
      BY <3>1, RunningFacts, SyncFacts, ZenonT(60) DEF call_host
    <3>3. \/ phase' = "idle"
          \/ phase' = "host" /\ host'.head = head /\ host'.base = top_start(frames) + head
      BY <3>1, SMTT(60) DEF call_host, Finish
    <3> QED
      BY <3>2, <3>3, Zenon DEF SlotInv
  <2>4. CASE \/ \E h \in Hosts, head \in Slots : return_call_host(h, head)
             \/ \E h \in Hosts : execute_root_host(h)
    <3>1. \/ phase' = "idle"
          \/ phase' = "host" /\ host'.kind \in {"root", "tail", "tail_root"}
      <4>1. CASE \E h \in Hosts : execute_root_host(h)
        BY <4>1, Zenon DEF execute_root_host, Finish, NoHost
      <4>2. CASE \E h \in Hosts, head \in Slots : return_call_host(h, head)
        <5>1. PICK h \in Hosts, head \in Slots : return_call_host(h, head)
          BY <4>2
        <5>2. \/ phase' = "idle"
              \/ /\ phase' = "host"
                 /\ host'.kind = IF Rest(frames) = <<>> THEN "tail_root" ELSE "tail"
          <6>1. CASE HostCells(h) = 0 \/ Fits(top_start(frames) + HostCells(h))
            <7>1. /\ phase' = "host"
                  /\ host' = [func |-> h,
                              kind |-> IF Rest(frames) = <<>> THEN "tail_root" ELSE "tail",
                              head |-> head, base |-> top_start(frames),
                              ip   |-> IF Rest(frames) = <<>> THEN NoIp
                                       ELSE Rest(frames)[Len(Rest(frames))].ip,
                              sp   |-> return_host_sp(h),
                              inst |-> IF frames[Len(frames)].instance = NoInst
                                       THEN args.inst ELSE frames[Len(frames)].instance]
              BY <5>1, <6>1, Zenon DEF return_call_host
            <7> QED
              BY <7>1, Zenon
          <6>2. CASE ~(HostCells(h) = 0 \/ Fits(top_start(frames) + HostCells(h)))
            BY <5>1, <6>2, Zenon DEF return_call_host, Finish
          <6> QED
            BY <6>1, <6>2, Zenon
        <5> QED
          BY <5>2, Zenon
      <4> QED
        BY <2>4, <4>1, <4>2, Zenon
    <3> QED
      BY <3>1, Zenon DEF SlotInv
  <2>5. CASE out_of_fuel \/ table_grow
    BY <2>5, Zenon DEF out_of_fuel, table_grow, OutOfFuel, NoHost, SlotInv
  <2>6. CASE host_error
    BY <2>6, Zenon DEF host_error, NoHost, SlotInv, stackVars, top_start, IInv, HostInv
  <2>7. CASE step \/ \E m \in Memories : \/ host_grow(m) \/ embedder_grow(m)
                                         \/ \E default \in BOOLEAN : memory_grow(m, default)
    BY <2>1, <2>7, Zenon DEF step, host_grow, embedder_grow, memory_grow, stackVars
  <2>8. CASE \/ call_host_ok \/ return_call_host_ok \/ host_done \/ trap \/ resume \/ drop
             \/ pop_frame
    BY <2>2, <2>8, Zenon DEF call_host_ok, return_call_host_ok, host_done, trap, resume, drop,
       pop_frame, Unstacked, Finish
  <2>9. CASE \/ \E f \in Funcs : \/ execute_root_func(f) \/ return_call_internal(f)
                                \/ return_call_imported(f)
             \/ \E f \in Funcs, head \in Slots : call_internal(f, head) \/ call_imported(f, head)
    <3>1. \A f, start, i : Enter(f, start, i) => phase' \in {"idle", "running"}
      BY Zenon DEF Enter, Finish
    <3> QED
      BY <2>2, <2>9, <3>1, ZenonT(60) DEF execute_root_func, return_call_internal, return_call_imported,
         call_internal, call_imported, call_wasm, return_call_wasm, Unstacked, Finish
  <2>10. CASE UNCHANGED vars
    BY <2>1, <2>10, Zenon DEF vars
  <2> QED
    BY <2>3, <2>4, <2>5, <2>6, <2>7, <2>8, <2>9, <2>10, ZenonT(60) DEF Next
<1>3. SlotInv => ResumeSlots
  BY ZenonT(60) DEF SlotInv, ResumeSlots, TailHostsInfallible
<1> QED
  BY <1>1, <1>2, <1>3, Invariant, PTL DEF Spec

Acts == [ip : Places, base : Nat]

\* The projection of a frame.
Act(x) == [ip |-> x.ip, base |-> x.start]

\* A frame projects to an activation.
LEMMA ActFacts ==
    ASSUME NEW x \in Frames
    PROVE  Act(x) \in Acts /\ Act(x).ip = x.ip /\ Act(x).base = x.start
  BY FrameFacts DEF Act, Acts

\* Sequences of the same elements are the same.
LEMMA SameSequence ==
    ASSUME NEW S, NEW s \in Seq(S), NEW t \in Seq(S), Len(s) = Len(t),
           \A k \in 1 .. Len(s) : s[k] = t[k]
    PROVE  s = t
<1>1. DOMAIN s = 1 .. Len(s) /\ DOMAIN t = 1 .. Len(s)
  BY SMTT(60)
<1>2. s = [k \in 1 .. Len(s) |-> s[k]] /\ t = [k \in 1 .. Len(s) |-> t[k]]
  BY <1>1, SMTT(60)
<1> QED
  BY <1>2, Zenon

\* What Append makes of a sequence.
LEMMA AppendFacts ==
    ASSUME NEW S, NEW s \in Seq(S), NEW x \in S
    PROVE  /\ Append(s, x) \in Seq(S) /\ Len(Append(s, x)) = Len(s) + 1
           /\ \A k \in 1 .. Len(s) : Append(s, x)[k] = s[k]
           /\ Append(s, x)[Len(s) + 1] = x
  BY SMTT(60)

\* Two sequences that differ in their last element.
LEMMA LastReplaced ==
    ASSUME NEW S, NEW s \in Seq(S), NEW t \in Seq(S), s # <<>>, Len(t) = Len(s),
           \A k \in 1 .. Len(s) : k # Len(s) => t[k] = s[k]
    PROVE  t = [s EXCEPT ![Len(s)] = t[Len(s)]]
<1> DEFINE n == Len(s)
           y == t[n]
           r == [s EXCEPT ![n] = y]
<1>1. n \in Nat \ {0} /\ DOMAIN s = 1 .. n /\ y \in S
  BY SMTT(60)
<1> HIDE DEF n, y
<1>2. r \in Seq(S) /\ Len(r) = n /\ \A k \in 1 .. n : r[k] = IF k = n THEN y ELSE s[k]
  BY <1>1, SMTT(60)
<1>3. Len(t) = n /\ \A k \in 1 .. n : t[k] = IF k = n THEN y ELSE s[k]
  BY <1>1, Zenon DEF n, y
<1> HIDE DEF r
<1>4. Len(t) = Len(r) /\ \A k \in 1 .. Len(t) : t[k] = r[k]
  BY <1>2, <1>3, Zenon
<1>5. t = r
  BY <1>2, <1>4, SameSequence, ZenonT(60)
<1> QED
  BY <1>5, Zenon DEF r, n, y

\* A call stack is projected frame by frame.
LEMMA ProjectFacts ==
    ASSUME NEW fs \in Seq(Frames)
    PROVE  /\ Project(fs) \in Seq(Acts) /\ Len(Project(fs)) = Len(fs)
           /\ \A k \in 1 .. Len(fs) : Project(fs)[k] = Act(fs[k])
           /\ Project(fs) = <<>> <=> fs = <<>>
<1>1. Project(fs) = [k \in 1 .. Len(fs) |-> Act(fs[k])]
  BY Zenon DEF Project, Act
<1>2. \A k \in 1 .. Len(fs) : fs[k] \in Frames
  BY SMTT(60)
<1>3. \A k \in 1 .. Len(fs) : Act(fs[k]) \in Acts
  BY <1>2, ActFacts, Zenon
<1> QED
  BY <1>1, <1>3, SMTT(60)

\* Projecting a stack with another place in its top frame moves the top activation.
LEMMA ProjectSync ==
    ASSUME NEW fs \in Seq(Frames), fs # <<>>, NEW ip \in Places, NEW ip2 \in Places,
           ip2.func = ip.func
    PROVE  LET s == Project(sync_ip(fs, ip))
           IN  Project(sync_ip(fs, ip2)) = [s EXCEPT ![Len(s)].ip.pos = ip2.pos]
<1> DEFINE n == Len(fs)
           s == Project(sync_ip(fs, ip))
           t == Project(sync_ip(fs, ip2))
           x == Act(sync_ip(fs, ip)[n])
           y == Act(sync_ip(fs, ip2)[n])
<1>1. n \in Nat \ {0}
  BY SMTT(60)
<1>2. /\ s \in Seq(Acts) /\ Len(s) = n /\ s[n] = x /\ x \in Acts
      /\ t \in Seq(Acts) /\ Len(t) = n /\ t[n] = y /\ y \in Acts
      /\ x.ip = ip /\ y.ip = ip2 /\ x.base = y.base
  <2>1. /\ sync_ip(fs, ip) \in Seq(Frames) /\ Len(sync_ip(fs, ip)) = n
        /\ sync_ip(fs, ip2) \in Seq(Frames) /\ Len(sync_ip(fs, ip2)) = n
        /\ sync_ip(fs, ip)[n].ip = ip /\ sync_ip(fs, ip2)[n].ip = ip2
        /\ sync_ip(fs, ip)[n].start = fs[n].start /\ sync_ip(fs, ip2)[n].start = fs[n].start
    <3>1. n \in 1 .. n
      BY <1>1
    <3> QED
      BY <3>1, SyncFacts, ZenonT(60)
  <2>2. sync_ip(fs, ip)[n] \in Frames /\ sync_ip(fs, ip2)[n] \in Frames
    BY <1>1, <2>1
  <2> QED
    <3>1. n \in 1 .. n
      BY <1>1
    <3> QED
      BY <2>1, <2>2, <3>1, ProjectFacts, ActFacts, Zenon
<1>3. \A k \in 1 .. n : k # n => s[k] = t[k]
  <2> SUFFICES ASSUME NEW k \in 1 .. n, k # n PROVE s[k] = t[k]
    BY Zenon
  <2>1. /\ sync_ip(fs, ip) \in Seq(Frames) /\ Len(sync_ip(fs, ip)) = n
        /\ sync_ip(fs, ip2) \in Seq(Frames) /\ Len(sync_ip(fs, ip2)) = n
        /\ sync_ip(fs, ip)[k].ip = fs[k].ip /\ sync_ip(fs, ip2)[k].ip = fs[k].ip
        /\ sync_ip(fs, ip)[k].start = fs[k].start /\ sync_ip(fs, ip2)[k].start = fs[k].start
    BY SyncFacts, ZenonT(60)
  <2>2. s[k] = Act(sync_ip(fs, ip)[k]) /\ t[k] = Act(sync_ip(fs, ip2)[k])
    BY <2>1, ProjectFacts
  <2> QED
    BY <2>1, <2>2, Zenon DEF Act
<1> HIDE DEF s, t, x, y
<1>4. y = [x EXCEPT !.ip.pos = ip2.pos]
  BY <1>2, SMTT(60) DEF Acts, Places
<1>5. DOMAIN s = 1 .. n /\ DOMAIN t = 1 .. n
  BY <1>2
<1>6. t = [s EXCEPT ![n] = y]
  <2>1. s # <<>> /\ \A k \in 1 .. Len(s) : k # Len(s) => t[k] = s[k]
    BY <1>1, <1>2, <1>3, Zenon
  <2>2. t = [s EXCEPT ![Len(s)] = t[Len(s)]]
    BY <1>2, <2>1, LastReplaced, Zenon
  <2> QED
    BY <1>2, <2>2, Zenon
<1>7. [s EXCEPT ![n] = y] = [s EXCEPT ![n].ip.pos = ip2.pos]
  BY <1>2, <1>4, <1>5
<1> QED
  BY <1>2, <1>6, <1>7, Zenon DEF s, t

\* Projecting a stack whose top frame is at ip anyway.
LEMMA ProjectSynced ==
    ASSUME NEW fs \in Seq(Frames), fs # <<>>
    PROVE  Project(sync_ip(fs, fs[Len(fs)].ip)) = Project(fs)
<1> DEFINE n == Len(fs)
           top == fs[n]
<1>1. n \in Nat \ {0} /\ DOMAIN fs = 1 .. n /\ top \in Frames
  OBVIOUS
<1> HIDE DEF top, n
<1>2. [top EXCEPT !.ip = top.ip] = top
  BY <1>1, Zenon DEF Frames
<1>3. [fs EXCEPT ![n] = top] = fs
  BY <1>1, SMTT(60) DEF top
<1>4. sync_ip(fs, top.ip) = [fs EXCEPT ![n] = [top EXCEPT !.ip = top.ip]]
  BY <1>1, Zenon DEF sync_ip, n, top
<1> QED
  BY <1>2, <1>3, <1>4, Zenon DEF n, top

\* A pushed frame becomes an activation on top.
LEMMA ProjectPush ==
    ASSUME NEW fs \in Seq(Frames), NEW x \in Frames
    PROVE  Project(Append(fs, x)) = Append(Project(fs), Act(x))
<1> DEFINE n == Len(fs)
           r == Append(fs, x)
           s == Project(fs)
           t == Append(s, Act(x))
<1>1. n \in Nat /\ Act(x) \in Acts
  BY ActFacts, SMTT(60)
<1>2. /\ r \in Seq(Frames) /\ Len(r) = n + 1
      /\ \A k \in 1 .. n : r[k] = fs[k]
      /\ r[n + 1] = x
  BY PushFacts
<1>3. /\ Project(r) \in Seq(Acts) /\ Len(Project(r)) = n + 1
      /\ \A k \in 1 .. n + 1 : Project(r)[k] = Act(r[k])
  BY <1>2, ProjectFacts, Zenon
<1>4. s \in Seq(Acts) /\ Len(s) = n /\ \A k \in 1 .. n : s[k] = Act(fs[k])
  BY ProjectFacts, Zenon
<1>5. /\ t \in Seq(Acts) /\ Len(t) = n + 1
      /\ \A k \in 1 .. n : t[k] = s[k]
      /\ t[n + 1] = Act(x)
  <2>1. /\ Append(s, Act(x)) \in Seq(Acts) /\ Len(Append(s, Act(x))) = Len(s) + 1
        /\ \A k \in 1 .. Len(s) : Append(s, Act(x))[k] = s[k]
        /\ Append(s, Act(x))[Len(s) + 1] = Act(x)
    <3> HIDE DEF s
    <3> QED
      BY <1>1, <1>4, AppendFacts, Zenon
  <2> QED
    BY <1>4, <2>1, Zenon
<1> HIDE DEF n, r, s, t
<1>6. \A k \in 1 .. n + 1 : Project(r)[k] = t[k]
  <2> SUFFICES ASSUME NEW k \in 1 .. n + 1 PROVE Project(r)[k] = t[k]
    OBVIOUS
  <2>1. k \in 1 .. n \/ k = n + 1
    BY <1>1
  <2> QED
    BY <1>2, <1>3, <1>4, <1>5, <2>1, ZenonT(60)
<1>7. Project(r) = t
  BY <1>1, <1>3, <1>5, <1>6, SameSequence, Zenon
<1> QED
  BY <1>7, Zenon DEF r, s, t

\* A popped frame takes the top activation with it.
LEMMA ProjectRest ==
    ASSUME NEW fs \in Seq(Frames), fs # <<>>
    PROVE  Project(Rest(fs)) = SubSeq(Project(fs), 1, Len(Project(fs)) - 1)
<1> DEFINE n == Len(fs)
           r == Rest(fs)
           s == Project(fs)
           t == SubSeq(s, 1, Len(s) - 1)
<1>1. n \in Nat \ {0}
  BY SMTT(60)
<1>2. r \in Seq(Frames) /\ Len(r) = n - 1 /\ \A k \in 1 .. n - 1 : r[k] = fs[k]
  BY RestFacts, Zenon
<1>3. /\ Project(r) \in Seq(Acts) /\ Len(Project(r)) = n - 1
      /\ \A k \in 1 .. n - 1 : Project(r)[k] = Act(r[k])
  BY <1>2, ProjectFacts, Zenon
<1>4. s \in Seq(Acts) /\ Len(s) = n /\ \A k \in 1 .. n : s[k] = Act(fs[k])
  BY ProjectFacts, Zenon
<1>5. t \in Seq(Acts) /\ Len(t) = n - 1 /\ \A k \in 1 .. n - 1 : t[k] = s[k]
  <2> HIDE DEF s, n
  <2> QED
    BY <1>1, <1>4, SMTT(60)
<1> HIDE DEF n, r, s, t
<1>6. \A k \in 1 .. n - 1 : Project(r)[k] = t[k]
  <2> SUFFICES ASSUME NEW k \in 1 .. n - 1 PROVE Project(r)[k] = t[k]
    OBVIOUS
  <2>1. k \in 1 .. n
    BY <1>1
  <2> QED
    BY <1>2, <1>3, <1>4, <1>5, <2>1, ZenonT(60)
<1>7. Project(r) = t
  BY <1>1, <1>3, <1>5, <1>6, SameSequence, ZenonT(60)
<1> QED
  BY <1>7, Zenon DEF r, s, t

\* What is below the top frame does not depend on the place in it.
LEMMA RestSync ==
    ASSUME NEW fs \in Seq(Frames), fs # <<>>, NEW ip \in Places
    PROVE  Project(Rest(sync_ip(fs, ip))) = Project(Rest(fs))
<1> DEFINE n == Len(fs)
           s == sync_ip(fs, ip)
           p == Project(Rest(s))
           q == Project(Rest(fs))
<1>1. n \in Nat \ {0}
  BY SMTT(60)
<1>2. /\ s \in Seq(Frames) /\ Len(s) = n /\ s # <<>>
      /\ \A k \in 1 .. n - 1 : s[k].ip = fs[k].ip /\ s[k].start = fs[k].start
  <2>1. \A k \in 1 .. n - 1 : k \in 1 .. n /\ k # n
    BY <1>1
  <2> QED
    BY <2>1, SyncFacts, ZenonT(60)
<1>3. /\ Rest(s) \in Seq(Frames) /\ Len(Rest(s)) = n - 1
      /\ \A k \in 1 .. n - 1 : Rest(s)[k] = s[k]
      /\ Rest(fs) \in Seq(Frames) /\ Len(Rest(fs)) = n - 1
      /\ \A k \in 1 .. n - 1 : Rest(fs)[k] = fs[k]
  <2>1. /\ Rest(fs) \in Seq(Frames) /\ Len(Rest(fs)) = n - 1
        /\ \A k \in 1 .. n - 1 : Rest(fs)[k] = fs[k]
    BY RestFacts, Zenon
  <2>2. /\ Rest(s) \in Seq(Frames) /\ Len(Rest(s)) = Len(s) - 1
        /\ \A k \in 1 .. Len(Rest(s)) : Rest(s)[k] = s[k]
    <3> HIDE DEF s
    <3> QED
      BY <1>2, RestFacts, ZenonT(60)
  <2> QED
    BY <1>2, <2>1, <2>2, Zenon
<1>4. /\ p \in Seq(Acts) /\ Len(p) = n - 1 /\ \A k \in 1 .. n - 1 : p[k] = Act(Rest(s)[k])
      /\ q \in Seq(Acts) /\ Len(q) = n - 1 /\ \A k \in 1 .. n - 1 : q[k] = Act(Rest(fs)[k])
  BY <1>3, ProjectFacts
<1> HIDE DEF n, s, p, q
<1>5. \A k \in 1 .. n - 1 : Act(Rest(s)[k]) = Act(Rest(fs)[k])
  BY <1>2, <1>3, Zenon DEF Act
<1>6. p = q
  BY <1>1, <1>4, <1>5, SameSequence, Zenon
<1> QED
  BY <1>6, Zenon DEF p, q, s

\* To replace the top frame is to pop it and to push another one.
LEMMA ReplacedIsPushed ==
    ASSUME NEW fs \in Seq(Frames), fs # <<>>, NEW x \in Frames
    PROVE  [fs EXCEPT ![Len(fs)] = x] = Append(Rest(fs), x)
<1> DEFINE n == Len(fs)
           r == [fs EXCEPT ![Len(fs)] = x]
           s == Append(Rest(fs), x)
<1>1. n \in Nat \ {0}
  BY SMTT(60)
<1>2. /\ r \in Seq(Frames) /\ Len(r) = n
      /\ \A k \in 1 .. n : r[k] = IF k = n THEN x ELSE fs[k]
  BY ReplacedFacts, Zenon
<1>3. /\ Rest(fs) \in Seq(Frames) /\ Len(Rest(fs)) = n - 1
      /\ \A k \in 1 .. n - 1 : Rest(fs)[k] = fs[k]
  BY RestFacts, ZenonT(60)
<1>4. /\ s \in Seq(Frames) /\ Len(s) = n
      /\ \A k \in 1 .. n - 1 : s[k] = fs[k]
      /\ s[n] = x
  <2>1. /\ s \in Seq(Frames) /\ Len(s) = Len(Rest(fs)) + 1
        /\ \A k \in 1 .. Len(Rest(fs)) : s[k] = Rest(fs)[k]
        /\ s[Len(Rest(fs)) + 1] = x
    BY <1>3, PushFacts, Zenon
  <2> HIDE DEF n, s
  <2> QED
    BY <1>1, <1>3, <2>1, SMTT(60)
<1> HIDE DEF n, r, s
<1>5. \A k \in 1 .. n : r[k] = s[k]
  <2> SUFFICES ASSUME NEW k \in 1 .. n PROVE r[k] = s[k]
    OBVIOUS
  <2>1. k \in 1 .. n - 1 \/ k = n
    BY <1>1
  <2>2. k \in 1 .. n - 1 => k # n
    BY <1>1
  <2> QED
    BY <1>2, <1>4, <2>1, <2>2, ZenonT(60)
<1>6. r = s
  BY <1>2, <1>4, <1>5, SameSequence, Zenon
<1> QED
  BY <1>6, Zenon DEF r, s

-----------------------------------------------------------------------------
(* The simulation *)

\* The activations of a running execution; the top one is where the registers are.
LEMMA RunningActs ==
    ASSUME IInv, phase = "running"
    PROVE  /\ ActsOf = Project(sync_ip(frames, args.ip))
           /\ ActsOf \in Seq(Acts) /\ Len(ActsOf) = Len(frames) /\ ActsOf # <<>>
           /\ ActsOf[Len(ActsOf)] = [ip |-> args.ip, base |-> top_start(frames)]
           /\ SubSeq(ActsOf, 1, Len(ActsOf) - 1) = Project(Rest(frames))
<1> DEFINE fs == sync_ip(frames, args.ip)
<1>1. ActsOf = Project(fs)
  BY Zenon DEF ActsOf
<1>2. /\ fs \in Seq(Frames) /\ Len(fs) = Len(frames) /\ fs # <<>> /\ Len(frames) \in Nat \ {0}
      /\ fs[Len(frames)].ip = args.ip /\ fs[Len(frames)].start = top_start(frames)
  BY RunningFacts, RunningSynced, ZenonT(60)
<1>3. Project(Rest(fs)) = Project(Rest(frames))
  BY RunningFacts, RestSync
<1> HIDE DEF fs
<1>4. SubSeq(Project(fs), 1, Len(Project(fs)) - 1) = Project(Rest(frames))
  BY <1>2, <1>3, ProjectRest, Zenon
<1>5. Project(fs)[Len(frames)] = Act(fs[Len(frames)])
  <2>1. Len(frames) \in 1 .. Len(frames)
    BY <1>2
  <2> QED
    BY <1>2, <2>1, ProjectFacts, ZenonT(60)
<1> QED
  BY <1>1, <1>2, <1>4, <1>5, ProjectFacts, Zenon DEF fs, Act

\* The activations of an execution that waits for a host function or to be resumed.
LEMMA WaitingActs ==
    ASSUME phase \in {"host", "suspended"}
    PROVE  ActsOf = Project(frames)
  BY Zenon DEF ActsOf

\* The instance is the one of the top activation.
InstRefined == InstOf = A!RunsIn(ActsOf)

\* The registers hold the instance of the top activation.
LEMMA RunsInRefines ==
    ASSUME IInv
    PROVE  InstRefined
<1> USE DEF InstRefined
<1>1. CASE phase = "idle"
  BY <1>1, Zenon DEF InstOf, ActsOf, A!RunsIn
<1>2. CASE phase = "running"
  <2>1. InstOf = args.inst
    BY <1>2, RunningFacts, Zenon DEF InstOf
  <2>2. ActsOf[Len(ActsOf)].ip = args.ip /\ ActsOf # <<>>
    <3>1. ActsOf # <<>> /\ ActsOf[Len(ActsOf)] = [ip |-> args.ip, base |-> top_start(frames)]
      BY <1>2, RunningActs, Zenon
    <3> QED
      BY <3>1
  <2> QED
    BY <1>2, <2>1, <2>2, RunningFacts, Zenon DEF A!RunsIn
<1>3. CASE phase \in {"host", "suspended"}
  <2>1. frames \in Seq(Frames) /\ WellFormed(frames, instance, len)
    BY <1>3 DEF IInv, TypeOK
  <2>2. CASE frames = <<>>
    BY <1>3, <2>1, <2>2, WaitingActs, ProjectFacts, ZenonT(60) DEF InstOf, A!RunsIn
  <2>3. CASE frames # <<>>
    <3>1. InstOf = instance
      BY <1>3, <2>3, Zenon DEF InstOf
    <3>2. Len(frames) \in 1 .. Len(frames)
      BY <2>1, <2>3, SMTT(60)
    <3>3. ActsOf # <<>> /\ ActsOf[Len(ActsOf)] = Act(frames[Len(frames)])
      BY <1>3, <2>1, <2>3, <3>2, WaitingActs, ProjectFacts, Zenon
    <3>4. instance = InstanceOf[frames[Len(frames)].ip.func]
      BY <2>1, <2>3, Zenon DEF WellFormed
    <3> QED
      BY <3>1, <3>3, <3>4, SMTT(60) DEF A!RunsIn, Act
  <2> QED
    BY <2>2, <2>3, Zenon
<1> QED
  BY <1>1, <1>2, <1>3, ZenonT(60) DEF IInv, TypeOK

\* The running function goes to another place.
LEMMA Moves ==
    ASSUME IInv, phase = "running", NEW ip \in Places, ip.func = args.ip.func
    PROVE  A!Moved(Project(sync_ip(frames, ip)))
<1>1. Project(sync_ip(frames, ip)) = [ActsOf EXCEPT ![Len(ActsOf)].ip.pos = ip.pos]
  <2>1. /\ frames \in Seq(Frames) /\ frames # <<>> /\ args.ip \in Places
        /\ ActsOf = Project(sync_ip(frames, args.ip))
    BY RunningFacts, RunningActs, Zenon
  <2> QED
    BY <2>1, ProjectSync, SMTT(60)
<1>2. ip.pos \in 0 .. MaxPos
  BY DEF Places
<1> QED
  BY <1>1, <1>2, ZenonT(60) DEF A!Moved

\* The calling function goes on past its call.
LEMMA MovesPast ==
    ASSUME IInv, phase = "running"
    PROVE  Project(sync_ip(frames, After(args.ip))) = A!PastCall
<1>1. /\ After(args.ip) \in Places /\ After(args.ip).func = args.ip.func
      /\ After(args.ip).pos = (args.ip.pos + 1) % (MaxPos + 1)
  BY RunningFacts, Zenon DEF After, Places
<1>2. \A ip \in Places : ip.func = args.ip.func =>
        Project(sync_ip(frames, ip)) = [ActsOf EXCEPT ![Len(ActsOf)].ip.pos = ip.pos]
  <2>1. /\ frames \in Seq(Frames) /\ frames # <<>> /\ args.ip \in Places
        /\ ActsOf = Project(sync_ip(frames, args.ip))
    BY RunningFacts, RunningActs, Zenon
  <2> QED
    BY <2>1, ProjectSync, SMTT(60)
<1>3. ActsOf[Len(ActsOf)].ip.pos = args.ip.pos
  BY RunningActs
<1> QED
  BY <1>1, <1>2, <1>3, Zenon DEF A!PastCall

\* What the steps of the execution are in Activations, but for the instance.
Simulated ==
    \/ A!Start \/ A!Step \/ A!Return \/ A!HostCall \/ A!HostReturn \/ A!Suspend \/ A!Resume
    \/ A!End
    \/ \E f \in Funcs : A!Call(f) \/ A!TailCall(f)
    \/ UNCHANGED <<ActsOf, InstOf, phase>>

\* An execution that ends has no activations.
LEMMA Sim_end ==
    ASSUME phase' = "idle"
    PROVE  Simulated
  BY DEF Simulated, A!End, ActsOf

\* A function that is entered runs from its start.
LEMMA EntersActs ==
    ASSUME NEW f, NEW start, NEW i, Enter(f, start, i),
           frames' \in Seq(Frames), frames' # <<>>, frames'[Len(frames')].ip = Entry(f)
    PROVE  phase' = "idle" \/ (phase' = "running" /\ ActsOf' = Project(frames'))
<1>1. phase' = "idle" \/ (phase' = "running" /\ args'.ip = Entry(f))
  BY SMTT(60) DEF Enter, Finish
<1>2. Project(sync_ip(frames', Entry(f))) = Project(frames')
  BY ProjectSynced, Zenon
<1> QED
  BY <1>1, <1>2, Zenon DEF ActsOf

\* A call (call_wasm) pushes an activation.
LEMMA Sim_call ==
    ASSUME IInv, phase = "running", NEW f \in Funcs, NEW head \in Nat,
           NEW inst, call_wasm(f, head, inst)
    PROVE  Simulated
<1> DEFINE fs == sync_ip(frames, After(args.ip))
           base == top_start(frames) + head
           x == [ip |-> Entry(f), start |-> base,
                 instance |-> IF inst \in {NoInst, instance} THEN NoInst ELSE instance]
<1>1. CASE Len(frames) = MaxDepth
  BY <1>1, Sim_end, Zenon DEF call_wasm, Unstacked, Finish
<1>2. CASE Len(frames) # MaxDepth
  <2>1. /\ fs \in Seq(Frames) /\ top_start(fs) = top_start(frames) /\ top_start(frames) \in Nat
        /\ base \in Nat /\ base >= top_start(frames)
    <3>1. /\ frames \in Seq(Frames) /\ frames # <<>> /\ After(args.ip) \in Places
          /\ top_start(frames) \in Nat
      BY RunningFacts, Zenon
    <3>2. fs \in Seq(Frames) /\ top_start(fs) = top_start(frames)
      BY <3>1, SyncFacts, Zenon
    <3>3. base \in Nat /\ base >= top_start(frames)
      BY <3>1
    <3> QED
      BY <3>1, <3>2, <3>3, Zenon
  <2>2. /\ frames' = Append(fs, x)
        /\ \E i : Enter(f, base, i)
    BY <1>2, <2>1, Zenon DEF call_wasm, push
  <2>3. x \in Frames /\ x.ip = Entry(f) /\ x.start = base
    BY <2>1, RunningFacts, PlaceFacts, Zenon DEF Frames
  <2>4. Project(fs) = A!PastCall
    BY MovesPast, Zenon
  <2> HIDE DEF fs, x, base
  <2>5. frames' \in Seq(Frames) /\ frames' # <<>> /\ frames'[Len(frames')].ip = Entry(f)
    <3>1. /\ Append(fs, x) \in Seq(Frames) /\ Append(fs, x) # <<>>
          /\ Len(Append(fs, x)) = Len(fs) + 1 /\ Append(fs, x)[Len(fs) + 1] = x
      BY <2>1, <2>3, PushFacts, Zenon
    <3> QED
      BY <2>2, <2>3, <3>1, Zenon
  <2>6. CASE phase' = "idle"
    BY <2>6, Sim_end, Zenon
  <2>7. CASE phase' = "running" /\ ActsOf' = Project(frames')
    <3>1. ActsOf' = Append(Project(fs), A!Entered(f, base))
      BY <2>1, <2>2, <2>3, <2>7, ProjectPush, Zenon DEF Act, A!Entered, Entry
    <3>3. Project(fs) \in Seq(Acts) /\ Len(Project(fs)) = Len(ActsOf)
      <4>1. Len(fs) = Len(frames)
        BY RunningFacts, SyncFacts, Zenon DEF fs
      <4> QED
        BY <2>1, <4>1, ProjectFacts, RunningActs, Zenon
    <3>4. /\ Len(ActsOf') = Len(ActsOf) + 1
          /\ ActsOf'[Len(ActsOf')] = A!Entered(f, base)
      <4> HIDE DEF A!Entered
      <4>1. A!Entered(f, base) = Act(x) /\ Act(x) \in Acts
        BY <2>3, ActFacts, Zenon DEF Act, A!Entered, Entry
      <4>2. /\ Len(Append(Project(fs), Act(x))) = Len(Project(fs)) + 1
            /\ Append(Project(fs), Act(x))[Len(Project(fs)) + 1] = Act(x)
        BY <3>3, <4>1, AppendFacts, ZenonT(60)
      <4> QED
        BY <3>1, <3>3, <4>1, <4>2, ZenonT(60)
    <3>5. A!Entered(f, base).base = base /\ ActsOf[Len(ActsOf)].base = top_start(frames)
      BY RunningActs, SMTT(60) DEF A!Entered
    <3>6. A!Call(f)
      BY <2>1, <2>4, <2>7, <3>1, <3>4, <3>5, ZenonT(60) DEF A!Call
    <3> QED
      BY <3>6, Zenon DEF Simulated
  <2> QED
    BY <2>2, <2>5, <2>6, <2>7, EntersActs, Zenon
<1> QED
  BY <1>1, <1>2, Zenon

\* A tail call (return_call_wasm) replaces the activation on top.
LEMMA Sim_tail_call ==
    ASSUME IInv, phase = "running", NEW f \in Funcs, NEW inst,
           inst = InstanceOf[f] \/ inst = NoInst, return_call_wasm(f, inst)
    PROVE  Simulated
<1>1. PICK x \in Frames : /\ x.ip = Entry(f) /\ x.start = top_start(frames)
                          /\ frames' = [frames EXCEPT ![Len(frames)] = x]
  <2>1. frames' = replace(f, inst)
    BY Zenon DEF return_call_wasm
  <2> QED
    BY <2>1, ReplaceFacts, ZenonT(60)
<1>2. frames' = Append(Rest(frames), x) /\ Rest(frames) \in Seq(Frames)
  BY <1>1, RunningFacts, ReplacedIsPushed, RestFacts, Zenon
<1>3. frames' \in Seq(Frames) /\ frames' # <<>> /\ frames'[Len(frames')].ip = Entry(f)
  <2> DEFINE r == Append(Rest(frames), x)
  <2>1. /\ r \in Seq(Frames) /\ r # <<>>
        /\ Len(r) = Len(Rest(frames)) + 1 /\ r[Len(Rest(frames)) + 1] = x
    BY <1>2, PushFacts, Zenon
  <2> QED
    BY <1>1, <1>2, <2>1, ZenonT(60)
<1>4. phase' = "idle" \/ (phase' = "running" /\ ActsOf' = Project(frames'))
  BY <1>3, EntersActs, Zenon DEF return_call_wasm
<1>5. CASE phase' = "running" /\ ActsOf' = Project(frames')
  <2>1. Act(x) = A!Entered(f, ActsOf[Len(ActsOf)].base)
    <3>1. ActsOf[Len(ActsOf)] = [ip |-> args.ip, base |-> top_start(frames)]
      BY RunningActs, ZenonT(60)
    <3>2. ActsOf[Len(ActsOf)].base = top_start(frames)
      BY <3>1
    <3> QED
      BY <1>1, <3>2, Zenon DEF Act, Entry, A!Entered
  <2>2. ActsOf' = Append(A!Popped, A!Entered(f, ActsOf[Len(ActsOf)].base))
    BY <1>2, <1>5, <2>1, ProjectPush, RunningActs, Zenon DEF A!Popped
  <2> QED
    BY <1>5, <2>2, Zenon DEF A!TailCall, Simulated
<1> QED
  BY <1>4, <1>5, Sim_end, Zenon

\* A return (pop_frame) pops one.
LEMMA Sim_pop_frame ==
    ASSUME IInv, pop_frame
    PROVE  Simulated
<1>1. phase = "running" /\ frames' = Rest(frames)
  BY Zenon DEF pop_frame
<1>2. CASE Rest(frames) = <<>>
  BY <1>2, Sim_end, Zenon DEF pop_frame, Finish
<1>3. CASE Rest(frames) # <<>>
  <2>1. Rest(frames) \in Seq(Frames)
    BY <1>1, RunningFacts, RestFacts, Zenon
  <2>2. phase' = "running" /\ args'.ip = frames[Len(frames) - 1].ip
    <3>1. /\ phase' = phase
          /\ \E sp, i, m : args' = [ip |-> frames[Len(frames) - 1].ip, sp |-> sp, inst |-> i, mem0 |-> m]
      BY <1>1, <1>3, ZenonT(60) DEF pop_frame
    <3> QED
      BY <1>1, <3>1, SMTT(60)
  <2>3. args'.ip = frames'[Len(frames')].ip
    BY <1>1, <1>3, <2>2, RunningFacts, RestFacts, Zenon
  <2>4. ActsOf' = Project(Rest(frames))
    BY <1>1, <1>3, <2>1, <2>2, <2>3, ProjectSynced, Zenon DEF ActsOf
  <2>5. ActsOf' = A!Popped /\ A!Popped # <<>>
    BY <1>1, <1>3, <2>1, <2>4, RunningActs, ProjectFacts, Zenon DEF A!Popped
  <2> QED
    BY <1>1, <2>2, <2>5, Zenon DEF A!Return, Simulated
<1> QED
  BY <1>2, <1>3

\* execute_root_func and execute_root_host begin a call.
LEMMA Sim_root ==
    ASSUME \/ \E f \in Funcs : execute_root_func(f)
           \/ \E h \in Hosts : execute_root_host(h)
    PROVE  Simulated
<1>1. CASE \E f \in Funcs : execute_root_func(f)
  <2>1. PICK f \in Funcs : execute_root_func(f)
    BY <1>1, Zenon
  <2> DEFINE x == [ip |-> Entry(f), start |-> 0, instance |-> NoInst]
  <2>2. /\ phase = "idle" /\ frames' = <<x>>
        /\ phase' = "idle" \/ (phase' = "running" /\ args'.ip = Entry(f))
    <3>1. /\ phase = "idle" /\ frames' = <<x>>
          /\ \/ phase' = "idle"
             \/ /\ phase' = "running"
                /\ \E sp, i, m : args' = [ip |-> Entry(f), sp |-> sp, inst |-> i, mem0 |-> m]
      BY <2>1, ZenonT(60) DEF execute_root_func, Finish
    <3> QED
      BY <3>1, SMTT(60)
  <2>3. x \in Frames /\ Act(x) = A!Entered(f, 0) /\ x.ip = Entry(f)
    BY PlaceFacts, Zenon DEF Frames, Act, A!Entered, Entry
  <2> HIDE DEF x
  <2>4. /\ <<x>> \in Seq(Frames) /\ <<x>> # <<>> /\ Len(<<x>>) = 1 /\ <<x>>[1] = x
    BY <2>3, SMTT(60)
  <2>5. Project(<<x>>) = <<Act(x)>>
    <3>1. /\ Project(<<x>>) \in Seq(Acts) /\ Len(Project(<<x>>)) = 1
          /\ Project(<<x>>)[1] = Act(x)
      <4> DEFINE fs == <<x>>
      <4>1. fs \in Seq(Frames) /\ Len(fs) = 1 /\ fs[1] = x
        BY <2>4, Zenon
      <4> HIDE DEF fs
      <4>2. /\ Project(fs) \in Seq(Acts) /\ Len(Project(fs)) = 1
            /\ Project(fs)[1] = Act(x)
        BY <4>1, ProjectFacts, SMTT(60)
      <4> QED
        BY <4>2, Zenon DEF fs
    <3> QED
      BY <3>1, SMTT(60)
  <2>6. CASE phase' = "running" /\ args'.ip = Entry(f)
    <3>1. ActsOf' = <<A!Entered(f, 0)>>
      <4>1. Project(sync_ip(<<x>>, <<x>>[Len(<<x>>)].ip)) = Project(<<x>>)
        BY <2>4, ProjectSynced, Zenon
      <4> QED
        BY <2>2, <2>3, <2>4, <2>5, <2>6, <4>1, Zenon DEF ActsOf
    <3> QED
      BY <2>2, <2>6, <3>1, Zenon DEF A!Start, Simulated
  <2> QED
    BY <2>2, <2>6, Sim_end, Zenon
<1>2. CASE \E h \in Hosts : execute_root_host(h)
  <2>1. phase = "idle" /\ frames' = <<>> /\ phase' \in {"idle", "host"}
    BY <1>2, ZenonT(60) DEF execute_root_host, Finish
  <2>2. CASE phase' = "host"
    <3>1. ActsOf' = <<>>
      <4>1. Project(<<>>) = <<>>
        BY SMTT(60) DEF Project
      <4> QED
        BY <2>1, <2>2, <4>1, Zenon DEF ActsOf
    <3> QED
      BY <2>1, <2>2, <3>1, Zenon DEF A!Start, Simulated
  <2> QED
    BY <2>1, <2>2, Sim_end, Zenon
<1> QED
  BY <1>1, <1>2, Zenon

\* A host function called, or tail-called, leaves the activations to the host.
LEMMA Sim_host_call ==
    ASSUME IInv, NEW h \in Hosts, NEW head \in Nat,
           call_host(h, head) \/ return_call_host(h, head)
    PROVE  Simulated
<1>1. /\ phase = "running" /\ phase' \in {"idle", "host"}
      /\ frames' = sync_ip(frames, After(args.ip)) \/ frames' = Rest(frames)
  BY ZenonT(60) DEF call_host, return_call_host, Finish
<1>2. CASE phase' = "host"
  <2>1. ActsOf' = Project(frames')
    BY <1>2, Zenon DEF ActsOf
  <2>2. ActsOf' = A!PastCall \/ ActsOf' = A!Popped
    BY <1>1, <2>1, RunningFacts, RunningActs, MovesPast, ZenonT(60) DEF A!Popped
  <2> QED
    BY <1>1, <1>2, <2>2, Zenon DEF A!HostCall, Simulated
<1> QED
  BY <1>1, <1>2, Sim_end, Zenon

\* A host function returns, or a suspended call is resumed: the activations go on.
LEMMA Sim_host_return ==
    ASSUME IInv, call_host_ok \/ return_call_host_ok \/ resume
    PROVE  Simulated
<1>1. /\ \/ phase = "suspended"
         \/ phase = "host" /\ host.kind \in {"call", "tail"}
      /\ phase' = "running" /\ UNCHANGED frames
  BY DEF call_host_ok, return_call_host_ok, resume, stackVars
<1>a. /\ frames \in Seq(Frames) /\ frames # <<>>
      /\ phase = "host" => host.ip = frames[Len(frames)].ip
  BY <1>1, WaitingFacts, ZenonT(60)
<1>b. \/ phase = "host" /\ args'.ip = host.ip
      \/ args'.ip = frames[Len(frames)].ip
  <2>1. CASE call_host_ok
    BY <2>1, Zenon DEF call_host_ok
  <2>2. CASE return_call_host_ok
    BY <2>2, Zenon DEF return_call_host_ok
  <2>3. CASE resume
    BY <2>3, Zenon DEF resume
  <2> QED
    BY <2>1, <2>2, <2>3, Zenon
<1>2. frames \in Seq(Frames) /\ frames # <<>> /\ args'.ip = frames[Len(frames)].ip
  BY <1>a, <1>b, Zenon
<1>3. ActsOf' = Project(frames)
  BY <1>1, <1>2, ProjectSynced, Zenon DEF ActsOf
<1>4. ActsOf = Project(frames) /\ ActsOf # <<>>
  BY <1>1, <1>2, WaitingActs, ProjectFacts, Zenon
<1> QED
  BY <1>1, <1>3, <1>4, ZenonT(60) DEF A!HostReturn, A!Resume, Simulated

\* A suspended call is where it was, unless table.grow ran out of fuel.
LEMMA Sim_suspend ==
    ASSUME IInv, host_error \/ out_of_fuel
    PROVE  Simulated
<1>1. CASE host_error
  <2>1. phase = "host" /\ host.kind \in {"call", "tail"} /\ phase' = "suspended" /\ UNCHANGED frames
    BY <1>1, Zenon DEF host_error, stackVars
  <2>2. ActsOf' = ActsOf /\ ActsOf # <<>>
    BY <2>1, WaitingFacts, ProjectFacts, Zenon DEF ActsOf
  <2> QED
    BY <2>1, <2>2, Zenon DEF A!Suspend, Simulated
<1>2. CASE out_of_fuel
  <2>1. phase = "running" /\ phase' = "suspended" /\ frames' = sync_ip(frames, args.ip)
    BY <1>2, Zenon DEF out_of_fuel, OutOfFuel
  <2>2. ActsOf' = ActsOf /\ ActsOf # <<>>
    BY <2>1, RunningActs, Zenon DEF ActsOf
  <2> QED
    BY <2>1, <2>2, Zenon DEF A!Suspend, Simulated
<1> QED
  BY <1>1, <1>2, Zenon

\* The operators that stay in the function.
LEMMA Sim_step ==
    ASSUME IInv, \/ step
                 \/ \E m \in Memories, default \in BOOLEAN : memory_grow(m, default)
    PROVE  Simulated
<1>1. /\ phase = "running" /\ phase' = "running" /\ UNCHANGED frames
      /\ args'.ip \in Places /\ args'.ip.func = args.ip.func
  <2>1. CASE step
    <3>1. phase = "running" /\ phase' = "running" /\ UNCHANGED frames
      BY <2>1, Zenon DEF step, stackVars
    <3>2. PICK p \in 0 .. MaxPos : args' = [args EXCEPT !.ip.pos = p]
      BY <2>1, Zenon DEF step
    <3>3. args.ip \in Places /\ args \in Registers
      BY <3>1, RunningFacts, ZenonT(60)
    <3>4. args'.ip = [args.ip EXCEPT !.pos = p]
      BY <3>2, <3>3, Zenon DEF Registers
    <3> QED
      BY <3>1, <3>3, <3>4, Zenon DEF Places
  <2>2. CASE \E m \in Memories, default \in BOOLEAN : memory_grow(m, default)
    <3>1. phase = "running" /\ phase' = "running" /\ UNCHANGED frames
      BY <2>2, ZenonT(30) DEF memory_grow, stackVars
    <3>2. /\ args \in Registers /\ args.ip \in Places
          /\ After(args.ip) \in Places /\ After(args.ip).func = args.ip.func
      BY <3>1, RunningFacts, Zenon
    <3>3. args'.ip = After(args.ip)
      BY <2>2, <3>2, Zenon DEF memory_grow, Registers
    <3> QED
      BY <3>1, <3>2, <3>3, Zenon
  <2> QED
    BY <2>1, <2>2, Zenon
<1>2. ActsOf' = Project(sync_ip(frames, args'.ip))
  BY <1>1, Zenon DEF ActsOf
<1>3. A!Moved(ActsOf')
  BY <1>1, <1>2, Moves, Zenon
<1> QED
  BY <1>1, <1>3, Zenon DEF A!Step, Simulated

\* Every step of the execution is a step of Activations.
LEMMA StepSimulated ==
    ASSUME IInv, ~(Metered /\ TableGrow), [Next]_vars
    PROVE  Simulated
<1>1. CASE \/ \E f \in Funcs : execute_root_func(f)
           \/ \E h \in Hosts : execute_root_host(h)
  BY <1>1, Sim_root, Zenon
<1>2. CASE \E f \in Funcs, head \in Slots : call_internal(f, head) \/ call_imported(f, head)
  <2>1. PICK f \in Funcs, head \in Slots : call_internal(f, head) \/ call_imported(f, head)
    BY <1>2, Zenon
  <2>2. head \in Nat
    BY DEF Slots
  <2>3. phase = "running" /\ \E inst : call_wasm(f, head, inst)
    BY <2>1, Zenon DEF call_internal, call_imported
  <2> QED
    BY <2>2, <2>3, Sim_call, Zenon
<1>3. CASE \E f \in Funcs : return_call_internal(f) \/ return_call_imported(f)
  BY <1>3, Sim_tail_call, Zenon DEF return_call_internal, return_call_imported
<1>4. CASE \E h \in Hosts, head \in Slots : call_host(h, head) \/ return_call_host(h, head)
  BY <1>4, Sim_host_call, SMTT(60) DEF Slots
<1>5. CASE pop_frame
  BY <1>5, Sim_pop_frame, Zenon
<1>6. CASE call_host_ok \/ return_call_host_ok \/ resume
  BY <1>6, Sim_host_return, Zenon
<1>7. CASE host_error \/ out_of_fuel
  BY <1>7, Sim_suspend, Zenon
<1>8. CASE table_grow
  BY <1>8, Zenon DEF table_grow, OutOfFuel
<1>9. CASE step \/ \E m \in Memories, default \in BOOLEAN : memory_grow(m, default)
  BY <1>9, Sim_step, Zenon
<1>10. CASE host_done \/ trap \/ drop
  BY <1>10, Sim_end, Zenon DEF host_done, trap, drop, Unstacked, Finish
<1>11. CASE UNCHANGED vars \/ \E m \in Memories : host_grow(m) \/ embedder_grow(m)
  <2>1. UNCHANGED <<frames, instance, args, phase>>
    BY <1>11, Zenon DEF vars, host_grow, embedder_grow, stackVars
  <2> QED
    BY <2>1, Zenon DEF Simulated, ActsOf, InstOf, Project, sync_ip
<1> QED
  BY <1>1, <1>2, <1>3, <1>4, <1>5, <1>6, <1>7, <1>8, <1>9, <1>10, <1>11, ZenonT(60) DEF Next

\* The lazily synchronized stack and the registers of the handlers implement the stack
\* of activations, in programs in which no table.grow runs out of fuel.
THEOREM Refines ==
    ASSUME ~(Metered /\ TableGrow)
    PROVE  Spec => ImplementsActivations
<1>1. Init => A!Init
  BY DEF Init, A!Init, ActsOf, InstOf
<1>2. IInv => InstRefined
  BY RunsInRefines
<1>3. IInv' => InstRefined'
  BY <1>2, PTL
<1>4. IInv /\ IInv' /\ [Next]_vars => [A!Next]_(A!avars)
  <2> SUFFICES ASSUME IInv, IInv', [Next]_vars PROVE [A!Next]_(A!avars)
    BY Zenon
  <2>1. Simulated
    BY StepSimulated, Zenon
  <2>2. InstOf' = A!RunsIn(ActsOf)'
    BY <1>3 DEF InstRefined
  <2> QED
    BY <2>1, <2>2, Zenon DEF Simulated, A!Next, A!avars, A!RunsIn
<1> QED
  BY <1>1, <1>4, Invariant, PTL DEF Spec, ImplementsActivations, A!Spec

\* A call is suspended at the operator that has no fuel, or behind the call of the host
\* function that failed, in programs in which no table.grow runs out of fuel.
THEOREM SuspendedInPlace ==
    ASSUME ~(Metered /\ TableGrow)
    PROVE  Spec => SuspendsInPlace
<1> DEFINE Place == IF phase = "host" THEN host.ip ELSE args.ip
<1>1. IInv /\ [Next]_vars =>
          [phase # "suspended" /\ phase' = "suspended" => frames'[Len(frames')].ip = Place]_vars
  <2> SUFFICES ASSUME IInv, Next, phase # "suspended", phase' = "suspended"
               PROVE  frames'[Len(frames')].ip = Place
    BY Zenon
  <2>1. host_error \/ out_of_fuel
    <3>1. ~table_grow
      BY Zenon DEF table_grow, OutOfFuel
    <3>2. \A f, start, i : ~Enter(f, start, i)
      BY Zenon DEF Enter, Finish
    <3>3. ~\E f \in Funcs : \/ execute_root_func(f) \/ return_call_internal(f)
                            \/ return_call_imported(f)
      <4>1. \A f : ~execute_root_func(f)
        BY Zenon DEF execute_root_func, Finish
      <4>2. \A f : ~return_call_internal(f) /\ ~return_call_imported(f)
        BY <3>2, ZenonT(60) DEF return_call_internal, return_call_imported, return_call_wasm
      <4> QED
        BY <4>1, <4>2, Zenon
    <3>4. ~\E f \in Funcs, head \in Slots : call_internal(f, head) \/ call_imported(f, head)
      BY <3>2, Zenon DEF call_internal, call_imported, call_wasm, Unstacked, Finish
    <3>5. ~\E h \in Hosts : \/ execute_root_host(h)
                            \/ \E head \in Slots : \/ call_host(h, head)
                                                   \/ return_call_host(h, head)
      BY Zenon DEF execute_root_host, call_host, return_call_host, Finish
    <3>6. ~\E m \in Memories : \/ host_grow(m) \/ embedder_grow(m)
                               \/ \E default \in BOOLEAN : memory_grow(m, default)
      BY Zenon DEF host_grow, embedder_grow, memory_grow
    <3>7. ~(\/ pop_frame \/ step \/ trap \/ call_host_ok \/ return_call_host_ok \/ host_done
            \/ resume \/ drop)
      BY Zenon DEF pop_frame, step, trap, call_host_ok, return_call_host_ok, host_done, resume,
         drop, Unstacked, Finish
    <3> QED
      BY <3>1, <3>3, <3>4, <3>5, <3>6, <3>7, Zenon DEF Next
  <2>2. CASE host_error
    <3>1. phase = "host" /\ host.kind \in {"call", "tail"} /\ frames' = frames
      BY <2>2, Zenon DEF host_error, stackVars
    <3>2. host.ip = frames[Len(frames)].ip
      BY <3>1, WaitingFacts, ZenonT(60)
    <3> QED
      BY <3>1, <3>2, Zenon
  <2>3. CASE out_of_fuel
    <3>1. phase = "running" /\ frames' = sync_ip(frames, args.ip)
      BY <2>3, Zenon DEF out_of_fuel
    <3>2. frames \in Seq(Frames) /\ frames # <<>> /\ args.ip \in Places
      BY <3>1, RunningFacts, Zenon
    <3>3. Len(sync_ip(frames, args.ip)) = Len(frames) /\ sync_ip(frames, args.ip)[Len(frames)].ip = args.ip
      BY <3>2, SyncFacts, Zenon
    <3> QED
      BY <3>1, <3>3, Zenon
  <2> QED
    BY <2>1, <2>2, <2>3, Zenon
<1> QED
  BY <1>1, Invariant, PTL DEF Spec, SuspendsInPlace
=============================================================================
