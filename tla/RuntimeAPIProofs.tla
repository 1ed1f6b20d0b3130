--------------------------- MODULE RuntimeAPIProofs ---------------------------
(***************************************************************************)
(* The API keeps configurations, windows and programs apart, for any       *)
(* number of regions, configurations and programs.  The proof stands on    *)
(* that of the allocator: every step of the API is a step of the allocator *)
(* or leaves it alone, so the allocator's invariant holds in the API, and  *)
(* the API's own invariant is added on top of it.                          *)
(***************************************************************************)
EXTENDS RuntimeAPI, BuddyAllocatorProofs

(* Regions that share a block have windows of the same length.             *)
ClonesAgree ==
    \A r, q \in Regions :
        Held(r) /\ Held(q) /\ live[r] = live[q] => size[r] = size[q]

(* What the API adds to the allocator's invariant.                         *)
OwnInv == /\ APITypeOK
          /\ ConfigOwnership
          /\ WindowInsideBlock
          /\ ClonesAgree
          /\ MappedPagesRegistered
          /\ ProgramStaysBound

APIInv == IInv /\ OwnInv

-----------------------------------------------------------------------------
(* The least element the CHOOSE of FirstClear and RegionSize picks.        *)

LEMMA FirstClearLeast ==
    ASSUME ClearBits # {}
    PROVE  FirstClear \in ClearBits /\ \A d \in ClearBits : FirstClear <= d
<1>1. ClearBits \subseteq Nat
  BY ConfigAssumption DEF ClearBits
<1>. QED
  BY <1>1, NatMinimum DEF FirstClear

(* It is a bit that is clear. *)
LEMMA FirstClearType ==
    ASSUME ClearBits # {}
    PROVE  FirstClear \in ClearBits
BY FirstClearLeast

(* A region's window is no longer than the block allocated for it.         *)
LEMMA RegionSizeFits ==
    ASSUME NEW request \in Requests
    PROVE  /\ RegionSize(request) \in Powers
           /\ RegionSize(request) <= SizeClass(request)
<1> DEFINE T == {p \in Powers : request <= p}
<1>1. SizeClass(request) \in Sizes /\ request <= SizeClass(request)
  <2>1. BackingSize \in {s \in Sizes : request <= s}
    BY RequestsAssumption, SizesAssumption
  <2>2. {s \in Sizes : request <= s} \subseteq Nat
    BY SizesAssumption
  <2>. QED
    BY <2>1, <2>2, NatMinimum DEF SizeClass
<1>2. T \subseteq Nat /\ SizeClass(request) \in T
  BY <1>1, PowersAssumption
<1>3. PICK x \in T : \A y \in T : x <= y
  BY <1>2, NatMinimum
<1>4. \E x1 \in Powers : /\ request <= x1
                         /\ \A q \in Powers : request <= q => x1 <= q
  BY <1>3
<1>. QED
  BY <1>1, <1>4, PowersAssumption DEF RegionSize

-----------------------------------------------------------------------------
(* Every call is a call of the allocator or leaves it alone.               *)

LEMMA CallIsAllocatorStep == [APINext]_apiVars => [Next \/ Init']_vars
<1> SUFFICES ASSUME [APINext]_apiVars PROVE [Next \/ Init']_vars
  OBVIOUS
<1>1. CASE UNCHANGED apiVars
  BY <1>1 DEF apiVars
<1>2. ASSUME NEW r \in Regions, NEW request \in Requests,
             AllocEphemeralRegion(r, request)
      PROVE  Next
  BY <1>2 DEF AllocEphemeralRegion, Next
<1>3. ASSUME NEW r \in Regions, NEW q \in Regions, CloneEphemeralRegion(r, q)
      PROVE  Next
  BY <1>3 DEF CloneEphemeralRegion, Next
<1>4. ASSUME NEW r \in Regions, FreeEphemeralRegion(r)
      PROVE  Next
  BY <1>4 DEF FreeEphemeralRegion, Next
<1>5. ASSUME NEW r \in Regions, Sync(r)
      PROVE  UNCHANGED vars
  BY <1>5 DEF Sync
<1>6. ASSUME NEW p \in Programs, Compile(p)
      PROVE  UNCHANGED vars
  BY <1>6 DEF Compile
<1>7. ASSUME NEW r \in Regions, ProgramHardware(r)
      PROVE  UNCHANGED vars
  BY <1>7 DEF ProgramHardware
<1>8. ASSUME NEW r \in Regions, NEW p \in Programs, CompileAndProgramHardware(p, r)
      PROVE  UNCHANGED vars
  BY <1>8 DEF CompileAndProgramHardware
<1>9. ASSUME Restart
      PROVE  Init'
  BY <1>9 DEF Restart, Init
<1>. QED
  BY <1>1, <1>2, <1>3, <1>4, <1>5, <1>6, <1>7, <1>8, <1>9 DEF APINext, Call

(* The allocator inside the API behaves as the allocator alone, from one   *)
(* restart to the next.                                                    *)
THEOREM AllocatorInside == APISpec => AllocatorSpec
<1>1. APIInit => Init
  BY DEF APIInit
<1>. QED
  BY <1>1, CallIsAllocatorStep, PTL DEF APISpec, AllocatorSpec

(* A new process has a new tree, whatever the old one held.                *)
LEMMA InitInvariantNext == Init' => IInv'
  BY InitInvariant, PTL

-----------------------------------------------------------------------------
(* The API's own invariant, one lemma per kind of call.                    *)

(* A region that receives a configuration: the block it takes is already   *)
(* its own in live', and agrees in size with any region that shares it.    *)
LEMMA AllocateConfigStep ==
    ASSUME OwnInv, stopped = "no",
           NEW r \in Regions, ~Held(r),
           NEW b \in Block, NEW bytes \in Powers, bytes <= b.size,
           live' \in [Regions -> Block \cup {NoBlock}],
           live'[r] = b,
           \A q \in Regions : q # r => live'[q] = live[q],
           \A q \in Regions : Held(q) /\ live[q] = b => size[q] = bytes,
           AllocateConfig(r, b.off, bytes),
           UNCHANGED ralloc
    PROVE  OwnInv'
<1>1. CASE UNCHANGED <<regionVars, deviceVars>> /\ (stopped' = "no" => bitmap' = bitmap)
           /\ bitmap' \subseteq 0 .. ConfigBits - 1
           /\ error' \in {"none", "buddy", "config"}
           /\ stopped' \in {"no", "config", "killed", "assert", "exit", "crash"}
  <2> USE <1>1 DEF regionVars, deviceVars, Held, OwnInv
  <2>1. APITypeOK'
    BY DEF APITypeOK
  <2>2. ConfigOwnership'
    BY DEF ConfigOwnership
  <2>3. WindowInsideBlock'
    BY DEF WindowInsideBlock, StartReg, SizeReg
  <2>4. ClonesAgree'
    BY DEF ClonesAgree
  <2>5. MappedPagesRegistered'
    BY DEF MappedPagesRegistered, PhysReg
  <2>6. ProgramStaysBound'
    BY DEF ProgramStaysBound
  <2>. QED
    BY <2>1, <2>2, <2>3, <2>4, <2>5, <2>6
<1>2. CASE /\ ClearBits # {}
           /\ FirstClear < MaxConfigs
           /\ bitmap' = bitmap \cup {FirstClear}
           /\ reset' = [reset EXCEPT ![FirstClear] = FALSE]
           /\ leftover' = leftover \ {FirstClear}
           /\ Constructed(r, b.off, bytes, FirstClear)
           /\ UNCHANGED <<agu, bound, error, stopped>>
  <2> DEFINE c == FirstClear
  <2>1. /\ c \in Configs /\ c \notin bitmap /\ c \in 0 .. ConfigBits - 1
        /\ c \in Nat /\ MaxConfigs \in Nat /\ c < MaxConfigs /\ c # None
    BY <1>2, FirstClearType, ConfigAssumption DEF ClearBits, Configs
  <2>2. /\ b.off \in Nat /\ b.size \in Nat /\ b # NoBlock
        /\ bytes \in Nat /\ bytes > 0
    <3>1. b.size > 0 /\ b.size \in Nat /\ b.off \in Nat
      BY BlockFields
    <3>. QED
      BY <3>1, PowersAssumption DEF NoBlock
  <2>3. /\ config' = [config EXCEPT ![r] = c]
        /\ size' = [size EXCEPT ![r] = bytes]
        /\ mapped[r] = None
        /\ \E page \in Pages \cup {None} :
              /\ mapped' = [mapped EXCEPT ![r] = page]
              /\ DOMAIN dtu' = DOMAIN dtu
              /\ \A i \in DOMAIN dtu :
                    dtu'[i] = IF i = StartReg(c) THEN b.off
                              ELSE IF i = SizeReg(c) THEN bytes
                              ELSE IF i = PhysReg(c) /\ page # None THEN page
                              ELSE dtu[i]
    <3>1. mapped[r] = None /\ mapped \in [Regions -> Pages \cup {None}]
      BY DEF OwnInv, MappedPagesRegistered, APITypeOK
    <3>2. /\ StartReg(c) # SizeReg(c) /\ StartReg(c) # PhysReg(c)
          /\ SizeReg(c) # PhysReg(c)
      BY <2>1 DEF StartReg, SizeReg, PhysReg
    <3>3. \A i \in DOMAIN dtu : \A v, w :
            [dtu EXCEPT ![SizeReg(c)] = v, ![StartReg(c)] = w][i]
              = IF i = StartReg(c) THEN w ELSE IF i = SizeReg(c) THEN v ELSE dtu[i]
      BY <3>2
    <3> DEFINE win == [dtu EXCEPT ![SizeReg(c)] = bytes, ![StartReg(c)] = b.off]
    <3>4. \/ \E page \in FreshPages : /\ mapped' = [mapped EXCEPT ![r] = page]
                                      /\ dtu' = [win EXCEPT ![PhysReg(c)] = page]
          \/ mapped' = mapped /\ dtu' = win
      BY <1>2 DEF Constructed, Window, Paged
    <3>5. DOMAIN win = DOMAIN dtu
      OBVIOUS
    <3>6. \A i \in DOMAIN dtu :
            win[i] = IF i = StartReg(c) THEN b.off
                     ELSE IF i = SizeReg(c) THEN bytes ELSE dtu[i]
      BY <3>3
    <3>7. CASE mapped' = mapped /\ dtu' = win
      <4>1. mapped' = [mapped EXCEPT ![r] = None]
        BY <3>1, <3>7
      <4> HIDE DEF win
      <4>. QED
        BY <1>2, <3>1, <3>5, <3>6, <3>7, <4>1 DEF Constructed, Window, Paged
    <3>8. ASSUME NEW page \in FreshPages,
                 mapped' = [mapped EXCEPT ![r] = page],
                 dtu' = [win EXCEPT ![PhysReg(c)] = page]
          PROVE  /\ DOMAIN dtu' = DOMAIN dtu
                 /\ \A i \in DOMAIN dtu :
                       dtu'[i] = IF i = StartReg(c) THEN b.off
                                 ELSE IF i = SizeReg(c) THEN bytes
                                 ELSE IF i = PhysReg(c) /\ page # None THEN page
                                 ELSE dtu[i]
      <4>1. page # None
        BY ConfigAssumption DEF FreshPages
      <4> HIDE DEF win
      <4>. QED
        BY <3>2, <3>5, <3>6, <3>8, <4>1
    <3>. QED
      BY <1>2, <3>1, <3>4, <3>7, <3>8 DEF Constructed, FreshPages
  <2>4. PICK page \in Pages \cup {None} :
              /\ mapped' = [mapped EXCEPT ![r] = page]
              /\ DOMAIN dtu' = DOMAIN dtu
              /\ \A i \in DOMAIN dtu :
                    dtu'[i] = IF i = StartReg(c) THEN b.off
                              ELSE IF i = SizeReg(c) THEN bytes
                              ELSE IF i = PhysReg(c) /\ page # None THEN page
                              ELSE dtu[i]
    BY <2>3
  <2>5. /\ \A q \in Regions : config'[q] = IF q = r THEN c ELSE config[q]
        /\ \A q \in Regions : size'[q] = IF q = r THEN bytes ELSE size[q]
        /\ \A q \in Regions : mapped'[q] = IF q = r THEN page ELSE mapped[q]
        /\ \A d \in Configs : reset'[d] = IF d = c THEN FALSE ELSE reset[d]
    BY <1>2, <2>3, <2>4 DEF OwnInv, APITypeOK
  <2>6. \A q \in Regions : Held(q) => /\ config[q] \in Configs /\ config[q] # c
                                      /\ q # r
    BY <2>1 DEF OwnInv, ConfigOwnership, APITypeOK, Held
  <2>7. \A d \in Configs : d # c =>
           /\ dtu'[StartReg(d)] = dtu[StartReg(d)]
           /\ dtu'[SizeReg(d)] = dtu[SizeReg(d)]
           /\ dtu'[PhysReg(d)] = dtu[PhysReg(d)]
    <3>1. ASSUME NEW d \in Configs, d # c,
                 NEW i \in {StartReg(d), SizeReg(d), PhysReg(d)}
          PROVE  /\ i \in 0 .. 3 * MaxConfigs - 1
                 /\ i # StartReg(c) /\ i # SizeReg(c) /\ i # PhysReg(c)
      BY <2>1, <3>1 DEF Configs, StartReg, SizeReg, PhysReg
    <3>2. DOMAIN dtu = 0 .. 3 * MaxConfigs - 1
      BY DEF OwnInv, APITypeOK
    <3>. QED
      BY <2>4, <3>1, <3>2
  <2>8. /\ dtu'[StartReg(c)] = b.off /\ dtu'[SizeReg(c)] = bytes
        /\ page # None => dtu'[PhysReg(c)] = page
    <3>1. /\ {StartReg(c), SizeReg(c), PhysReg(c)} \subseteq 0 .. 3 * MaxConfigs - 1
          /\ SizeReg(c) # StartReg(c)
          /\ PhysReg(c) # StartReg(c) /\ PhysReg(c) # SizeReg(c)
      BY <2>1 DEF Configs, StartReg, SizeReg, PhysReg
    <3>2. DOMAIN dtu = 0 .. 3 * MaxConfigs - 1
      BY DEF OwnInv, APITypeOK
    <3>. QED
      BY <2>4, <3>1, <3>2
  <2>9. APITypeOK'
    <3>1. uncached' \in [Regions -> BOOLEAN] /\ UNCHANGED <<bound, stopped>>
      BY <1>2 DEF Constructed, OwnInv, APITypeOK
    <3>. QED
      BY <1>2, <2>1, <2>2, <2>3, <2>4, <3>1 DEF OwnInv, APITypeOK
  <2>10. ConfigOwnership'
    <3>1. bitmap = {config[q] : q \in {p \in Regions : Held(p)}}
      BY DEF OwnInv, ConfigOwnership
    <3>2. {config'[q] : q \in {p \in Regions : config'[p] # None}}
             = {config[q] : q \in {p \in Regions : Held(p)}} \cup {c}
      BY <2>1, <2>5, <2>6 DEF Held
    <3>3. \A p, q \in Regions :
             config'[p] # None /\ config'[p] = config'[q] => p = q
      BY <2>1, <2>5, <2>6 DEF OwnInv, ConfigOwnership, Held
    <3>4. \A d \in Configs : reset'[d] <=> d \notin bitmap' \cup leftover'
      BY <1>2, <2>5 DEF OwnInv, ConfigOwnership
    <3>. QED
      BY <1>2, <3>1, <3>2, <3>3, <3>4 DEF OwnInv, ConfigOwnership, Held
  <2>11. WindowInsideBlock'
    <3>1. ASSUME NEW q \in Regions, config'[q] # None
          PROVE  /\ live'[q] # NoBlock
                 /\ dtu'[StartReg(config'[q])] = live'[q].off
                 /\ dtu'[SizeReg(config'[q])] = size'[q]
                 /\ 0 < size'[q] /\ size'[q] <= live'[q].size
      <4>1. CASE q = r
        BY <2>2, <2>5, <2>8, <4>1
      <4>2. CASE q # r
        <5>1. Held(q) /\ config'[q] = config[q] /\ size'[q] = size[q] /\ live'[q] = live[q]
          BY <2>5, <3>1, <4>2 DEF Held
        <5>. QED
          BY <2>6, <2>7, <5>1 DEF OwnInv, WindowInsideBlock
      <4>. QED
        BY <4>1, <4>2
    <3>. QED
      BY <3>1 DEF WindowInsideBlock, Held, StartReg, SizeReg
  <2>12. ClonesAgree'
    BY <2>1, <2>5, <2>6 DEF OwnInv, ClonesAgree, Held
  <2>13. MappedPagesRegistered'
    <3>1. ASSUME NEW q \in Regions, mapped'[q] # None
          PROVE  /\ config'[q] # None
                 /\ dtu'[PhysReg(config'[q])] = mapped'[q]
      <4>1. CASE q = r
        BY <2>1, <2>5, <2>8, <3>1, <4>1
      <4>2. CASE q # r
        <5>1. mapped'[q] = mapped[q] /\ config'[q] = config[q]
          BY <2>5, <4>2
        <5>2. Held(q) /\ dtu[PhysReg(config[q])] = mapped[q]
          BY <3>1, <5>1 DEF OwnInv, MappedPagesRegistered
        <5>. QED
          BY <2>6, <2>7, <5>1, <5>2 DEF Held
      <4>. QED
        BY <4>1, <4>2
    <3>. QED
      BY <3>1 DEF MappedPagesRegistered, Held, PhysReg
  <2>14. ProgramStaysBound'
    BY <1>2, <2>1, <2>5, <2>6 DEF OwnInv, ProgramStaysBound, Held
  <2>. QED
    BY <2>9, <2>10, <2>11, <2>12, <2>13, <2>14 DEF OwnInv
<1>3. CASE /\ ClearBits # {}
           /\ FirstClear < MaxConfigs
           /\ bitmap' = bitmap \cup {FirstClear}
           /\ reset' = [reset EXCEPT ![FirstClear] = FALSE]
           /\ leftover' = leftover \ {FirstClear}
           /\ Interrupted(b.off, bytes, FirstClear)
           /\ UNCHANGED <<agu, error>>
  <2> DEFINE c == FirstClear
  <2>1. /\ c \in Configs /\ c \notin bitmap /\ c \in 0 .. ConfigBits - 1
        /\ c \in Nat /\ MaxConfigs \in Nat /\ c < MaxConfigs
    BY <1>3, FirstClearType, ConfigAssumption DEF ClearBits, Configs
  <2>2. /\ DOMAIN dtu' = DOMAIN dtu
        /\ \A i \in DOMAIN dtu :
              i \notin {StartReg(c), SizeReg(c), PhysReg(c)} => dtu'[i] = dtu[i]
    BY <1>3 DEF Interrupted, Window, Paged
  <2>3. \A q \in Regions : Held(q) => config[q] \in Configs /\ config[q] # c
    BY <2>1 DEF OwnInv, ConfigOwnership, APITypeOK, Held
  <2>4. ASSUME NEW d \in Configs, d # c
        PROVE  /\ dtu'[StartReg(d)] = dtu[StartReg(d)]
               /\ dtu'[SizeReg(d)] = dtu[SizeReg(d)]
               /\ dtu'[PhysReg(d)] = dtu[PhysReg(d)]
    <3>1. ASSUME NEW i \in {StartReg(d), SizeReg(d), PhysReg(d)}
          PROVE  /\ i \in 0 .. 3 * MaxConfigs - 1
                 /\ i \notin {StartReg(c), SizeReg(c), PhysReg(c)}
      BY <2>1, <2>4, <3>1 DEF Configs, StartReg, SizeReg, PhysReg
    <3>2. DOMAIN dtu = 0 .. 3 * MaxConfigs - 1
      BY DEF OwnInv, APITypeOK
    <3>. QED
      BY <2>2, <3>1, <3>2
  <2>5. /\ UNCHANGED regionVars /\ stopped' = "killed"
        /\ config' = config /\ size' = size /\ mapped' = mapped /\ bound' = bound
    BY <1>3 DEF Interrupted, regionVars
  <2>6. \A q \in Regions : Held(q) => live'[q] = live[q] /\ q # r
    BY DEF Held
  <2>7. APITypeOK'
    BY <1>3, <2>1, <2>2, <2>5 DEF OwnInv, APITypeOK, regionVars
  <2>8. ConfigOwnership' /\ ClonesAgree'
    BY <2>5, <2>6 DEF OwnInv, ConfigOwnership, ClonesAgree, Held
  <2>9. WindowInsideBlock'
    BY <2>3, <2>4, <2>5, <2>6 DEF OwnInv, WindowInsideBlock, Held, StartReg, SizeReg
  <2>10. MappedPagesRegistered'
    BY <2>3, <2>4, <2>5 DEF OwnInv, MappedPagesRegistered, Held, PhysReg
  <2>11. ProgramStaysBound'
    BY <1>3, <2>5 DEF OwnInv, ProgramStaysBound, Held
  <2>. QED
    BY <2>7, <2>8, <2>9, <2>10, <2>11 DEF OwnInv
<1>4. ASSUME ClearBits # {} PROVE FirstClear \in 0 .. ConfigBits - 1
  BY <1>4, FirstClearType DEF ClearBits
<1>5. Constructed(r, b.off, bytes, FirstClear) => UNCHANGED <<bound, stopped>>
  BY DEF Constructed
<1>. QED
  BY <1>1, <1>2, <1>3, <1>4, <1>5 DEF AllocateConfig, SetError, OwnInv, APITypeOK

(* A new block is nobody else's; a cloned one has the size of the original. *)
LEMMA AllocRegionStep ==
    ASSUME APIInv, stopped = "no",
           NEW r \in Regions, NEW request \in Requests,
           AllocEphemeralRegion(r, request)
    PROVE  OwnInv'
<1> DEFINE bytes == SizeClass(request)
           b == FirstFit(bytes)
           x == Allocated(b, bytes)
<1>1. live[r] = NoBlock /\ ~Held(r)
  BY DEF AllocEphemeralRegion, AllocNode, APIInv, OwnInv, WindowInsideBlock
<1>2. CASE Reached(bytes) = {}
  <2>1. UNCHANGED <<vars, bitmap, regionVars, deviceVars, stopped, ralloc>> /\ error' = "buddy"
    BY <1>2 DEF AllocEphemeralRegion, AllocNode, SetError
  <2> USE <2>1 DEF APIInv, OwnInv, regionVars, deviceVars, vars
  <2>2. APITypeOK'
    BY DEF APITypeOK
  <2>3. ConfigOwnership' /\ ClonesAgree'
    BY DEF ConfigOwnership, ClonesAgree, Held
  <2>4. WindowInsideBlock'
    BY DEF WindowInsideBlock, Held, StartReg, SizeReg
  <2>5. MappedPagesRegistered' /\ ProgramStaysBound'
    BY DEF MappedPagesRegistered, ProgramStaysBound, Held, PhysReg
  <2>. QED
    BY <2>2, <2>3, <2>4, <2>5
<1>3. CASE Reached(bytes) # {}
  <2>1. bytes \in Sizes /\ b \in Reached(bytes)
    BY <1>3, SizeClassType, FirstFitReached DEF APIInv, IInv
  <2>2. /\ count' = CountAfterAlloc(b, bytes)
        /\ live' = [live EXCEPT ![r] = x]
        /\ AllocateConfig(r, b.off, RegionSize(request))
        /\ UNCHANGED ralloc
    BY <1>3 DEF AllocEphemeralRegion, AllocNode
  <2>3. /\ live'[r] = x
        /\ \A q \in Regions : live[q] # NoBlock => Disjoint(x, live[q])
        /\ IInv'
    <3> HIDE DEF x, b, bytes
    <3>. QED
      BY <1>1, <2>1, <2>2, AllocStep DEF APIInv, x
  <2>4. x \in Block /\ x.off = b.off /\ x.size = bytes
    BY <2>1 DEF APIInv, IInv, TypeOK, Reached, Block, Allocated
  <2>5. \A q \in Regions : ~(Held(q) /\ live[q] = x)
    <3>1. x # NoBlock /\ ~Disjoint(x, x)
      BY <2>4, BlockFields, InsideOrder DEF NoBlock
    <3>. QED
      BY <2>3, <3>1
  <2>6. live' \in [Regions -> Block \cup {NoBlock}]
        /\ \A q \in Regions : q # r => live'[q] = live[q]
    BY <2>2, <2>3 DEF IInv, TypeOK
  <2>7. RegionSize(request) \in Powers /\ RegionSize(request) <= x.size
    BY <2>4, RegionSizeFits
  <2> HIDE DEF x, b, bytes
  <2>. QED
    BY <1>1, <2>2, <2>3, <2>4, <2>5, <2>6, <2>7, AllocateConfigStep DEF APIInv
<1>. QED
  BY <1>2, <1>3

(* A clone takes the original's block and the original's size.             *)
LEMMA CloneRegionStep ==
    ASSUME APIInv, stopped = "no",
           NEW r \in Regions, NEW q \in Regions,
           CloneEphemeralRegion(r, q)
    PROVE  OwnInv'
<1>1. /\ live[r] = NoBlock /\ ~Held(r) /\ Held(q)
      /\ live' = [live EXCEPT ![r] = live[q]]
      /\ AllocateConfig(r, live[q].off, size[q])
      /\ UNCHANGED ralloc
  BY DEF CloneEphemeralRegion, FindAndIncNode, APIInv, OwnInv, WindowInsideBlock
<1>2. /\ live \in [Regions -> Block \cup {NoBlock}]
      /\ live[q] \in Block /\ size[q] \in Powers /\ size[q] <= live[q].size
  BY <1>1 DEF APIInv, OwnInv, WindowInsideBlock, APITypeOK, IInv, TypeOK
<1>3. \A p \in Regions : Held(p) /\ live[p] = live[q] => size[p] = size[q]
  BY <1>1 DEF APIInv, OwnInv, ClonesAgree
<1>. QED
  BY <1>1, <1>2, <1>3, AllocateConfigStep DEF APIInv

(* A freed configuration was its region's alone.                           *)
LEMMA FreeRegionStep ==
    ASSUME APIInv, stopped = "no", NEW r \in Regions, FreeEphemeralRegion(r)
    PROVE  OwnInv'
<1>1. /\ Held(r)
      /\ live' = [live EXCEPT ![r] = NoBlock]
      /\ bitmap' = bitmap \ {config[r]}
      /\ UNCHANGED <<agu, dtu, leftover, ralloc, error>>
      /\ config[r] \notin leftover
      /\ stopped' \in {"no", "crash"}
  BY DEF FreeEphemeralRegion, FreeNode, FreeConfig, Destroy, APIInv, OwnInv,
         ConfigOwnership
<1>2. /\ \A q \in Regions : config'[q] = IF q = r THEN None ELSE config[q]
      /\ \A q \in Regions : size'[q] = IF q = r THEN 0 ELSE size[q]
      /\ \A q \in Regions : mapped'[q] = IF q = r THEN None ELSE mapped[q]
      /\ \A q \in Regions : bound'[q] = IF q = r THEN None ELSE bound[q]
      /\ \A c \in Configs : reset'[c] = IF c = config[r] THEN TRUE ELSE reset[c]
      /\ \A q \in Regions : q # r => live'[q] = live[q]
  BY <1>1 DEF FreeEphemeralRegion, FreeConfig, Destroy, APIInv, OwnInv, APITypeOK,
              IInv, TypeOK
<1>3. APITypeOK'
  BY <1>1 DEF FreeEphemeralRegion, FreeConfig, Destroy, APIInv, OwnInv, APITypeOK
<1>4. ConfigOwnership'
  <2>1. /\ bitmap = {config[q] : q \in {p \in Regions : Held(p)}}
        /\ \A p, q \in Regions : Held(p) /\ config[p] = config[q] => p = q
        /\ \A c \in Configs : reset[c] <=> c \notin bitmap \cup leftover
        /\ bitmap \cap leftover = {}
    BY DEF APIInv, OwnInv, ConfigOwnership
  <2>2. {config'[q] : q \in {p \in Regions : config'[p] # None}}
           = {config[q] : q \in {p \in Regions : Held(p)}} \ {config[r]}
    BY <1>1, <1>2, <2>1 DEF Held
  <2>3. \A p, q \in Regions :
           config'[p] # None /\ config'[p] = config'[q] => p = q
    BY <1>2, <2>1 DEF Held
  <2>4. \A c \in Configs : reset'[c] <=> c \notin bitmap' \cup leftover'
    BY <1>1, <1>2, <2>1
  <2>. QED
    BY <1>1, <2>1, <2>2, <2>3, <2>4 DEF ConfigOwnership, Held
<1>5. WindowInsideBlock'
  BY <1>1, <1>2 DEF APIInv, OwnInv, WindowInsideBlock, Held, StartReg, SizeReg
<1>6. ClonesAgree'
  BY <1>2 DEF APIInv, OwnInv, ClonesAgree, Held
<1>7. MappedPagesRegistered'
  BY <1>1, <1>2 DEF APIInv, OwnInv, MappedPagesRegistered, Held, PhysReg
<1>8. ProgramStaysBound'
  BY <1>1, <1>2 DEF APIInv, OwnInv, ProgramStaysBound, Held
<1>. QED
  BY <1>3, <1>4, <1>5, <1>6, <1>7, <1>8 DEF OwnInv

(* A remapped region registers its pages under its own configuration.      *)
LEMMA SyncStep ==
    ASSUME APIInv, stopped = "no", NEW r \in Regions, Sync(r)
    PROVE  OwnInv'
<1>1. PICK page \in FreshPages :
        /\ mapped' = [mapped EXCEPT ![r] = page]
        /\ dtu' = [dtu EXCEPT ![PhysReg(config[r])] = page]
  BY DEF Sync
<1>2. /\ Held(r)
      /\ UNCHANGED <<vars, bitmap, config, size, uncached, bound, reset, agu, leftover,
                     ralloc, error, stopped>>
      /\ live' = live
  BY DEF Sync, vars
<1>3. page \in Pages /\ page # None
  BY ConfigAssumption DEF FreshPages
<1>4. /\ \A q \in Regions : mapped'[q] = IF q = r THEN page ELSE mapped[q]
      /\ MaxConfigs \in Nat
      /\ DOMAIN dtu = 0 .. 3 * MaxConfigs - 1
      /\ \A q \in Regions : Held(q) => config[q] \in 0 .. MaxConfigs - 1
      /\ \A q \in Regions : Held(q) /\ q # r => config[q] # config[r]
  BY <1>1, <1>2, ConfigAssumption
     DEF APIInv, OwnInv, APITypeOK, ConfigOwnership, Configs, Held
<1>5. ASSUME NEW q \in Regions, Held(q)
      PROVE  /\ dtu'[StartReg(config[q])] = dtu[StartReg(config[q])]
             /\ dtu'[SizeReg(config[q])] = dtu[SizeReg(config[q])]
             /\ dtu'[PhysReg(config[q])]
                   = IF q = r THEN page ELSE dtu[PhysReg(config[q])]
  <2>1. /\ StartReg(config[q]) # PhysReg(config[r])
        /\ SizeReg(config[q]) # PhysReg(config[r])
        /\ q # r => PhysReg(config[q]) # PhysReg(config[r])
        /\ {StartReg(config[q]), SizeReg(config[q]), PhysReg(config[q])}
              \subseteq DOMAIN dtu
    BY <1>2, <1>4, <1>5 DEF StartReg, SizeReg, PhysReg
  <2>. QED
    BY <1>1, <2>1
<1>6. APITypeOK'
  BY <1>1, <1>2, <1>3 DEF APIInv, OwnInv, APITypeOK
<1>7. ConfigOwnership' /\ ClonesAgree'
  BY <1>2 DEF APIInv, OwnInv, ConfigOwnership, ClonesAgree, Held
<1>8. WindowInsideBlock'
  BY <1>2, <1>5 DEF APIInv, OwnInv, WindowInsideBlock, Held, StartReg, SizeReg
<1>9. MappedPagesRegistered'
  <2>1. ASSUME NEW q \in Regions, mapped'[q] # None
        PROVE  Held(q) /\ dtu'[PhysReg(config[q])] = mapped'[q]
    BY <1>2, <1>4, <1>5, <2>1 DEF APIInv, OwnInv, MappedPagesRegistered
  <2>. QED
    BY <1>2, <2>1 DEF MappedPagesRegistered, Held, PhysReg
<1>10. ProgramStaysBound'
  BY <1>2 DEF APIInv, OwnInv, ProgramStaysBound, Held
<1>. QED
  BY <1>6, <1>7, <1>8, <1>9, <1>10 DEF OwnInv

(* A program written for one region reaches no other region's page.        *)
LEMMA ProgramStep ==
    ASSUME APIInv, stopped = "no", NEW r \in Regions, Held(r),
           NEW p \in Programs, Program(r, p), ralloc' \in Programs \cup {None},
           UNCHANGED <<vars, bitmap, config, size, mapped, uncached, reset, dtu, leftover,
                       error>>
    PROVE  OwnInv'
<1>1. PICK w \in {p, None} :
        /\ agu' = [agu EXCEPT ![config[r]] = w]
        /\ bound' = [bound EXCEPT ![r] = w]
        /\ stopped' = IF w = p THEN stopped ELSE "assert"
  BY DEF Program
<1>2. live' = live /\ (stopped' = "no" => stopped = "no")
  BY <1>1 DEF vars
<1>3. APITypeOK'
  BY <1>1 DEF APIInv, OwnInv, APITypeOK
<1>4. ConfigOwnership' /\ ClonesAgree'
  BY <1>2 DEF APIInv, OwnInv, ConfigOwnership, ClonesAgree, Held
<1>5. WindowInsideBlock' /\ MappedPagesRegistered'
  BY <1>2 DEF APIInv, OwnInv, WindowInsideBlock, MappedPagesRegistered, Held,
              StartReg, SizeReg, PhysReg
<1>6. ProgramStaysBound'
  <2>1. /\ \A q \in Regions : bound'[q] = IF q = r THEN w ELSE bound[q]
        /\ config[r] \in Configs
        /\ agu'[config[r]] = w
        /\ \A c \in Configs : c # config[r] => agu'[c] = agu[c]
    BY <1>1 DEF APIInv, OwnInv, APITypeOK, Held
  <2>2. ASSUME NEW q \in Regions, bound'[q] # None
        PROVE  Held(q) /\ agu'[config[q]] = bound'[q]
    <3>1. CASE q = r
      BY <2>1, <3>1
    <3>2. CASE q # r
      <4>1. Held(q) /\ agu[config[q]] = bound[q] /\ bound'[q] = bound[q]
        BY <2>1, <2>2, <3>2 DEF APIInv, OwnInv, ProgramStaysBound
      <4>2. config[q] \in Configs /\ config[q] # config[r]
        BY <3>2, <4>1 DEF APIInv, OwnInv, APITypeOK, ConfigOwnership, Held
      <4>. QED
        BY <2>1, <4>1, <4>2
    <3>. QED
      BY <3>1, <3>2
  <2>. QED
    BY <2>2 DEF ProgramStaysBound, Held
<1>. QED
  BY <1>3, <1>4, <1>5, <1>6 DEF OwnInv

(* A call that changes no region and no register.                          *)
LEMMA QuietStep ==
    ASSUME APIInv, UNCHANGED <<vars, bitmap, regionVars, deviceVars>>,
           ralloc' \in Programs \cup {None},
           error' = error,
           stopped' \in {"no", "config", "killed", "assert", "exit", "crash"},
           stopped' = "no" => stopped = "no"
    PROVE  OwnInv'
<1> USE DEF APIInv, OwnInv, vars, regionVars, deviceVars, Held
<1>1. APITypeOK'
  BY DEF APITypeOK
<1>2. ConfigOwnership' /\ ClonesAgree'
  BY DEF ConfigOwnership, ClonesAgree
<1>3. WindowInsideBlock' /\ MappedPagesRegistered' /\ ProgramStaysBound'
  BY DEF WindowInsideBlock, MappedPagesRegistered, ProgramStaysBound,
         StartReg, SizeReg, PhysReg
<1>. QED
  BY <1>1, <1>2, <1>3

(* A new process owns nothing, whatever the device holds.                  *)
LEMMA RestartStep ==
    ASSUME OwnInv, Restart
    PROVE  OwnInv'
<1>1. /\ \A r \in Regions : /\ config'[r] = None /\ mapped'[r] = None
                             /\ bound'[r] = None
      /\ bitmap' = {} /\ reset' = reset
      /\ leftover' = {c \in Configs : ~reset[c]}
  BY DEF Restart, EmptyBitmap
<1>2. APITypeOK'
  BY DEF Restart, EmptyBitmap, OwnInv, APITypeOK
<1>3. ConfigOwnership'
  <2>1. {config'[r] : r \in {q \in Regions : config'[q] # None}} = {}
    BY <1>1
  <2>. QED
    BY <1>1, <2>1 DEF ConfigOwnership, Held
<1>4. WindowInsideBlock' /\ ClonesAgree' /\ MappedPagesRegistered' /\ ProgramStaysBound'
  BY <1>1 DEF WindowInsideBlock, ClonesAgree, MappedPagesRegistered,
              ProgramStaysBound, Held
<1>. QED
  BY <1>2, <1>3, <1>4 DEF OwnInv

-----------------------------------------------------------------------------
(* The invariant of the API.                                               *)

LEMMA APIInitInvariant == APIInit => APIInv
<1> SUFFICES ASSUME APIInit PROVE APIInv
  OBVIOUS
<1>1. IInv
  BY InitInvariant DEF APIInit
<1>2. /\ \A r \in Regions : config[r] = None /\ mapped[r] = None /\ bound[r] = None
      /\ bitmap = {} /\ leftover = {} /\ \A c \in Configs : reset[c]
  BY DEF APIInit
<1>3. APITypeOK
  BY DEF APIInit, APITypeOK
<1>4. ConfigOwnership
  BY <1>2 DEF ConfigOwnership, Held
<1>5. WindowInsideBlock /\ ClonesAgree /\ MappedPagesRegistered /\ ProgramStaysBound
  BY <1>2 DEF WindowInsideBlock, ClonesAgree, MappedPagesRegistered,
              ProgramStaysBound, Held
<1>. QED
  BY <1>1, <1>3, <1>4, <1>5 DEF APIInv, OwnInv

(* Every call keeps the invariant of the API.                              *)
LEMMA APINextInvariant == APIInv /\ [APINext]_apiVars => APIInv'
<1> SUFFICES ASSUME APIInv, [APINext]_apiVars PROVE APIInv'
  OBVIOUS
<1>1. IInv'
  BY CallIsAllocatorStep, NextInvariant, InitInvariantNext DEF APIInv
<1>2. OwnInv'
  <2>1. CASE UNCHANGED apiVars
    <3>1. /\ UNCHANGED <<vars, bitmap, regionVars, deviceVars>>
          /\ ralloc' = ralloc /\ error' = error /\ stopped' = stopped
      BY <2>1 DEF apiVars
    <3>. QED
      BY <3>1, QuietStep DEF APIInv, OwnInv, APITypeOK
  <2>2. CASE stopped = "no" /\ Call
    <3>1. stopped = "no"
      BY <2>2
    <3>2. PICK r \in Regions :
             \/ \E request \in Requests : AllocEphemeralRegion(r, request)
             \/ \E q \in Regions : CloneEphemeralRegion(r, q)
             \/ FreeEphemeralRegion(r)
             \/ Sync(r)
             \/ \E p \in Programs : Compile(p)
             \/ ProgramHardware(r)
             \/ \E p \in Programs : CompileAndProgramHardware(p, r)
      BY <2>2 DEF Call
    <3>3. ASSUME NEW request \in Requests, AllocEphemeralRegion(r, request)
          PROVE  OwnInv'
      BY <3>1, <3>3, AllocRegionStep
    <3>4. ASSUME NEW q \in Regions, CloneEphemeralRegion(r, q)
          PROVE  OwnInv'
      BY <3>1, <3>4, CloneRegionStep
    <3>5. ASSUME FreeEphemeralRegion(r) PROVE OwnInv'
      BY <3>1, <3>5, FreeRegionStep
    <3>6. ASSUME Sync(r) PROVE OwnInv'
      BY <3>1, <3>6, SyncStep
    <3>7. ASSUME NEW p \in Programs, Compile(p) PROVE OwnInv'
      <4>1. /\ UNCHANGED <<vars, bitmap, regionVars, deviceVars, error>>
            /\ ralloc' \in {ralloc, p} /\ stopped' \in {stopped, "exit"}
        BY <3>7 DEF Compile
      <4>. QED
        BY <3>1, <4>1, QuietStep DEF APIInv, OwnInv, APITypeOK
    <3>8. ASSUME ProgramHardware(r) PROVE OwnInv'
      <4>1. /\ Held(r) /\ ralloc' = ralloc /\ ralloc \in Programs \cup {None}
            /\ UNCHANGED <<vars, bitmap, config, size, mapped, uncached, reset, dtu,
                           leftover, ralloc, error>>
        BY <3>8 DEF ProgramHardware, APIInv, OwnInv, APITypeOK
      <4>2. CASE ralloc = None /\ stopped' = "crash" /\ UNCHANGED <<agu, bound>>
        BY <3>1, <4>1, <4>2, QuietStep DEF regionVars, deviceVars
      <4>3. CASE ralloc # None /\ Program(r, ralloc)
        BY <3>1, <4>1, <4>3, ProgramStep
      <4>. QED
        BY <3>8, <4>2, <4>3 DEF ProgramHardware
    <3>9. ASSUME NEW p \in Programs, CompileAndProgramHardware(p, r) PROVE OwnInv'
      BY <3>1, <3>9, ProgramStep DEF CompileAndProgramHardware
    <3>. QED
      BY <3>2, <3>3, <3>4, <3>5, <3>6, <3>7, <3>8, <3>9
  <2>3. CASE Restart
    BY <2>3, RestartStep DEF APIInv
  <2>. QED
    BY <2>1, <2>2, <2>3 DEF APINext
<1>. QED
  BY <1>1, <1>2 DEF APIInv

(* The invariant of the API holds in every reachable state.                *)
LEMMA APIInvariance == APISpec => []APIInv
  BY APIInitInvariant, APINextInvariant, PTL DEF APISpec

(* The window of a region is the prefix of its block of the region's size, *)
(* so that disjoint blocks have disjoint windows.                          *)
LEMMA InvariantSeparatesWindows == APIInv => WindowsDisjoint
<1> SUFFICES ASSUME APIInv, NEW r \in Regions, NEW q \in Regions, Held(r), Held(q)
             PROVE  \/ /\ live[r] = live[q]
                       /\ [off |-> dtu[StartReg(config[r])], size |-> dtu[SizeReg(config[r])]]
                           = [off |-> dtu[StartReg(config[q])], size |-> dtu[SizeReg(config[q])]]
                    \/ /\ live[r] # live[q]
                       /\ Disjoint([off |-> dtu[StartReg(config[r])],
                                    size |-> dtu[SizeReg(config[r])]],
                                   [off |-> dtu[StartReg(config[q])],
                                    size |-> dtu[SizeReg(config[q])]])
  BY DEF WindowsDisjoint
<1>1. /\ live[r] # NoBlock /\ live[q] # NoBlock
      /\ dtu[StartReg(config[r])] = live[r].off
      /\ dtu[StartReg(config[q])] = live[q].off
      /\ dtu[SizeReg(config[r])] = size[r] /\ size[r] <= live[r].size
      /\ dtu[SizeReg(config[q])] = size[q] /\ size[q] <= live[q].size
  BY DEF APIInv, OwnInv, WindowInsideBlock
<1>2. /\ live[r] \in Block /\ live[q] \in Block
      /\ size[r] \in Nat /\ size[q] \in Nat
  <2>1. live \in [Regions -> Block \cup {NoBlock}]
    BY DEF APIInv, IInv, TypeOK
  <2>2. size \in [Regions -> Powers \cup {0}]
    BY DEF APIInv, OwnInv, APITypeOK
  <2>3. Powers \cup {0} \subseteq Nat
    BY PowersAssumption
  <2>4. live[r] \in Block /\ live[q] \in Block
    BY <1>1, <2>1
  <2>5. size[r] \in Powers \cup {0} /\ size[q] \in Powers \cup {0}
    BY <2>2
  <2>. QED
    BY <2>3, <2>4, <2>5
<1>3. CASE live[r] = live[q]
  BY <1>1, <1>3 DEF APIInv, OwnInv, ClonesAgree
<1>4. CASE live[r] # live[q]
  <2>1. Disjoint(live[r], live[q])
    BY <1>1, <1>4, InvariantImplies DEF APIInv, LiveBlocksDisjoint
  <2>2. /\ live[r].off \in Nat /\ live[r].size \in Nat
        /\ live[q].off \in Nat /\ live[q].size \in Nat
    BY <1>2, BlockFields
  <2>. QED
    BY <1>1, <1>2, <1>4, <2>1, <2>2 DEF Disjoint
<1>. QED
  BY <1>3, <1>4

-----------------------------------------------------------------------------
(* The theorems.                                                           *)

(* The state of the API keeps its types, error and process state included. *)
THEOREM APITypeCorrectness == APISpec => []APITypeOK
<1>1. APIInv => APITypeOK
  BY DEF APIInv, OwnInv
<1>. QED
  BY <1>1, APIInvariance, PTL

(* A configuration belongs to one region, and is out of reset only then.   *)
THEOREM ConfigsHaveOneOwner == APISpec => []ConfigOwnership
<1>1. APIInv => ConfigOwnership
  BY DEF APIInv, OwnInv
<1>. QED
  BY <1>1, APIInvariance, PTL

(* The device's window of a region lies in the region's block.             *)
THEOREM WindowsStayInside == APISpec => []WindowInsideBlock
<1>1. APIInv => WindowInsideBlock
  BY DEF APIInv, OwnInv
<1>. QED
  BY <1>1, APIInvariance, PTL

(* The device never serves one byte of backing memory to two regions that  *)
(* are not clones of one another.                                          *)
THEOREM WindowsNeverOverlap == APISpec => []WindowsDisjoint
  BY InvariantSeparatesWindows, APIInvariance, PTL

(* The device finds a mapped region's pages under its configuration.       *)
THEOREM MappedPagesStay == APISpec => []MappedPagesRegistered
<1>1. APIInv => MappedPagesRegistered
  BY DEF APIInv, OwnInv
<1>. QED
  BY <1>1, APIInvariance, PTL

(* A handle is left with a block and no object only by a call that fails,  *)
(* and a call fails for want of a configuration only when the regions have *)
(* all of them: the bits set are the regions' configurations, and the      *)
(* first clear bit is the least one.                                       *)
THEOREM OrphansComeFromFailures == APISpec => OrphanedOnlyByFailure
<1> DEFINE Failed == \/ NoneLeft /\ (error' = "config" \/ stopped' = "config")
                     \/ stopped' = "killed"
           Step == \A r \in Regions : Orphaned(r)' /\ ~Orphaned(r) => Failed
<1>1. APIInv /\ [APINext]_apiVars => [Step]_apiVars
  <2> SUFFICES ASSUME APIInv, APINext,
                      NEW q \in Regions, live'[q] # NoBlock, config'[q] = None,
                      live[q] = NoBlock \/ config[q] # None
               PROVE  Failed
    BY DEF Orphaned, Held
  <2> USE DEF Held
  <2>1. /\ live \in [Regions -> Block \cup {NoBlock}]
        /\ config \in [Regions -> Configs \cup {None}]
        /\ None \notin Configs
    BY ConfigAssumption DEF APIInv, OwnInv, APITypeOK, IInv, TypeOK, Configs
  <2>2. CASE Restart
    BY <2>2 DEF Restart
  <2>3. CASE stopped = "no" /\ Call
    <3>1. bitmap = Taken
      BY <2>3 DEF APIInv, OwnInv, ConfigOwnership, Taken
    <3>2. ASSUME NEW r \in Regions, NEW b, live' = [live EXCEPT ![r] = b],
                 NEW off, NEW bytes, AllocateConfig(r, off, bytes)
          PROVE  Failed
      <4>1. CASE ClearBits = {}
        BY <3>1, <3>2, <4>1 DEF AllocateConfig, SetError, ClearBits, NoneLeft
      <4>2. CASE ClearBits # {} /\ FirstClear >= MaxConfigs /\ stopped' = "config"
        <5>1. FirstClear \in ClearBits /\ \A d \in ClearBits : FirstClear <= d
          BY <4>2, FirstClearLeast
        <5>2. Configs \subseteq bitmap
          BY <4>2, <5>1, ConfigAssumption DEF ClearBits, Configs
        <5>. QED
          BY <3>1, <4>2, <5>2 DEF NoneLeft
      <4>3. CASE ClearBits # {} /\ Constructed(r, off, bytes, FirstClear)
        <5>1. FirstClear \in Nat /\ config' = [config EXCEPT ![r] = FirstClear]
          BY <4>3, FirstClearType, ConfigAssumption DEF ClearBits, Constructed
        <5>. QED
          BY <2>1, <3>2, <5>1, ConfigAssumption
      <4>4. CASE Interrupted(off, bytes, FirstClear)
        BY <4>4 DEF Interrupted
      <4>. QED
        BY <3>2, <4>1, <4>2, <4>3, <4>4 DEF AllocateConfig
    <3>3. PICK r \in Regions :
             \/ \E request \in Requests : AllocEphemeralRegion(r, request)
             \/ \E p \in Regions : CloneEphemeralRegion(r, p)
             \/ FreeEphemeralRegion(r)
             \/ Sync(r)
             \/ \E p \in Programs : Compile(p)
             \/ ProgramHardware(r)
             \/ \E p \in Programs : CompileAndProgramHardware(p, r)
      BY <2>3 DEF Call
    <3>4. ASSUME UNCHANGED <<vars, config>> PROVE FALSE
      BY <3>4 DEF vars
    <3>5. ASSUME NEW request \in Requests, AllocEphemeralRegion(r, request)
          PROVE  Failed
      <4> DEFINE bytes == SizeClass(request)
      <4>1. CASE Reached(bytes) = {}
        BY <3>4, <3>5, <4>1 DEF AllocEphemeralRegion, AllocNode, vars, regionVars
      <4>2. CASE Reached(bytes) # {}
        BY <3>2, <3>5, <4>2 DEF AllocEphemeralRegion, AllocNode
      <4>. QED
        BY <4>1, <4>2
    <3>6. ASSUME NEW p \in Regions, CloneEphemeralRegion(r, p)
          PROVE  Failed
      BY <3>2, <3>6 DEF CloneEphemeralRegion, FindAndIncNode
    <3>7. ASSUME FreeEphemeralRegion(r) PROVE FALSE
      <4>1. /\ live' = [live EXCEPT ![r] = NoBlock]
            /\ config' = [config EXCEPT ![r] = None]
        BY <3>7 DEF FreeEphemeralRegion, FreeNode, Destroy
      <4>. QED
        BY <2>1, <4>1
    <3>. QED
      BY <3>3, <3>4, <3>5, <3>6, <3>7
         DEF Sync, Compile, ProgramHardware, CompileAndProgramHardware, regionVars
  <2>. QED
    BY <2>2, <2>3 DEF APINext
<1>. QED
  BY <1>1, APIInvariance, PTL DEF APISpec, OrphanedOnlyByFailure

(* A region keeps its program whatever is done to other regions.           *)
THEOREM ProgramsStayBound == APISpec => []ProgramStaysBound
<1>1. APIInv => ProgramStaysBound
  BY DEF APIInv, OwnInv
<1>. QED
  BY <1>1, APIInvariance, PTL

-----------------------------------------------------------------------------
(* The API and the device implement the service of regions.                *)

(* What the device does for r, in terms of the objects of the process.     *)
ServiceOf(r) ==
    IF Held(r)
    THEN [window |-> [off |-> live[r].off, size |-> size[r]],
          pages |-> mapped[r], program |-> bound[r]]
    ELSE Service!Idle

Services == [r \in Regions |-> ServiceOf(r)]

(* The registers say what the objects say.                                 *)
LEMMA RegistersSayService == APIInv => Served = Services
<1> SUFFICES ASSUME APIInv, NEW r \in Regions PROVE Served[r] = ServiceOf(r)
  BY DEF Served, Services
<1>1. CASE Held(r)
  <2>1. dtu[StartReg(config[r])] = live[r].off /\ dtu[SizeReg(config[r])] = size[r]
    BY <1>1 DEF APIInv, OwnInv, WindowInsideBlock
  <2>2. mapped[r] # None => dtu[PhysReg(config[r])] = mapped[r]
    BY DEF APIInv, OwnInv, MappedPagesRegistered
  <2>3. bound[r] # None => agu[config[r]] = bound[r]
    BY DEF APIInv, OwnInv, ProgramStaysBound
  <2>. QED
    BY <1>1, <2>1, <2>2, <2>3 DEF Served, ServiceOf
<1>2. CASE ~Held(r)
  BY <1>2 DEF Served, ServiceOf, Service!Idle
<1>. QED
  BY <1>1, <1>2

(* A handle is served exactly while the process holds a region by it.      *)
LEMMA ServingIsHeld ==
    ASSUME APIInv, NEW r \in Regions
    PROVE  /\ Served[r] = ServiceOf(r)
           /\ Service!Serving(r) <=> Held(r)
           /\ Held(r) => live[r] # NoBlock
           /\ ~Held(r) => mapped[r] = None /\ bound[r] = None
<1>1. Served[r] = ServiceOf(r)
  BY RegistersSayService DEF Services
<1>2. ASSUME Held(r) PROVE size[r] # 0 /\ live[r] # NoBlock
  <2>1. 0 < size[r] /\ live[r] # NoBlock
    BY <1>2 DEF APIInv, OwnInv, WindowInsideBlock
  <2>. QED
    BY <2>1
<1>3. Service!Serving(r) <=> Held(r)
  BY <1>1, <1>2 DEF Service!Serving, ServiceOf, Service!Idle
<1>4. ~Held(r) => mapped[r] = None /\ bound[r] = None
  BY DEF APIInv, OwnInv, MappedPagesRegistered, ProgramStaysBound
<1>. QED
  BY <1>1, <1>2, <1>3, <1>4

(* Pages no region has mapped are pages no other handle is served through. *)
LEMMA FreshPagesServe ==
    ASSUME APIInv, NEW r \in Regions, NEW page \in FreshPages
    PROVE  page \in Service!PagesFor(r)
<1>1. ASSUME NEW q \in Regions, Service!Serving(q) PROVE Served[q].pages # page
  <2>1. Served[q] = ServiceOf(q) /\ Held(q)
    BY <1>1, ServingIsHeld
  <2>2. Served[q].pages = mapped[q]
    BY <2>1 DEF ServiceOf
  <2>. QED
    BY <2>2 DEF FreshPages
<1>. QED
  BY <1>1 DEF Service!PagesFor, FreshPages

(* The registers of the next state say what its objects say.               *)
LEMMA RegistersSayServiceNext == APIInv' => Served' = Services'
<1> DEFINE Match == Served = Services
<1>1. APIInv => Match
  BY RegistersSayService
<1>2. APIInv' => Match'
  <2> HIDE DEF Match
  <2>. QED
    BY <1>1, PTL
<1>. QED
  BY <1>2

(* A step that leaves every other region as it is changes no other service.*)
LEMMA OthersAreServed ==
    ASSUME APIInv, APIInv', NEW r \in Regions,
           \A q \in Regions \ {r} :
               /\ config'[q] = config[q] /\ size'[q] = size[q]
               /\ mapped'[q] = mapped[q] /\ bound'[q] = bound[q]
               /\ live'[q] = live[q]
    PROVE  Served' = [Served EXCEPT ![r] = ServiceOf(r)']
<1>1. Served' = [q \in Regions |-> ServiceOf(q)']
  BY RegistersSayServiceNext DEF Services
<1>2. Served = [q \in Regions |-> ServiceOf(q)]
  BY RegistersSayService DEF Services
<1>3. \A q \in Regions \ {r} : ServiceOf(q)' = ServiceOf(q)
  BY DEF ServiceOf, Held, Service!Idle
<1>4. [q \in Regions |-> ServiceOf(q)']
        = [[q \in Regions |-> ServiceOf(q)] EXCEPT ![r] = ServiceOf(r)']
  BY <1>3
<1>. QED
  BY <1>1, <1>2, <1>4

(* A step that leaves every region as it is, except a block for a handle   *)
(* that holds no region, changes no service.                               *)
LEMMA NobodyIsServed ==
    ASSUME APIInv, APIInv', UNCHANGED <<config, size, mapped, bound>>,
           \A q \in Regions : Held(q) => live'[q] = live[q]
    PROVE  UNCHANGED Served
<1>1. \A q \in Regions : ServiceOf(q)' = ServiceOf(q)
  BY DEF ServiceOf, Held, Service!Idle
<1>. QED
  BY <1>1, RegistersSayService, RegistersSayServiceNext DEF Services

(* A region that receives a configuration is served a window at the start  *)
(* of its block, or nobody is served anything new.                         *)
LEMMA ConfigurationServes ==
    ASSUME APIInv, APIInv', NEW r \in Regions, live[r] = NoBlock,
           NEW b \in Block, live' = [live EXCEPT ![r] = b],
           NEW off, NEW bytes, AllocateConfig(r, off, bytes)
    PROVE  \/ UNCHANGED Served
           \/ /\ Service!Serve(r, [off |-> b.off, size |-> bytes])
              /\ Held(r)' /\ size'[r] = bytes /\ live'[r] = b
<1>1. /\ live \in [Regions -> Block \cup {NoBlock}]
      /\ config \in [Regions -> Configs \cup {None}]
      /\ size \in [Regions -> Powers \cup {0}]
      /\ mapped \in [Regions -> Pages \cup {None}]
  BY DEF APIInv, OwnInv, APITypeOK, IInv, TypeOK
<1>2. ~Held(r) /\ mapped[r] = None /\ bound[r] = None /\ ~Service!Serving(r)
  BY ServingIsHeld
<1>3. live'[r] = b /\ \A q \in Regions \ {r} : live'[q] = live[q]
  BY <1>1
<1>4. CASE UNCHANGED regionVars
  <2>1. \A q \in Regions : Held(q) => live'[q] = live[q]
    BY <1>2, <1>3
  <2>. QED
    BY <1>4, <2>1, NobodyIsServed DEF regionVars
<1>5. CASE ClearBits # {} /\ Constructed(r, off, bytes, FirstClear)
  <2>1. /\ config' = [config EXCEPT ![r] = FirstClear]
        /\ size' = [size EXCEPT ![r] = bytes]
        /\ bound' = bound
    BY <1>5 DEF Constructed
  <2>2. FirstClear # None
    BY <1>5, FirstClearType, ConfigAssumption DEF ClearBits
  <2>3. Held(r)' /\ size'[r] = bytes
    BY <1>1, <2>1, <2>2 DEF Held
  <2>4. PICK pages \in FreshPages \cup {None} : mapped' = [mapped EXCEPT ![r] = pages]
    <3>1. mapped = [mapped EXCEPT ![r] = None]
      BY <1>1, <1>2
    <3>. QED
      BY <1>5, <3>1 DEF Constructed
  <2>5. pages \in Service!PagesFor(r) \cup {None}
    BY <2>4, FreshPagesServe
  <2>6. ServiceOf(r)' = [window |-> [off |-> b.off, size |-> bytes],
                         pages |-> pages, program |-> None]
    BY <1>1, <1>2, <1>3, <2>1, <2>3, <2>4 DEF ServiceOf
  <2>7. Served' = [Served EXCEPT ![r] = ServiceOf(r)']
    <3>1. \A q \in Regions \ {r} :
             /\ config'[q] = config[q] /\ size'[q] = size[q]
             /\ mapped'[q] = mapped[q] /\ bound'[q] = bound[q]
             /\ live'[q] = live[q]
      BY <1>1, <1>3, <2>1, <2>4
    <3>. QED
      BY <3>1, OthersAreServed
  <2>. QED
    BY <1>2, <1>3, <2>3, <2>5, <2>6, <2>7 DEF Service!Serve
<1>. QED
  BY <1>4, <1>5 DEF AllocateConfig, Interrupted

(* Every step of the API is a step of the service.                         *)
LEMMA StepServes == APIInv /\ APIInv' /\ [APINext]_apiVars => [Service!Next]_Served
<1> SUFFICES ASSUME APIInv, APIInv', [APINext]_apiVars PROVE [Service!Next]_Served
  OBVIOUS
<1>0. /\ live \in [Regions -> Block \cup {NoBlock}]
      /\ config \in [Regions -> Configs \cup {None}]
      /\ size \in [Regions -> Powers \cup {0}]
      /\ mapped \in [Regions -> Pages \cup {None}]
      /\ bound \in [Regions -> Programs \cup {None}]
      /\ None \notin Configs
  BY ConfigAssumption DEF APIInv, OwnInv, APITypeOK, IInv, TypeOK, Configs
<1>1. ASSUME UNCHANGED <<config, size, mapped, bound, live>> PROVE UNCHANGED Served
  BY <1>1, NobodyIsServed
<1>2. ASSUME NEW r \in Regions, NEW request \in Requests, AllocEphemeralRegion(r, request)
      PROVE  [Service!Next]_Served
  <2> DEFINE bytes == SizeClass(request)
             b == Allocated(FirstFit(bytes), bytes)
  <2>1. CASE Reached(bytes) = {}
    BY <1>1, <1>2, <2>1 DEF AllocEphemeralRegion, AllocNode, regionVars, vars
  <2>2. CASE Reached(bytes) # {}
    <3>1. bytes \in Sizes /\ FirstFit(bytes) \in Reached(bytes)
      BY <2>2, SizeClassType, FirstFitReached DEF APIInv, IInv
    <3>2. /\ b \in Block /\ b.off = FirstFit(bytes).off
          /\ FirstFit(bytes) \in Block
          /\ FirstFit(bytes).off + FirstFit(bytes).size <= BackingSize
          /\ bytes <= FirstFit(bytes).size
      BY <3>1 DEF APIInv, IInv, TypeOK, Reached, Block, Allocated
    <3>3. /\ live[r] = NoBlock /\ live' = [live EXCEPT ![r] = b]
          /\ count' = CountAfterAlloc(FirstFit(bytes), bytes)
          /\ AllocateConfig(r, FirstFit(bytes).off, RegionSize(request))
      BY <1>2, <2>2 DEF AllocEphemeralRegion, AllocNode
    <3>4. CASE UNCHANGED Served
      BY <3>4
    <3>5. CASE /\ Service!Serve(r, [off |-> b.off, size |-> RegionSize(request)])
               /\ Held(r)' /\ size'[r] = RegionSize(request) /\ live'[r] = b
      <4> DEFINE w == [off |-> b.off, size |-> RegionSize(request)]
      <4>1. /\ RegionSize(request) \in Nat /\ 0 < RegionSize(request)
            /\ RegionSize(request) <= bytes
        <5>1. RegionSize(request) \in Powers /\ RegionSize(request) <= SizeClass(request)
          BY RegionSizeFits
        <5>2. RegionSize(request) \in Nat /\ RegionSize(request) # 0
          BY <5>1, PowersAssumption
        <5>. QED
          BY <5>1, <5>2
      <4>2. /\ FirstFit(bytes).off \in Nat /\ FirstFit(bytes).size \in Nat
            /\ bytes \in Nat /\ BackingSize \in Nat
        BY <3>1, <3>2, BlockFields, SizesAssumption
      <4>3. w \in Service!Windows
        <5>1. b.off \in 0 .. BackingSize /\ RegionSize(request) \in 1 .. BackingSize
              /\ b.off + RegionSize(request) <= BackingSize
          <6> HIDE DEF bytes, b
          <6>. QED
            BY <3>2, <4>1, <4>2
        <5>. QED
          BY <5>1 DEF Service!Windows
      <4>4. ASSUME NEW q \in Regions, Service!Serving(q)
            PROVE  Service!Apart(w, Served[q].window)
        <5>0. Held(q) /\ live[q] # NoBlock /\ Served[q] = ServiceOf(q)
          BY <4>4, ServingIsHeld
        <5>1. /\ Held(q) /\ live[q] # NoBlock
              /\ Served[q].window = [off |-> live[q].off, size |-> size[q]]
          BY <5>0 DEF ServiceOf
        <5>2. size[q] <= live[q].size /\ size[q] \in Nat
          <6>1. size[q] <= live[q].size
            BY <5>0 DEF APIInv, OwnInv, WindowInsideBlock
          <6>2. size[q] \in Powers \cup {0}
            BY <1>0
          <6>3. Powers \cup {0} \subseteq Nat
            BY PowersAssumption
          <6>4. size[q] \in Nat
            BY <6>2, <6>3
          <6>. QED
            BY <6>1, <6>4
        <5>3. Disjoint(b, live[q])
          BY <3>1, <3>3, <5>1, AllocStep DEF APIInv
        <5>4. live[q].off \in Nat /\ live[q].size \in Nat
          BY <1>0, <5>1, BlockFields
        <5>5. b.off \in Nat /\ b.size = bytes
          BY <3>2, <4>2 DEF Allocated
        <5> HIDE DEF b, bytes
        <5>. QED
          BY <4>1, <4>2, <5>1, <5>2, <5>3, <5>4, <5>5 DEF Disjoint, Service!Apart
      <4>. QED
        BY <3>5, <4>3, <4>4 DEF Service!Open, Service!Next
    <3>. QED
      BY <3>2, <3>3, <3>4, <3>5, ConfigurationServes
  <2>. QED
    BY <2>1, <2>2
<1>3. ASSUME NEW r \in Regions, NEW q \in Regions, CloneEphemeralRegion(r, q)
      PROVE  [Service!Next]_Served
  <2>1. Held(q) /\ live[q] # NoBlock /\ live[q] \in Block /\ Service!Serving(q)
    BY <1>0, <1>3, ServingIsHeld DEF CloneEphemeralRegion
  <2>2. /\ live[r] = NoBlock /\ live' = [live EXCEPT ![r] = live[q]]
        /\ AllocateConfig(r, live[q].off, size[q])
    BY <1>3 DEF CloneEphemeralRegion, FindAndIncNode
  <2>3. Served[q].window = [off |-> live[q].off, size |-> size[q]]
    <3>1. Served[q] = ServiceOf(q)
      BY ServingIsHeld
    <3>. QED
      BY <2>1, <3>1 DEF ServiceOf
  <2>4. UNCHANGED Served \/ Service!Serve(r, Served[q].window)
    <3>1. \/ UNCHANGED Served
          \/ Service!Serve(r, [off |-> live[q].off, size |-> size[q]])
      BY <2>1, <2>2, ConfigurationServes
    <3>. QED
      BY <2>3, <3>1
  <2>. QED
    BY <2>1, <2>4 DEF Service!Clone, Service!Next
<1>4. ASSUME NEW r \in Regions, FreeEphemeralRegion(r) PROVE Service!Close(r)
  <2>1. /\ Held(r) /\ config' = [config EXCEPT ![r] = None]
        /\ size' = [size EXCEPT ![r] = 0]
        /\ mapped' = [mapped EXCEPT ![r] = None]
        /\ bound' = [bound EXCEPT ![r] = None]
        /\ live' = [live EXCEPT ![r] = NoBlock]
    BY <1>4 DEF FreeEphemeralRegion, Destroy, FreeNode
  <2>2. Served' = [Served EXCEPT ![r] = ServiceOf(r)']
    BY <1>0, <2>1, OthersAreServed
  <2>3. ServiceOf(r)' = Service!Idle
    BY <1>0, <2>1 DEF ServiceOf, Held
  <2>4. Service!Serving(r)
    BY <2>1, ServingIsHeld
  <2>. QED
    BY <2>2, <2>3, <2>4 DEF Service!Close
<1>5. ASSUME NEW r \in Regions, Sync(r) PROVE Service!Move(r)
  <2>1. PICK page \in FreshPages :
           /\ Held(r) /\ mapped' = [mapped EXCEPT ![r] = page]
           /\ UNCHANGED <<vars, config, size, bound>>
    BY <1>5 DEF Sync
  <2>2. Served' = [Served EXCEPT ![r] = ServiceOf(r)']
    BY <1>0, <2>1, OthersAreServed DEF vars
  <2>3. Service!Serving(r) /\ Served[r] = ServiceOf(r)
    BY <2>1, ServingIsHeld
  <2>4. ServiceOf(r)' = [ServiceOf(r) EXCEPT !.pages = page]
    BY <1>0, <2>1 DEF ServiceOf, Held, vars
  <2>5. page \in Service!PagesFor(r)
    BY <2>1, FreshPagesServe
  <2>. QED
    BY <2>2, <2>3, <2>4, <2>5 DEF Service!Move
<1>6. ASSUME NEW r \in Regions, NEW p \in Programs, Held(r), Program(r, p),
             UNCHANGED <<vars, config, size, mapped>>
      PROVE  Service!Load(r)
  <2>1. PICK written \in {p, None} : bound' = [bound EXCEPT ![r] = written]
    BY <1>6 DEF Program
  <2>2. Served' = [Served EXCEPT ![r] = ServiceOf(r)']
    BY <1>0, <1>6, <2>1, OthersAreServed DEF vars
  <2>3. Service!Serving(r) /\ Served[r] = ServiceOf(r)
    BY <1>6, ServingIsHeld
  <2>4. ServiceOf(r)' = [ServiceOf(r) EXCEPT !.program = written]
    BY <1>0, <1>6, <2>1 DEF ServiceOf, Held, vars
  <2>. QED
    BY <2>1, <2>2, <2>3, <2>4 DEF Service!Load
<1>7. ASSUME Restart PROVE Service!Restart
  <2>1. \A r \in Regions : ServiceOf(r)' = Service!Idle
    BY <1>7 DEF Restart, ServiceOf, Held
  <2>. QED
    BY <2>1, RegistersSayServiceNext DEF Services, Service!Restart
<1>8. CASE UNCHANGED apiVars
  BY <1>1, <1>8 DEF apiVars, regionVars, vars
<1>9. CASE Call
  <2>1. PICK r \in Regions :
           \/ \E request \in Requests : AllocEphemeralRegion(r, request)
           \/ \E q \in Regions : CloneEphemeralRegion(r, q)
           \/ FreeEphemeralRegion(r)
           \/ Sync(r)
           \/ \E p \in Programs : Compile(p)
           \/ ProgramHardware(r)
           \/ \E p \in Programs : CompileAndProgramHardware(p, r)
    BY <1>9 DEF Call
  <2>2. ASSUME NEW p \in Programs, Compile(p) PROVE UNCHANGED Served
    BY <1>1, <2>2 DEF Compile, regionVars, vars
  <2>3. CASE ProgramHardware(r)
    <3>1. CASE ralloc = None
      <4>1. UNCHANGED <<config, size, mapped, bound, live>>
        BY <2>3, <3>1 DEF ProgramHardware, vars
      <4>. QED
        BY <1>1, <4>1
    <3>2. CASE ralloc # None
      <4>1. ralloc \in Programs
        BY <3>2 DEF APIInv, OwnInv, APITypeOK
      <4>2. /\ Held(r) /\ Program(r, ralloc)
            /\ UNCHANGED <<vars, config, size, mapped>>
        BY <2>3, <3>2 DEF ProgramHardware
      <4>. QED
        BY <1>6, <4>1, <4>2 DEF Service!Next
    <3>. QED
      BY <3>1, <3>2
  <2>4. ASSUME NEW p \in Programs, CompileAndProgramHardware(p, r) PROVE Service!Next
    BY <1>6, <2>4 DEF CompileAndProgramHardware, Service!Next
  <2>. QED
    BY <1>2, <1>3, <1>4, <1>5, <2>1, <2>2, <2>3, <2>4 DEF Service!Next
<1>. QED
  BY <1>7, <1>8, <1>9 DEF APINext, Service!Next

(* For every number of regions and configurations, whatever calls fail and *)
(* wherever the process ends, what the device does for the regions is a    *)
(* behaviour of the service: each call touches the service of one handle.  *)
THEOREM APIImplementsService == APISpec => ImplementsService
<1>1. APIInit => Service!Init
  BY DEF APIInit, Served, Held, Service!Init, Service!Idle
<1>2. APISpec => []([Service!Next]_Served)
  BY APIInitInvariant, APINextInvariant, StepServes, PTL DEF APISpec
<1>. QED
  BY <1>1, <1>2, PTL DEF APISpec, Service!Spec, ImplementsService

(* The allocator inside the API searches and coalesces as its walks do,    *)
(* in every state an error, a dead process or a restart leaves it in.      *)
THEOREM WalksAgreeInside == APISpec => []WalksAgree
<1>1. Init => IInv /\ Root \in tree
  BY InitInvariant DEF Init, tree
<1>2. Init' => (IInv /\ Root \in tree)'
  BY <1>1, PTL
<1>3. IInv /\ Root \in tree /\ [Next \/ Init']_vars => (IInv /\ Root \in tree)'
  BY <1>2, NextInvariant, RootStays
<1>4. IInv /\ Root \in tree => WalksAgree
  BY AllocsAgree, FindsAgree, FreesAgree DEF WalksAgree
<1>. QED
  BY <1>1, <1>3, <1>4, AllocatorInside, PTL DEF AllocatorSpec
=============================================================================
