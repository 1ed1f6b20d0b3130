------------------------------ MODULE RuntimeAPI ------------------------------
(***************************************************************************)
(* DTL::API and DTL::EphemeralRegion (dtl_api.cpp): regions, hardware      *)
(* configurations and the device registers that tie them together.         *)
(*                                                                         *)
(* A region holds a block of the backing memory (module BuddyAllocator)    *)
(* and a configuration.  The device reads, for each configuration, where   *)
(* its window of the backing memory starts, how long it is and at which    *)
(* physical pages the program sees it (the DTU page), and the program that *)
(* computes the addresses (one AGU page per configuration, with a reset    *)
(* bit).  The kernel driver that remaps a region's pages is external.      *)
(*                                                                         *)
(* live[r] of BuddyAllocator records the block a call took for r.  It      *)
(* stays there when the call then failed to get a configuration: the       *)
(* caller received nullptr and nobody can release that block.              *)
(*                                                                         *)
(* The process may end in a call or between two calls.  A new one starts   *)
(* from an empty bitmap and an empty tree, over a device whose registers   *)
(* are as the old process left them.                                       *)
(***************************************************************************)
EXTENDS BuddyAllocator

CONSTANTS Powers,       \* the values of next_power_of_two
          ConfigBits,   \* bits of m_ConfigBitmap
          MaxConfigs,   \* hwStat->nMaxConfigs
          Programs,     \* DTL programs
          Pages,        \* what the driver may map a region to
          None          \* no configuration, program or page

ASSUME PowersAssumption ==
    /\ Powers \subseteq Nat \ {0}
    /\ Sizes \subseteq Powers

ASSUME ConfigAssumption ==
    /\ ConfigBits \in Nat
    /\ MaxConfigs \in Nat
    /\ None \notin Nat \cup Programs \cup Pages

VARIABLES bitmap,       \* m_ConfigBitmap, as the set of its bits
          config,       \* config[r]: m_ConfigNum of r, None without an object
          size,         \* size[r]: m_RegionSize
          mapped,       \* mapped[r]: the pages behind m_EphemeralRegionAccess
          uncached,     \* uncached[r]: whether m_UncachedRegionAccess was set
          reset,        \* reset[c]: the reset bit of AGU page c
          agu,          \* agu[c]: the program written to AGU page c
          dtu,          \* the registers of the DTU page
          leftover,     \* configurations an earlier process left out of reset,
                        \* until this one takes them (history)
          ralloc,       \* the last program that compiled
          bound,        \* bound[r]: the program a caller gave r (history)
          error,        \* m_ErrorCode
          stopped       \* whether the process ended, and how

regionVars == <<config, size, mapped, uncached, bound>>
deviceVars == <<reset, agu, dtu, leftover>>
apiVars == <<vars, bitmap, regionVars, deviceVars, ralloc, error, stopped>>

Configs == 0 .. MaxConfigs - 1

Held(r) == config[r] # None

(* m_ErrorCode keeps the last error; no call clears it.                    *)
SetError(e) == error' = e

(* Register numbers of the UPDATE_CONFIG macros.                           *)
StartReg(c) == c
\* Faults: the register arrays overlap, or have one element.
SizeRegOverlapping(c) == MaxConfigs - 1 + c
PhysRegShared(c) == 2 * MaxConfigs

SizeReg(c)  == MaxConfigs + c
PhysReg(c)  == 2 * MaxConfigs + c

-----------------------------------------------------------------------------
(* EphemeralRegion.                                                        *)

(* Fault: the size is not rounded up. *)
RegionSizeExact(request) == request

RegionSize(request) ==
    CHOOSE p \in Powers : /\ request <= p
                          /\ \A q \in Powers : request <= q => p <= q

(* Pages the driver is free to use: no region has them mapped.             *)
FreshPages == Pages \ {mapped[r] : r \in Regions}

(* The registers of configuration c, as the constructor writes them.       *)
Window(c, bytes, off) ==
    [dtu EXCEPT ![SizeReg(c)] = bytes, ![StartReg(c)] = off]
Paged(c, bytes, off, page) ==
    [Window(c, bytes, off) EXCEPT ![PhysReg(c)] = page]

(* The constructor.  When its Sync() fails it returns early: the object    *)
(* exists, its physical register keeps what an earlier owner left there,   *)
(* and the uncached region is not mapped.                                  *)
Constructed(r, off, bytes, c) ==
    /\ config' = [config EXCEPT ![r] = c]
    /\ size' = [size EXCEPT ![r] = bytes]
    /\ \/ \E page \in FreshPages :
             /\ mapped' = [mapped EXCEPT ![r] = page]
             /\ uncached' = [uncached EXCEPT ![r] = TRUE]
             /\ dtu' = Paged(c, bytes, off, page)
       \/ /\ UNCHANGED <<mapped, uncached>>
          /\ dtu' = Window(c, bytes, off)
    /\ UNCHANGED <<bound, stopped>>

(* Its asserts, or a signal, may end the process before or after each      *)
(* register it writes.                                                     *)
Interrupted(off, bytes, c) ==
    /\ stopped' = "killed"
    /\ \/ dtu' \in {dtu, [dtu EXCEPT ![SizeReg(c)] = bytes], Window(c, bytes, off)}
       \/ \E page \in FreshPages : dtu' = Paged(c, bytes, off, page)
    /\ UNCHANGED regionVars

(* Sync(): the driver moves the region to other pages, or fails.           *)
Sync(r) ==
    /\ Held(r)
    /\ \E page \in FreshPages :
          /\ mapped' = [mapped EXCEPT ![r] = page]
          /\ dtu' = [dtu EXCEPT ![PhysReg(config[r])] = page]
    /\ UNCHANGED <<vars, bitmap, config, size, uncached, bound, reset, agu, leftover,
                   ralloc, error, stopped>>

-----------------------------------------------------------------------------
(* Regions and configurations.                                             *)

(* Fault: the bitmap is not consulted. *)
AnyBits == 0 .. ConfigBits - 1

ClearBits == (0 .. ConfigBits - 1) \ bitmap

FirstClear == CHOOSE c \in ClearBits : \A d \in ClearBits : c <= d

(* AllocateConfig() and what its caller does with the result.  The assert  *)
(* comes after the bit is set and before the reset bit is written.         *)
AllocateConfig(r, off, bytes) ==
    \/ /\ ClearBits = {}
       /\ SetError("config")
       /\ UNCHANGED <<bitmap, regionVars, deviceVars, stopped>>
    \/ /\ ClearBits # {}
       /\ FirstClear >= MaxConfigs
       /\ bitmap' = bitmap \cup {FirstClear}
       /\ stopped' = "config"
       /\ UNCHANGED <<regionVars, deviceVars, error>>
    \/ /\ ClearBits # {}
       /\ FirstClear < MaxConfigs
       /\ bitmap' = bitmap \cup {FirstClear}
       /\ reset' = [reset EXCEPT ![FirstClear] = FALSE]
       /\ leftover' = leftover \ {FirstClear}
       /\ \/ Constructed(r, off, bytes, FirstClear)
          \/ Interrupted(off, bytes, FirstClear)
       /\ UNCHANGED <<agu, error>>

AllocEphemeralRegion(r, request) ==
    LET bytes == SizeClass(request) IN
    /\ AllocNode(r, request)
    /\ UNCHANGED ralloc
    /\ \/ /\ Reached(bytes) = {}
          /\ SetError("buddy")
          /\ UNCHANGED <<bitmap, regionVars, deviceVars, stopped>>
       \/ /\ Reached(bytes) # {}
          /\ AllocateConfig(r, FirstFit(bytes).off, RegionSize(request))

(* The block is shared first, then a configuration is asked for.           *)
CloneEphemeralRegion(r, q) ==
    /\ Held(q)
    /\ FindAndIncNode(r, q)
    /\ AllocateConfig(r, live[q].off, size[q])
    /\ UNCHANGED ralloc

(* The object is gone.  The destructor unmaps m_UncachedRegionAccess, an   *)
(* uninitialised pointer when the constructor returned early: the process  *)
(* may lose memory it uses.                                                *)
Destroy(r) ==
    /\ config' = [config EXCEPT ![r] = None]
    /\ size' = [size EXCEPT ![r] = 0]
    /\ mapped' = [mapped EXCEPT ![r] = None]
    /\ uncached' = [uncached EXCEPT ![r] = FALSE]
    /\ bound' = [bound EXCEPT ![r] = None]
    /\ \/ UNCHANGED stopped
       \/ ~uncached[r] /\ stopped' = "crash"

(* Fault: the bit of a freed configuration stays set. *)
FreeConfigKept(c) ==
    /\ reset' = [reset EXCEPT ![c] = TRUE]
    /\ UNCHANGED <<bitmap, agu, dtu, leftover>>

(* FreeConfig with ResetConfig.  The DTU registers keep their values.      *)
FreeConfig(c) ==
    /\ bitmap' = bitmap \ {c}
    /\ reset' = [reset EXCEPT ![c] = TRUE]
    /\ UNCHANGED <<agu, dtu, leftover>>

(* Fault: the block is not given back. *)
FreeWithoutNode(r) ==
    /\ Held(r) /\ live' = [live EXCEPT ![r] = NoBlock] /\ FreeConfig(config[r]) /\ Destroy(r)
    /\ UNCHANGED <<count, ralloc, error>>

FreeEphemeralRegion(r) ==
    /\ Held(r)
    /\ FreeNode(r)
    /\ FreeConfig(config[r])
    /\ Destroy(r)
    /\ UNCHANGED <<ralloc, error>>

-----------------------------------------------------------------------------
(* Programs.  Whether a program compiles is left open: a parse, name, type *)
(* or transform error returns false and keeps the old ralloc, and a        *)
(* program too large for the hardware ends the process.                    *)

Compile(p) ==
    /\ \/ ralloc' = p /\ UNCHANGED stopped
       \/ UNCHANGED ralloc /\ stopped' = "exit"
    /\ UNCHANGED <<vars, bitmap, regionVars, deviceVars, error>>

(* DoInitStateRegisters and DoControlWrites into the region's AGU page.    *)
(* An assert of DoControlWrite may end the process with the page half      *)
(* written, which None stands for.                                         *)
Program(r, p) ==
    \E written \in {p, None} :
        /\ agu' = [agu EXCEPT ![config[r]] = written]
        /\ bound' = [bound EXCEPT ![r] = written]
        /\ stopped' = IF written = p THEN stopped ELSE "assert"

(* ralloc is not initialised before the first program that compiles.       *)
ProgramHardware(r) ==
    /\ Held(r)
    /\ UNCHANGED <<vars, bitmap, config, size, mapped, uncached, reset, dtu, leftover,
                   ralloc, error>>
    /\ \/ ralloc = None /\ stopped' = "crash" /\ UNCHANGED <<agu, bound>>
       \/ ralloc # None /\ Program(r, ralloc)

CompileAndProgramHardware(p, r) ==
    /\ Held(r)
    /\ ralloc' = p
    /\ Program(r, p)
    /\ UNCHANGED <<vars, bitmap, config, size, mapped, uncached, reset, dtu, leftover, error>>

-----------------------------------------------------------------------------
(* The constructor.  The first process finds every configuration in reset, *)
(* as FreeConfig leaves it; the other registers hold anything, which None  *)
(* stands for.                                                             *)
APIInit ==
    /\ Init
    /\ bitmap = {}
    /\ config = [r \in Regions |-> None]
    /\ size = [r \in Regions |-> 0]
    /\ mapped = [r \in Regions |-> None]
    /\ uncached = [r \in Regions |-> FALSE]
    /\ reset = [c \in Configs |-> TRUE]
    /\ agu = [c \in Configs |-> None]
    /\ dtu = [i \in 0 .. 3 * MaxConfigs - 1 |-> None]
    /\ leftover = {}
    /\ ralloc = None
    /\ bound = [r \in Regions |-> None]
    /\ error = "none"
    /\ stopped = "no"

(* Fault: the bitmap is not initialised. *)
UnclearedBitmap == bitmap

EmptyBitmap == {}

(* The process ends, if it has not, and another one constructs its API.    *)
(* The constructor resets no configuration.                                *)
Restart ==
    /\ count' = [n \in {Root} |-> 0]
    /\ live' = [r \in Regions |-> NoBlock]
    /\ bitmap' = EmptyBitmap
    /\ config' = [r \in Regions |-> None]
    /\ size' = [r \in Regions |-> 0]
    /\ mapped' = [r \in Regions |-> None]
    /\ uncached' = [r \in Regions |-> FALSE]
    /\ ralloc' = None
    /\ bound' = [r \in Regions |-> None]
    /\ error' = "none"
    /\ stopped' = "no"
    /\ leftover' = {c \in Configs : ~reset[c]}
    /\ UNCHANGED <<reset, agu, dtu>>

Call == \E r \in Regions :
           \/ \E request \in Requests : AllocEphemeralRegion(r, request)
           \/ \E q \in Regions : CloneEphemeralRegion(r, q)
           \/ FreeEphemeralRegion(r)
           \/ Sync(r)
           \/ \E p \in Programs : Compile(p)
           \/ ProgramHardware(r)
           \/ \E p \in Programs : CompileAndProgramHardware(p, r)

APINext == \/ stopped = "no" /\ Call
           \/ Restart

APISpec == APIInit /\ [][APINext]_apiVars

-----------------------------------------------------------------------------
(* Properties.                                                             *)

APITypeOK ==
    /\ bitmap \subseteq 0 .. ConfigBits - 1
    /\ config \in [Regions -> Configs \cup {None}]
    /\ size \in [Regions -> Powers \cup {0}]
    /\ mapped \in [Regions -> Pages \cup {None}]
    /\ uncached \in [Regions -> BOOLEAN]
    /\ reset \in [Configs -> BOOLEAN]
    /\ agu \in [Configs -> Programs \cup {None}]
    /\ DOMAIN dtu = 0 .. 3 * MaxConfigs - 1
    /\ leftover \subseteq Configs
    /\ ralloc \in Programs \cup {None}
    /\ bound \in [Regions -> Programs \cup {None}]
    /\ error \in {"none", "buddy", "config"}
    /\ stopped \in {"no", "config", "killed", "assert", "exit", "crash"}

(* While the process runs, the bits set are the configurations of the      *)
(* regions, no two regions have the same one, and a configuration is out   *)
(* of reset exactly while a region has it or an earlier process left it    *)
(* so: clones, reused numbers and restarts never leave one configuration   *)
(* to two regions.                                                         *)
ConfigOwnership ==
    stopped = "no" =>
        /\ bitmap = {config[r] : r \in {q \in Regions : Held(q)}}
        /\ \A r, q \in Regions : Held(r) /\ config[r] = config[q] => r = q
        /\ \A c \in Configs : reset[c] <=> c \notin bitmap \cup leftover
        /\ bitmap \cap leftover = {}

(* The window the device has for a region starts at the region's block and *)
(* ends inside it, whatever other regions wrote to the shared DTU page:    *)
(* the three register arrays of the UPDATE_CONFIG macros never overlap.    *)
(* What an earlier process left in the registers makes no difference.      *)
WindowInsideBlock ==
    \A r \in Regions : Held(r) =>
        /\ live[r] # NoBlock
        /\ dtu[StartReg(config[r])] = live[r].off
        /\ dtu[SizeReg(config[r])] = size[r]
        /\ 0 < size[r] /\ size[r] <= live[r].size

(* The windows of two configurations in use have no byte in common unless  *)
(* one region was cloned from the other, and then they are the same.       *)
WindowsDisjoint ==
    \A r, q \in Regions :
        Held(r) /\ Held(q) =>
            LET window(s) == [off |-> dtu[StartReg(config[s])],
                              size |-> dtu[SizeReg(config[s])]] IN
            \/ live[r] = live[q] /\ window(r) = window(q)
            \/ live[r] # live[q] /\ Disjoint(window(r), window(q))

(* Once the driver has mapped a region, the device finds the region's own  *)
(* pages in the region's own configuration, also after later Syncs and     *)
(* after other regions came and went.                                      *)
MappedPagesRegistered ==
    \A r \in Regions :
        mapped[r] # None => /\ Held(r)
                            /\ dtu[PhysReg(config[r])] = mapped[r]

(* A region keeps the program it was given: programming another region, a  *)
(* clone of it included, or allocating and freeing others changes nothing. *)
ProgramStaysBound ==
    \A r \in Regions :
        bound[r] # None => Held(r) /\ agu[config[r]] = bound[r]

(* The regions there are have every configuration, or every bit.           *)
Taken == {config[r] : r \in {q \in Regions : Held(q)}}
NoneLeft == Configs \subseteq Taken \/ 0 .. ConfigBits - 1 \subseteq Taken

(* A block was taken for r, and the caller has no object to give it back.  *)
Orphaned(r) == live[r] # NoBlock /\ ~Held(r)

(* A handle comes to be recorded with a block and without an object only   *)
(* in a call that itself fails: because the process is killed in it, or    *)
(* because it sets the error or runs into the assert of AllocateConfig     *)
(* when other regions really have all there is.  So freed configurations   *)
(* are found again, and a free or a clone of one region takes no object    *)
(* from another.  Nothing is said of blocks of no handle, which Coalesce   *)
(* leaves in use after frees that succeed (InUseLeafHasRegion).            *)
OrphanedOnlyByFailure ==
    [][\A r \in Regions :
          Orphaned(r)' /\ ~Orphaned(r) =>
              \/ NoneLeft /\ (error' = "config" \/ stopped' = "config")
              \/ stopped' = "killed"]_apiVars

(* The allocator inside the API behaves as the allocator alone, from one   *)
(* restart to the next.                                                    *)
AllocatorSpec == Init /\ [][Next \/ Init']_vars

(* What the device does for the holder of each region, read back from the  *)
(* registers: the window, the pages once the driver has mapped some, the   *)
(* program once one was written.                                           *)
Served ==
    [r \in Regions |->
        IF Held(r)
        THEN [window  |-> [off  |-> dtu[StartReg(config[r])],
                           size |-> dtu[SizeReg(config[r])]],
              pages   |-> IF mapped[r] = None THEN None ELSE dtu[PhysReg(config[r])],
              program |-> IF bound[r] = None THEN None ELSE agu[config[r]]]
        ELSE [window |-> [off |-> 0, size |-> 0], pages |-> None, program |-> None]]

Service == INSTANCE RegionService WITH served <- Served

(* The API and the device implement the service of regions: no call, no    *)
(* failure and no restart changes what the device does for any handle but  *)
(* the one the call is for, and a new window touches no window in use.     *)
ImplementsService == Service!Spec
=============================================================================
