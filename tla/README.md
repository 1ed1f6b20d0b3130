# DTL: models, checks and proofs

DTL is a language for data layout transformations: a program gives, for every
iteration of a loop nest, the offsets its OUT statements read from. The
compiler (`src/src`) turns a program into the registers and routing cells of
an address generation unit (AGU); the runtime (`dtl_api`) hands out regions of
backing memory and binds each to a hardware configuration that runs one
program. This directory holds TLA+ models of both, checked with TLC and partly
proved with TLAPS.

Definitions keep the names of the source. `PROJECT.json` maps each of them to
the lines it stands for.

## 1. Inventory

The program is sequential: one thread, no callbacks. Only the device keeps
anything when the process ends: its registers. What is hard about it is not
interleaving in the usual sense but

- **long sequences of legal calls** on a data structure with shared counts (the
  buddy tree) and on tables of device registers that are reused;
- **several numberings of one thing** that must agree (loops, inputs, units,
  cells) and are computed by separate walks;
- **passes that depend on each other's output**;
- **arithmetic at the edge of a word** (strides, magic numbers, packed bytes);
- **errors halfway**, where the first of several steps has happened, up to a
  process that dies in the middle of a constructor and is started again over
  the device as it left it;
- **generated automata** whose compressed tables, refills, back-ups and default
  reductions no test of the repository looks into.

| Component | Code | State | Operations | Correct when |
|---|---|---|---|---|
| Backing memory allocator | `dtl_api.cpp` 332-586 | tree of `BuddyNode`, each with a use count | `AllocNode`, `FindAndIncNode`, `FreeNode` | memory in use by two regions is one shared block; an offset finds its block; the last sharer, and no earlier one, releases it |
| Runtime API | `dtl_api.cpp` 67-325, 588-700 | configuration bitmap, regions, last compiled program, error | allocate, clone, free, sync, compile, program | a configuration has one owner; its window lies in the owner's block; pages and program stay with the region |
| Kernel driver, device | external | registers of the DTU page, one AGU page and reset bit per configuration | remap, serve addresses | - |
| Scanner | `lexer.l`, `lexer.yy.cc`, `scanner.*` | buffer, position, state and last accepting state of the automaton, line and column | `yylex`, `yy_get_next_buffer` | the lexemes are those of the patterns, longest and first, whatever the refills cut |
| Parser, AST | `parser.yy`, `parser.cc`, `frontend.hh`, `ast.hpp` | stack, lookahead, tree | `parse`, the semantic actions | what it accepts the grammar derives, and the tree is the program as written |
| Name analysis | `name_analysis.*`, `symbol_table.*` | chain of scopes, symbols attached to names | one walk | names are declared once and before their use |
| Type analysis | `type_analysis.*` | error flag, conditional info | one walk | types and loop forms fit the hardware; the conditional recorded fits the statements |
| Static optimiser | `optimizations/*` | tree, counts and values of constants | fold, propagate, coalesce, eliminate | values of OUT statements unchanged; every name still declared; nothing left to fold or share |
| AST transform | `ast_transform_pass.*` | tree | level operands with pass-throughs, push ready operators down | all operands meet in the layer before their operator, no layer is added |
| Resource analysis | `resource_analysis_pass.*` | units per layer, register maps | one walk | what the check accepts can be placed |
| Resource allocation | `resource_alloc_pass.*` | routing, loop and array registers | one walk, register writes, cell writes | the unit computes the program; no two writes share a byte; an input reads the register it means |
| Magic numbers | `util.cpp`, `resource_alloc_pass.hpp` 881-905 | strides, multiplier, shift | `magicu`, `CalculateForLoopMagicValues` | multiply and shift divide exactly |
| Driver, errors | `main.cpp`, `errors.hpp`, `position.hpp` | - | run the pipeline and print | - |
| MLIR lowering | named by `src/README.md` | - | its code is not in the repository | - |

How they interact: `API::Compile` runs parser (which calls the scanner for each
token it needs, and only then), name analysis, type analysis,
optimiser, transform, `ResourceAnalysis::build`, `ResourceAllocation::build` in
this order, each on the tree the one before left. The result, `ralloc`, is kept
by the API and **shared**: `ProgramHardware` writes whatever compiled last into
the page of the region it is given, state registers first, cells after.
`AllocEphemeralRegion` takes a block, then a configuration, then writes the
window of the configuration to registers that all regions share, then asks the
driver for pages; each step can fail with the ones before it done.

`PROJECT.json` lists the hazards, each at its line, and the properties that
would catch it.

## 2. Modules

| Module | Models | State and actions |
|---|---|---|
| `RegionSpace` | abstract: what the allocator promises | `held`; `Grant`, `Share`, `Release` |
| `BuddyAllocator` | `BuddyNode`, `BuddyAllocator` | `count` maps each existing node, identified by offset and size, to `m_IsFree`; `live` is the block each region was given. One action per public method, with splits and merges. Recursive searches are stated by the set of nodes they reach. |
| `BuddyWalk` | the recursive walks, pointer by pointer | recursive functions on a node and the heap, which holds `m_IsFree` of every node or `nullptr`; they agree with the set definitions in every reachable tree |
| `RuntimeAPI` | `API`, `EphemeralRegion`; EXTENDS `BuddyAllocator` | bitmap, region fields, device registers, `ralloc`, `error`, `stopped` (the ways the process ends), `leftover` (configurations an earlier process left out of reset). One action per call; the step in which a call fails, or is killed, is a disjunct; `Restart` is a new process over the old device. |
| `RegionService` | abstract: what API and device promise the holder of a region | `served`: a window, pages and a program for each handle; `Open`, `Clone`, `Move`, `Load`, `Close`, `Restart` |
| `ScannerTables`, `ParserTables` | the arrays flex and bison generated | constants |
| `Scanner` | `lexer.yy.cc`, the rules of `lexer.l` | `buf`, `text`, `cpos`, `state`, `accepted` are the buffer and pointers of the code. One action per case of the switch: a token, a blank or newline, an illegal character, a NUL in the text, a refill, the end inside a lexeme, the end |
| `Parser` | `parser.cc`, the actions of `parser.yy`; EXTENDS `Scanner` | stack, lookahead, `result`, `root`; calls the scanner, shifts, reduces, aborts, accepts |
| `NameAnalysis` | `name_analysis.cpp`, `symbol_table.cpp`; EXTENDS `Parser` | `scopes`, `attached`; the recursion over the tree is the list `todo`; an action is one node |
| `TypeAnalysis` | `type_analysis.cpp`; EXTENDS `NameAnalysis` | `hasError`, `condInfo`; an action is one node |
| `FrontEnd` | `API::Compile` up to the collapse of conditionals, `Scanner::outputTokens` | composes the four: one behaviour is one call on one text |
| `FrontEndProperties` | - | what the front end promises: the patterns, the grammar, when a program is right |
| `OutStatement` | transform, analysis, allocation and cells of OUT statements | the trees, literals, routing, cells; one action per pass, one per statement written. Whatever recurses over trees is a recursive function on trees of height up to `MaxDepth` |
| `StateRegisters` | the other registers: loops, constants, arrays, conditions | the two walks over declarations and loops, node by node, then `DoInitStateRegisters`, register by register; `page` remembers whose each byte is; a condition over a constant stops the process among the last writes (`CondsKnown`) |
| `LoopDivisors` | strides and `magicu` | one action per pass of either loop |
| `Optimizer` | the four passes and their order per level | declarations, loops, OUT trees, passes still to run; an action is one pass. Walks over trees are recursive functions on trees of height up to `MaxDepth` |
| `BuddyAllocatorProofs`, `RuntimeAPIProofs`, `LoopDivisorsProofs`, `StateRegistersProofs`, `OutStatementProofs`, `OutValuesProofs`, `OptimizerProofs` | - | theorems |
| `Induction` | - | least elements, induction with the property given as a set, functions defined by recursion on a number or along a measure, products and quotients |
| `MC...` | - | small instances |

Composition. `RuntimeAPI` EXTENDS `BuddyAllocator`, conjoins its actions with its own,
and the theorem `AllocatorInside` (property `AllocatorSpec`) says that nothing
in the API moves the allocator otherwise, except to begin it again at a restart. `BuddyAllocator` implements
`RegionSpace` under `held <- live` (`ImplementsRegionSpace`), and `RuntimeAPI`
implements `RegionService` under `served <- Served` (`ImplementsService`), which
reads the service of a region back from the registers of its configuration.
`LoopDivisors`,
`OutStatement` and `StateRegisters` are three views of one `ResourceAllocation`
object; they meet in the number of a loop (`StateRegisters.LoopNumber` and
`ForLoopRegOffset` are the numbers `OutStatement.Register` takes for given) and
in the size of the cells (`StateRegisters.Cells` is
`OutStatements * BytesOutStatement`). The modules of the front end extend one
another in the order of the passes and share the tree; their last state,
`collapsed` and `condInfo`, is where `OutStatement` and `StateRegisters` begin.

**Fault definitions.** A definition under a comment that starts with "Fault"
is a plausible bug in the code next to it (`SizeRegOverlapping`,
`SwitchValueUnreversed`, ...). No specification uses one. `PROJECT.json`, under
"mutants", pairs each with the property it breaks when it replaces the
definition it is named after; this shows that the property depends on the code.

## 3. What the runs show

All runs are exhaustive for their constants and take seconds to two minutes.

| Run | Question | Bounds and why they are enough |
|---|---|---|
| `buddy` | Does any order of allocate, clone, free give out memory twice, lose the block of an offset, release a shared block early, or leave the tree malformed? Do the pointer walks agree with the set definitions? Is every step one of `RegionSpace`? | Four sizes (three levels of split), three regions, requests that round up, fit and exceed; the root's count up to 5. Three handles suffice for two neighbours and a clone, and for merges that stop halfway. |
| `buddy_leak` | Is a leaf in use always some region's block? **Violated**, see section 5. | as above, with symmetry and a smaller count |
| `api` | Configurations, windows, pages and programs under every order of calls, failures of the driver, errors and restarts included. Does a call leave a handle with a block and no object only when it fails, for want of what the regions really hold? Is the allocator inside the API the allocator alone? | Three regions and two configurations, so that a region must wait for a configuration and numbers are reused; three bitmap bits, where a shortage ends the process in an assert, or two (`spare`), where `AllocateConfig` does return -1; regions, programs and pages are symmetric. The process may be killed before and after each register a constructor writes, and restarts as often as it likes. Blocks that belong to no handle, because `Coalesce` leaves them in use after frees that succeed, are the question of `buddy_leak` |
| `front_end` | Are the lexemes those of the patterns? Does each reduction follow a rule of the grammar? Is the tree the program as written, the answer the right one, the conditional the one of the statements? Does every call end? | A buffer of two characters, so that every longer lexeme is met in pieces, moved, and makes the buffer grow. 180 programs spelled out in characters: every pair of operators, every condition and switch form, wrong names and types at each place, loops of every wrong form, literals at the edge of an int, blanks, newlines, NULs and illegal characters between all tokens, one token left out or doubled at each place. 1,990 short texts over characters whose patterns overlap |
| `front_end_documented` | Does a program that compiles obey two rules that comments of the analyses state? **Violated** for both | one program that breaks both rules and no other, so that the trace shows each |
| `out_statement` | Do the cells compute the value of the expression as parsed? Are trees levelled, units sufficient, cells distinct? | Programs of one and two statements, depth up to three, over a constant, an array, loops and literals; `MaxDepth` 4, one more than a program needs and what the levels of a fault reach; four layers of unequal units. Some are rejected, which shows that the check is met on both sides. Two assignments of values with primes apart |
| `out_fan_out` | Does a program that passes the check always fit the cells? **Violated** | as above |
| `registers` | Does each register keep all its bytes? Is a multiplier aligned? Do inputs and conditions read the register of the name they mean? | Three loop, two constant and one array register after 11 bytes of cells (no multiple of 8); two, three and four loops, so that registers stay unused and programs are rejected; conditions over loops and over a constant |
| `registers_arrays` | Is an array indexed by the loop its statement names? **Violated** | as above |
| `divisors` | Does multiply-and-shift divide exactly, does magicu fit 64 bits, do the recovered counters lead back to the position? | Words of six bits, every pair of bounds up to half a word, so that every divisor and every position of the lower half is met, and strides that wrap, to 0 included |
| `optimizer` | Values, names, and what is left at the end | About 20 000 programs with two constants (one may be `nopt`), an array, two loops, up to three leaves (`MaxDepth` 2); words of 16 values, so that arithmetic wraps; levels OPT1 and OPTMAX (OPT2 has the schedule of OPTMAX, OPT0 an empty one) |
| `optimizer_nopt` | Do names stay declared when a number equals a constant marked `nopt`? **Violated** | the programs left out of `optimizer` |

`CHECK_DEADLOCK FALSE` stands where the model stops legitimately: a compiler run
ends, and the allocator alone stops when its use count has reached `MaxCount`.
The runs of the API check for deadlock: a process that ended can be started
again. The bounds are `MaxCount` on the root's use count, which grows with every
lost merge, and the finite sets given as constants.

**Fairness.** `FrontEnd` assumes `WF_vars(Next)`: the call runs on one thread and
none of its steps waits for anything, so its next step happens. Under it every
call ends (`Answered`), which would fail if the scanner went round at the end
of the text, a refill made no room, or the parser reduced without end. The other
models claim no liveness: the runtime only acts when a client calls it, and a
client that stops calling is legal. The one wait in the code, `ResetConfig`
spinning on a register, depends on the device alone.

## 4. What is proved

Proofs hold for every value of the constants under the named assumptions of
the modules.

**`BuddyAllocatorProofs`.** For all backing sizes, block sizes that are halves
of each other (`SizesAssumption`), and finite sets of regions:
`TypeCorrectness`, `RegionsNeverOverlap`, `FindNodeIsExact`,
`SharingIsCounted`, `TreeIsWellFormed`, `AllocatorImplementsSpace` and
`WalksFollowPointers`.
`LiveBlocksDisjoint` is not inductive: it does not say why a free
node has no region somewhere below it. The invariant is
`IInv == TypeOK /\ TreeShape /\ FreeNodeIsLeaf /\ LiveBlockIsLeaf /\ ShareCountExact`
(`TreeWellFormed` is its second and third part).
`FreeNodeIsLeaf` makes a split safe (it overwrites the child pointers of a free
node); `LiveBlockIsLeaf` with `TreeShape` makes two live blocks equal or
disjoint; `ShareCountExact` lets `FreeNode` delete only what nobody shares.
The lemmas `AllocStep`, `IncStep` and `FreeStep` preserve it action by action,
with the geometry of a split in `SplitNodes` and `SplitShape`.

`WalksFollowPointers` ties the set definitions to the recursion of the code, for
every tree `IInv` allows that has its root (`RootStays`). First, each walk is a
function: a search goes on with a smaller node, `Coalesce` with a larger one
(`MeasuredRecursion` of `Induction`, then `AllocUnfold`, `FindUnfold`,
`CoalesceUnfold`). Then what a walk returns from a node, by induction on the
size of the node. `WalkFinds`: the largest node inside of it where the search
may stop. `WalkSplits`: a free node is split down to the size. `WalkSearchesInUse`: a
failed search has the heap it was given, so the right child is searched in the
same tree, and a success is the leftmost free node; `ClimbUp` counts it on the
way back. `ClimbStep` goes upwards: the nodes `Coalesce` has passed are among
those of `Coalesced`, each with its last use gone, and where it stops, a
sibling in use or a use that is left keeps every node further up out of
`Coalesced`. It needs `FreeNodeIsLeaf` (a free sibling hides nothing in use below)
and `TreeShape` (the nodes above a block form a chain).

**`RuntimeAPIProofs`.** `AllocatorInside` makes all of the above available
inside the API. On top: `APITypeCorrectness`, `ConfigsHaveOneOwner`,
`WindowsStayInside`, `WindowsNeverOverlap`, `MappedPagesStay`,
`ProgramsStayBound`, `OrphansComeFromFailures`. The invariant adds to `IInv` the ownership of
configurations and the contents of the device registers of owned ones, and
that a clone has the size of its original, without which the windows of two
sharers could differ. A restart (`RestartStep`) re-establishes it over any
contents of the device: what makes that sound is that `AllocateConfig` clears
the reset bit and the constructor writes size and start before anything reads
them, so a leftover configuration is owned by nobody until it is taken. Not
even `Interrupted`, with any prefix of the writes done, disturbs the registers
of another region.

`OrphansComeFromFailures` is an action property proved from the same invariant:
in a running process the bits set are the configurations of the regions, so a
call that finds none clear, or a first clear one beyond the configurations
(`FirstClearLeast`), fails because the regions have them all. It concerns the
block a failing call leaves behind, and not the nodes of `buddy_leak`.

`APIImplementsService` is the refinement of `RegionService`, step by step. Under
the invariant, before and after a step, what the registers say of a region is
what its object says (`RegistersSayService`); so a step that leaves the other
objects alone leaves their service alone (`OthersAreServed`), although all
write to one DTU page. `Sync`, `FreeEphemeralRegion` and the two calls that write
programs map to `Move`, `Close` and `Load`. An allocation maps to `Open` (the new
block is disjoint from the live ones, and the window lies in it), a clone to
`Clone`, or each to a stutter when it fails or dies half-way
(`ConfigurationServes`): the block a failed call leaves behind serves nobody.
`RegionService` promises distinct pages only for regions the driver has mapped,
and a program only once one was written, since the registers of a configuration
keep what an earlier owner left in them. No run lists `ImplementsService`; TLC
checks it when `ImplementsService` is added to the properties of `MCRuntimeAPI.cfg`. `WalksAgreeInside` carries `WalksAgree` over to the API.

**`LoopDivisorsProofs`.** For every word width, nest and stride:
`DivTypeCorrect`, `DivisionIsExact`, `MagicuFits`, `UnrollIsExact`. The loop of `magicu` does two
long divisions by hand, one by `nc + 1` and one by `d`; the invariant says that
its quotients and remainders are those of `2^p`. When the loop ends,
`delta * (nc + 1) <= 2^p`, and `ExactDivision` turns that into
`(n * M) >> (Width + s) = n / d` for all `n` below half a word. `Pow` is a
constant function with `Pow[1] = 2` and `Pow[j + k] = Pow[j] * Pow[k]`, since a recursive power
could not be reasoned about. The unit adds `Width` to the stored shift; this
is the reading under which the numbers divide. `UnrollIsExact` composes the
divisions of a nest: each stride is the product of the bounds inside it
(`StrideLinks`), none of these products wraps when the region fits half a word,
so each counter is a digit of the position in the mixed base of the bounds, and
by induction over the loops the digits sum up to the position again. The
theorem's hypothesis on the region is the one `UnrollExact` has: beyond it the
code wraps strides without a word.

**`StateRegistersProofs`.** For hardware of all sizes and
programs of any length: `RegTypesCorrect` and `MultipliersAligned`. With two
conditions more, `RegistersStayIntact` and `InputsFindRegisters`. The conditions
are `LayoutFits`: the multipliers end before the fixed registers at `0xf01`, and
there is at most one array register. Nothing in the code compares the first, and
all arrays are written to one place, so neither can be done without.
`ProgramsAssumption` is what name analysis ensures: distinct names of arrays and
of the loops of a nest. The invariant `RegInv` counts: `ForLoopsNeeded` is the
number of loops visited by the first walk, so the numbers `AllocLoopRegister`
counts down in the second are distinct and never negative; constants and arrays
are numbered without gaps (`Numbered`). Everything written is part of `Layout`,
which the compiled program fixes, and `LayoutPacked` stacks its seven kinds of
register between the offsets of `AGUHardwareStat`; so no store touches an earlier
one (`StoredHolds`). `MapInv` ties the number of a loop's input to that of its
register, and `DoneInv` says what each phase of the writes leaves written.

**`OutStatementProofs`.** For programs of any number of statements over trees of
any bounded height, any stack of layers and any geometry of the cells:
`TreesAreLevelled`, `CheckSuffices`, `OutTypes`, `CellsAreNeverShared`. The
invariant is `OutInv == OutStages /\ CellsHeld`. `OutStages` says what each stage
has established: the trees are levelled, the check passed before anything was
allocated, what is allocated fits, and the routing is that of the trees.
`TransformFills` shows that levelling gives a tree all of whose leaves are at
the bottom, by induction over heights; with it every operand of a layer is a
node of the layer below, so that all connections join units there are
(`RoutingHolds`). `CellsHeld` says that the connections written so far, and no
others, are in their cells; it needs `CellsApart`: statement, layer, source and
slot can be recovered from an offset, which holds because a source is below
`MaxFuncUnits`, a layer at most `NLayers`, and the `VarOutMap` assert keeps a
slot below `BytesCell`. `CheckSuffices` has the hypothesis `EveryLayerPasses`: each layer
has a pass-through, as the comment at `resource_alloc_pass.hpp:370` takes for
granted ("last layer to route PassThru0 to the output"). Without it a program
can pass the check and fail the assert at line 605.

**`OutValuesProofs`.** `ComputesTheProgram`: what leaves the last layer is the value
of the expression as it was parsed, for all programs, hardware and values of
names. Levelling keeps values (`TransformKeepsValue`); registers hold one
source each (`ContentsExact`), since constants, literals, arrays and loops are
numbered without overlap in a program that passed the check; an operand has
exactly one driver, the unit of its node (`LayerDrivers`), because cells are
apart, the units of a layer are apart (`UnitsApart`), and `IdxOutMap` numbers the
operands of a unit in their order (`OperandNumber`); induction over the layers
(`LayerStep`, `TreeRight`), then the pass-throughs above the tree (`PassRight`).
Its hypothesis, `CellsWide`, is that unit and operand number fit one cell
together. The code ors the operand number into an `unsigned char`
(`resource_alloc_pass.hpp:286`): with 128 or more units in a layer, or registers, `idxBit` is 8, the bit
of the second operand is lost, and both operands read as the first.
`UnitsAssumption`, that there are no more than 255 units, is the code's own: 255
stands for no connection.

**`OptimizerProofs`.** For all programs, trees of any bounded height and every
width of int: `OptTypes` and `RegistersStayMinimal`, under three hypotheses
`NamesStayResolved` and `ValuesStay`, under three others `NothingStaysToFold`.
The invariant is `OptInv`, and what it says depends on the stage. Until coalescing, all names are those of the program (`Written`) and every
declared name is declared once; when coalescing begins, an OUT statement names
only what propagation leaves alone (`Settled`), since in every schedule a
propagation comes right before; throughout, what is named is declared or counts
a loop (`Resolved`). `Settled` is what coalescing lives on: it deletes the
declarations of a value and renames the literals, not the names. Values are
kept step by step (`KeepsValues`): `FoldKeepsValue` computes modulo the word as
the units do, and after coalescing the register of a generated name holds the
literal it replaced, because the new declarations come first and have distinct
names. `TreeRecursion` shows once that a walk over trees is a function; each
walk is then used by its equation and `TreeInduction`.

What is left at the end is proved with two invariants that go by the number of
passes still to run. `MinimalInv` follows the places that hold a value, in the
declarations (`DeclPlaces`) and in the OUT statements (`LiteralPlaces`): after
coalescing there is at most one place per value (`CoalesceMinimal`), because the
places of a value it collects are rewritten or deleted at once (`KeptSoFar`,
`PlacesKept`, `PlacesJoined` count them along the walk); elimination adds none
and leaves only what is read (`EliminateMinimal`). `FoldInv` has, for each stage
of the schedule, what bounds and trees are made of: a round of folding and
propagation leaves no name that can be propagated, the folding of the second
round no operator over two numbers (`FoldedWhole`; numbers fold to a number,
`NumbersFold`), and its propagation has nothing to do. That is why the level
runs two rounds. Coalescing then names numbers, but not both sides of an
operator (`RewriteNothing`, `RewriteSubtrees`).

The hypotheses are what the passes rely on without looking:

- `GeneratedFresh`: no identifier of the program is one `GenIDString` makes;
  nothing compares the two.
- `IndexedByCounters`: an array, or the variable that indexes it, is no constant.
  Allocation looks the variable up among the loops only
  (`resource_alloc_pass.cpp:109-110`), and elimination does not visit it. For the
  same reason `NamesResolved` does not look at the variable that indexes an array: a
  constant there fails the assert whether or not its declaration was removed.
- `KeptApart`: when coalescing runs, a constant that an OUT statement still
  names, being marked `nopt` or equal to the -1 by which `FindConstant` says
  "unknown", has no value that occurs twice. It is about states and not
  about programs, since folding decides which literals there are. It holds in
  all states of run `optimizer`, and what happens without it is the run
  `optimizer_nopt`.
- `KnownConstants`, for `NothingStaysToFold` only: no constant that may be
  propagated is -1, which propagation takes for unknown.
- `ConstantBounds`, likewise: the bounds of loops are made of numbers and such
  constants. A bound with a `nopt` constant stays an expression, and `Collapse`
  asserts on it. All programs of run `optimizer` satisfy these two and
  `GeneratedFresh`.

**Only model-checked.** The modules of the front end compute over tables, trees
and texts with RECURSIVE operators, which TLAPS does not support. `Answered` is
liveness and stays with TLC.

## 5. Disagreements between the code and what it says of itself

Each is shown by a run that TLC must find violated; the last two share one, whose
program has both faults.

1. **Memory lost after legal calls** (`buddy_leak`, `dtl_api.cpp:411`). A parent
   gains one use for each block allocated below it, but `Coalesce` takes one
   from it for all of them. Two neighbours allocated and freed leave the parent
   in use for ever. All the safety theorems hold regardless: lost memory is
   never given to two regions.
2. **A value used too often** (`out_fan_out`, `resource_alloc_pass.hpp:281`)
   passes the hardware check and fails an assert during the writes.
3. **`nopt` and coalescing** (`optimizer_nopt`, `constant_coalesce_pass.cpp:141`).
   The declaration of a constant that was not propagated is deleted when a
   number has the same value, while its uses remain.
4. **Array indices** (`registers_arrays`, `resource_alloc_pass.hpp:1079`). The
   number of an input is compared with the number of a register, so the index
   register of an array stays 0 when the hardware has constant registers.
5. **Loops that compare something else** (`front_end_documented`,
   `name_analysis.cpp:29`). The comment there wants the left-hand side of the
   condition to be the loop's variable, and the grammar in the repository's
   README has a name and `LT` there. `parser.yy:177` takes any expression, type analysis
   only asks for a comparison, and allocation takes its right side for the
   bound: `for(int i=0;2*i<2;i++)` is laid out as `i<2`.
6. **Branches without types** (`front_end_documented`, `type_analysis.cpp:155-226`).
   The comment in `type_analysis.hpp:43` has the analysis go over the entire tree,
   and OUT statements inside a branch are never visited: `out = A` with an array
   `A` fails at the top and passes in a branch.

`AnalysesDecide`, which says that the answer of a call is the right one, claims
nothing of programs whose only faults are of the last two kinds (`AsDocumented`).

Met while modelling, without a run:

- `AllocateConfig` asserts (`dtl_api.cpp:301`) where its comment (291-293) and its
  callers expect -1, unless there are as many configurations as bitmap bits.
- The constructor of `API` resets no configuration: those of a process that died
  stay out of reset, with their windows over memory the new process hands out
  to others. `ConfigOwnership` keeps account of them in `leftover`; nothing
  excludes that such a window and a region of the new process share bytes, and
  `WindowsDisjoint` is about the regions of one process only.
- After a failed `Sync` the destructor unmaps `m_UncachedRegionAccess`, which the
  constructor did not set (`dtl_api.cpp:663`).
- A name used in a loop condition only and not declared ends the process
  (`name_analysis.cpp:36`) where any other undeclared name fails the call.
- The update of a loop may increment another loop's variable; nothing looks at
  which it is.
- Errors of the scanner (illegal characters, literals too large) are reported and
  never fail the call; the literal is 0 from then on, and `TreeIsProgram` takes 0
  for what such a text means.
- `README.md` of the repository writes `ISEDGE <id> OR <id>` where the grammar has
  `isEdge? <id> || isEdge? <id>`, and has `nopt` before arrays (82-85), which
  `parser.yy` allows before constants only.
- All arrays are written to the same base (`resource_alloc_pass.hpp:232`),
  although the layout has room for each; the runs have one array register.
- At OPT1 folding comes before propagation, so names of constants are not folded
  (`optimization_passes.hpp:58-65`).
- Generated names `constVarIDn` are not reserved.
- The bound of a loop that is a name has `Collapse` 0; the stride becomes 0 and
  `magicu` divides by it. `LoopDivisors` stops in phase "crash" there, and
  `NothingLeftToFold` says that the full optimiser leaves no such bound.
- Unused layers need a pass-through each; hardware without one fails the assert
  at `resource_alloc_pass.hpp:605`. The instance has one in every layer.

## 6. Not modelled, and why

- **Printing, messages, the command line driver**: output, and the pipeline of
  `API::Compile` once more.
- **In the scanner**: `unput`, `input`, buffer stacks and switching, which nothing
  calls; a refill that fails for want of memory; `std::stod` on a literal of more
  than 308 digits, which throws.
- **In the parser**: the variant behind semantic values (a value is a record, and
  `FrontTypeOK` says that it has the type its symbol declares); tracing; the lists
  of expected tokens in messages; positions in nodes.
- **Which code the device runs for a condition**: `CaseOfStatement` ends with the
  code, the count and the statements; what the device does with them is not in
  the repository.
- **The register count of a whole compilation in one model**: the modules meet in
  shared definitions and are checked one by one, since the product of a tree, its
  routing and its registers leaves no instance small enough to be of interest.
- **`/dev/mem`, mapping, headers, the destructor of `API`**: operating system.
- **The device and the kernel driver**: external. The driver may give any pages
  no region has, or fail; the device holds what is written to it. `Quotient`,
  `Counter` and `Computed` say how the unit uses the numbers it is given.
- **Two processes on one device at a time**: each would have a bitmap of its own
  over the same configurations; the code has no answer to that.

## 7. Plan

Done, in order of importance: `RegionSpace` and `BuddyAllocator` with walks,
refinement and proofs; `RuntimeAPI` with proofs, crashes and restarts, and `RegionService`, which it implements;
`OutStatement` with proofs; `LoopDivisors` with proofs; `StateRegisters` with proofs;
`Optimizer` with proofs; the front end, from characters to the conditional.

Left to model:

1. Conditional forms in `Optimizer`: the variables conditions compare, which
   propagation and elimination do not visit.
2. Two array registers in `StateRegisters`.

Left to prove:

1. `FrontEnd`: `FrontTypeOK`, and that positions and lexemes cover the text.
