# A verification of VectreC in TLA+

VectreC is CMOC 0.1.98, a cross-compiler from C to the Motorola 6809, with a
library for the Vectrex and fixes for portability.  This directory holds TLA+
modules of its core, the configurations with which TLC checks them, and theorems
about them with proofs for TLAPS.  `PROJECT.json` lists the runs, the source lines
behind every definition, the hazards of the code and the theorems.

Paths below are relative to `src/cmoc/src/`.

## 1. The system

### Phases of a compilation

`cmoc` (main.cpp) takes the files of its command line one by one.  It preprocesses a C
file, parses it (lexer.ll, parser.yy) into trees, checks them
(TranslationUnit::checkSemantics, SemanticsChecker, ExpressionTypeSetter), lets each tree
emit instructions into one list of elements (ASMText), rewrites the list (peephole
optimizer), writes assembly text and runs `lwasm`; at the end it runs `lwlink` on the
objects and checks the map of the program.  The phases run one after the other in one
thread and share the trees, the TypeManager and the ASMText; the tools share files.  The
output runs on a CoCo, a Dragon, a Vectrex or the simulator `usim`.  `writecocofile` puts it
on a disk image, from which a CoCo program reads its files through `stdlib/disk.c`, or,
without Disk Basic, through `readDECBFile()` and `dskcon_processSector()`, which drives
the floppy controller.

### Components

| Component | State | Operations, and who calls them | Hard behaviour | Correct when | Status |
|---|---|---|---|---|---|
| called functions (TranslationUnit.cpp) | `callGraph`, `called` flags, work list, `emittedFunctions` | the checker registers calls; `detectCalledFunctions()`; `emitAssembler()` | a list that grows while it is scanned; recursion; `asm{}` text that marks functions beside the list | exactly the reachable code is emitted | modelled, proved |
| expressions (BinaryOpExpr.cpp, UnaryOpExpr.cpp, CastExpr.cpp, FunctionCallExpr.cpp, ...) | the stack by convention | `emitCode()` of each tree, recursively | promotions, 8-bit shortcuts, operands waiting on the stack | the code computes the C value and leaves the stack as it was | bytes, words, pointers, arrays |
| statements (IfStmt.cpp, WhileStmt.cpp, ForStmt.cpp, SwitchStmt.cpp, JumpStmt.cpp, LabeledStmt.cpp) | generated labels, breakable labels, cases to come | `emitCode()` | jumps out of nested statements, two forms of a switch | control goes where C says | modelled for those types |
| scopes, frames (Scope.cpp, FunctionDef.cpp, Declaration.cpp) | nested scopes, displacements | `allocateLocalVariables()`, `emitCode()` | siblings share space | variables alive together do not overlap | partly |
| types, declarations, initializers | type descriptors, trees | parser, checker | sharing of descriptors | one descriptor per type | partly: types are given |
| assembly text (ASMText.cpp) | the list of elements | emitters append; the optimizer edits | indices while the list changes | no branch loses its label | partly |
| peephole optimizer (ASMText.cpp, ASMText2.cpp) | list, index, pass counter | `peepholeOptimize()` | ninety-five rules that enable or undo each other | meaning kept; ends at a fixed point | all levels; level 1 proved in part |
| frame pointer removal (ASMText.cpp) | offsets from S | after the passes | S moves with each push | every local is found | modelled |
| Pseudo6809 | values tracked per register and stack slot | level 2 rules | aliasing, unknown values | agrees with the 6809 | modelled |
| translation unit (TranslationUnit.cpp) | the rest of its maps; labels | `main()` | mostly errors and text | - | partly |
| command line and tool driver (main.cpp, util.cpp, Parameters.cpp) | lists of files to make, link and remove; the file system | `main()`, in stages | a tool, a write or a removal that fails between two stages; files of earlier commands | success means results of the inputs; nothing else changes | stages modelled |
| scanner, parser | - | `main()` | grammars | - | not modelled |
| 6809 simulator (usim-0.91-cmoc) | registers, flags, memory | `execute()` | flags at boundaries | the 6809 | the instructions emitted |
| disk image writer (writecocofile.cpp) | table, directory, granules | write, kill, read, list | failure between steps, half-written image, stale bytes, sizes at a boundary | a store of files by name | modelled, proved |
| disk.c | cached table, a descriptor per file | open, read, seek, rewind, length | cached table, sector and offsets updated apart, read errors | a random-access file | modelled, proved |
| read-disk-file.c, readDECBFile.c | - | read a file whole | an error in any sector | the bytes written, or an error | modelled as a function, proved |
| dskcon-standalone.c | the stack, NMIFLG, DRGRAM, RDYTMR, tracks, the controller | `dskcon_processSector()`, an IRQ, an NMI | interrupts between any two pieces; a controller that fails or is late | a store of sectors; motors that stop | modelled, proved |
| other run-time library, floating point, Vectrex BIOS | - | compiled programs | ROM calls | - | planned or external |

`PROJECT.json` says for each part what is left out and why.

## 2. The modules

    AsmText ──┬── PeepholeRules ──┬── Peephole ──────────┬── PeepholeProofs, MCPeephole
              │                   ├── ScanRules          │ (EXTENDS)
              │   Pseudo6809 ─────┴── RegisterRules ─────┼── PeepholeLevel2 ──┬── OptimizedFunctions
              │                       WindowRules        │                    │     ── MCOptimizedFunctions
              ├── M6809 ─────────────────────────────────┼────────────────────┤
              │                                          │ INSTANCE           └── CompiledFunctions
              └── ExprCodeGen ── StmtCodeGen ────────────┴── Compilation             ── MCCompiledFunctions
    TypedTrees ──┘                                           ── MCCompilation
       └── CSemantics ── SourceProgram (refined by Compilation)

    CalledFunctions ── CalledFunctionsProofs, MCCalledFunctions

    ToolFiles ── Driver ── MCDriver, DriverProofs

    DecbImage ──┬── CocoCommands ──┬── CocoFileStore
                │                  └── WriteCocoFile (refines CocoFileStore)
                │                        ├── WriteCocoFileProofs
                │                        └── WrittenFilesRead ── MCWriteCocoFile
                ├── DiskFile (refines RandomAccessFiles) ── MCDiskFile
                └── DecbImageProofs
    DiskFile, DecbImageProofs ── DiskFileProofs
    WrittenFilesRead, WriteCocoFileProofs, DecbImageProofs ── FileStoreProofs

    DskCon (refines SectorStore) ── DskConProofs, MCDskCon

Lines are EXTENDS, except where noted.  Some definitions are preceded by slips: the
definition with a plausible mistake in it.  No behaviour uses a slip; put in the place of
the definition, it makes a run find a property violated.

**CalledFunctions.**  The checker's visits (`VisitReference`, `VisitAsmReference`) fill
`callGraph`, in any order, up to `MaxVisits` references, to undeclared functions
also.  `PushRoot`, `StartScan`, `PushCallee`, `NextCaller`, `NextRound` and `EndScan`
are the two loops of `detectCalledFunctions()`, whose list is also its work list; the
roots come in any order, as the code iterates over a map.  `Mark` sets the flags;
`FirstPass` and `SecondPass` are the two passes of `emitAssembler()`, in which the
emission of a body resolves its `asm{}` text again.  What the emission of a body writes,
and prototypes that are declared twice, are left out.

**AsmText.**  The list of elements: an instruction is an opcode and an argument, a
record of mode, register, label and number in place of the string.  Its operators are
the searches and edits of ASMText.

**PeepholeRules, Peephole.**  The nineteen rules of `level1OptimFuncs`, each a function
of the list and an index, tried in the order of the table.  `StartPass` comments out
the labels that nothing names, `ApplyRule` is one iteration of the loop of
`peepholeOptimize()`, `EndPass` its end.  Level 0 starts at `done`.

**Pseudo6809.**  The simulation on which some level 2 rules rest: which bytes of A, B, X and
of the stack are known, which instruction loaded each, and which instructions refer to
it.  It folds over a run of instructions; an instruction that it does not know ends it.

**ScanRules, WindowRules, RegisterRules.**  The seventy-six rules of `level2OptimFuncs`, by
how they look at the list: a window of a few instructions, a scan ahead, a register that is
followed.  A rule is the rewritten list or `NoMatch`; two rules also edit without saying
so (`OrAndA_B`, `TransformPshsXPshsX`), and their result tells both.

**PeepholeLevel2.**  `peepholeOptimize()` whole: the passes, with the rules in the order of the
table (`Level2`), the removal of useless parameter saves, then `RemoveFramePointer` one
function at a time, which rewrites each offset from U as one from S, counting what was
pushed.

**TypedTrees.**  Trees as records with their types, constants and whether their value is used,
as ExpressionTypeSetter and Tree give them.  A program is written without types and
typed by `TypedFunction`.

**ExprCodeGen.**  The emission of expressions: every special case of the C++ for bytes, words,
pointers and arrays (a constant on either side, a comparison on 8 bits, a product by a
constant, `x + 1` on a variable, a condition that is a relation) is a case of its own.  An
operator takes what is emitted so far and returns it with its own part, so that labels
are numbered in the order in which the code asks for them.

**StmtCodeGen.**  The emission of statements and functions: the stack of breakable labels,
the cases of a switch and the choice of its form by cost, the frame: displacements of
parameters and of the locals of nested scopes, of which siblings share their space.
`HasMisplacedJump` is the check that refuses a break or a continue out of any loop.

**CSemantics, SourceProgram.**  What expressions, statements and functions mean, from the C
rules and CMOC's own types (it does not promote a byte to `int`), without looking at the
code emitted.  A state is the bytes of memory and the address of each variable; a call
gives its locals a place that no other has.

**M6809.**  The instructions that the generator and the rules produce, with N, Z, V and C
as mc6809in.cc computes them, on a window of memory that holds data, frames and
the stack; the routines of the run-time library that compiled code calls for products,
quotients and shifts are modelled by their results (external).

**Compilation.**  A function body is emitted, optimized (`Peephole` as an instance), started
with any values in its locals and with garbage in A and B, and executed one instruction per
step.  It implements `SourceProgram`: its locals, when it halts, are those of the
meaning.

**CompiledFunctions, OptimizedFunctions.**  Whole functions through the whole optimizer.  The
first compiles C functions that may call each other and compares a call on the 6809 with
the meaning (`MeansTheSource`); the second takes lists of instructions, among them many that
no C program compiles to, and compares each call before and after (`SameOutcome`).
Here the optimizer steps, and the execution of the result is a function of the final state.

**ToolFiles, Driver.**  `main()`: names of files, what they hold (of which inputs,
in which order, or torn), the linker script and the sections that it lays out; DECB blocks
joined into the one block of a DragonDOS file; and an action per stage.  A file is made by
a tool or not; each tool, each writing and each removal may fail (`AssemblerFails`,
`RefuseToRemove`, `OverwriteFails`...).  The three lists of intermediate files are kept as
the code keeps them, and `RemoveFile` empties them one file at a time, also on the way out
after an error.

**DecbImage.**  A disk image: `fat`, `dir`, `gran`; the chain of a file, its length, the
effect of adding a file, and `Sound`, a file system without cross-linked, dangling or
lost granules.

**CocoCommands, CocoFileStore, WriteCocoFile.**  The commands; what they promise, each one
step on a map from names to contents and a count of free granules; and the program:
`contents` is the image read into memory, the loops over granules are steps
(`FreeGranule`, `AllocateGranule`, `ExtractGranule`), `Commit` writes the file back and
`CommitFails` leaves a prefix of it written.  A failing command exits before
`Commit`, so its changes vanish with the process.

**WrittenFilesRead.**  `_CMOC_readDECBFile2()` as a function of an image, a name and the set of
sectors that cannot be read, and the composition of the two ends: in every state between two
commands of the writer, what the reader returns for each name.  The reader does not stop at
the end of a granule whose mark is above 0xC9; no chain of a sound table meets such a mark,
and `SectorsFrom` takes such a sector for one that cannot be read.

**RandomAccessFiles, DiskFile.**  What disk.h promises: files with a position; and the
library: `fat` with `fatUpToDate`, per file the granule and sector to be read next, the
offsets, and the bytes held of the sector.  One step per call, except `read()`, whose loop
takes a step for each sector; a sector (`SectorUnreadable`) or the table
(`TableUnreadable`, `TableLost`) may fail to be read.

**SectorStore, DskCon.**  What `dskcon_processSector()` promises: a request is answered, with
success only if the transfer was made.  DskCon is the routine: a step is a piece between
two points where an interrupt makes a difference, `pc` the label or line reached.  The
processor, the NMI that takes it out of the endless transfer loop to another label, the 60 Hz IRQ that
counts RDYTMR down and stops the motors, and the controller, whose heads are where
they are and not where the routine believes, interleave; a command may fail, lose data,
or be so late that the wait loop runs out.

## 3. The runs

Each passing run checks its properties together; each property has a mutant in
`PROJECT.json`, a slip under which the run finds it violated.

| Run | Shows |
|---|---|
| `called_functions` | the list is complete and minimal, what reached code names is emitted, the second pass adds nothing, the scan ends |
| `peephole` | level 1: no dangling label, a fixed point at the end, each change leaves less to do, it ends at `done`, so never at the limit of passes |
| `compilation` | stack discipline, the C meaning and halting of expressions, conditions and loops, at levels 0 and 1 |
| `optimized_functions` | at all levels, a function returns and leaves what it did before the optimizer; no rule of level 2 applies at the end, and the limit of passes is never reached |
| `compiled_functions` | C functions with frames, loops, switches, jumps, pointers, arrays and calls mean, at levels 0, 1 and 2, what their source means |
| `write_coco_file` | a sound disk between commands, the abstract store, files that the reader on the CoCo reads back, each command ends |
| `disk_file` | the sector held is that of the position, no assertion fails, reads deliver what the file holds and return |
| `dskcon` | the stack, the NMI flag, the motors and their timer under every interleaving of the interrupts; retries mask faults; a store of sectors; calls end and motors stop |
| `driver` | success means results of the inputs, a refused program is not left, nothing else is changed or left, a DragonDOS file loads what the blocks would |
| `tfr_dx`, `continue_in_switch`, `empty_file` | the code departs from its comments: section 5 |

### Bounds, and why they are enough

* `called_functions`: main, an external, two static functions and a prototype, with any
  three references: a chain main - static - static, cycles, self-recursion, a static
  reached from C and from `asm{}` only, and a reference to a function without a body all
  occur.  The theorems have no bound.
* `peephole`: every list of at most four elements over fifteen, each with any label placed
  once.  The patterns of the rules have at most four elements and the alphabet has each of
  those of a compare-and-branch, a push-and-add and a store-and-load.  `MaxIters` is 6 where
  the code has 300, so that a cycle of rules is an error soon, and
  `MaxShortBranchInstrs` 2 where it has 36, so that branches of both lengths occur.
* `compilation`: every operation on two operands out of four variables (a signed and an
  unsigned byte and word) and five constants, assigned to a word and to a byte, and the
  nested ones, pairs of statements, conditions and loops that MCCompilation lists; inputs at
  0, 1, 127, 200, 255, 300, 32767 and 65535; A and B hold 0 or 170 at the start.  The limits
  of the optimizer are those of the code.
* `optimized_functions`: functions with three arguments, one or more per rule that fires in the shape
  that the comment above it gives, and forms next to it that must not match; five
  triples of arguments at the boundaries of bytes and words; registers that hold 0 or 170
  before the call; the last five use globals (`l,PCR`, `#label`).  `MaxIters` is 20 instead of 300, and no function needs as many passes;
  `MaxSteps`, 60 instructions, is more than any of them executes.
* `compiled_functions`: a function for each operator, statement and special case of the
  generator, in its shortest form; parameters at 0, 1, 100, 128, 200, 255, 300, 32767 and
  65535 according to their types, divisors that are not 0; global variables at addresses 1
  to 21, in which arrays lie next to each other, so that a store out of its place shows;
  a recursion of four calls.  2^`LogMaxSteps` = 256 instructions bound a call.
* `write_coco_file`: two bytes per sector, two sectors per granule, four granules with the
  directory between the second and the third, two entries, each in a directory sector of
  its own; natives of no byte, less than a sector, exactly a granule, one byte more, three
  granules and more than the disk holds; fifteen commands besides the listing; a formatted
  disk and one that Disk Basic left, with a killed entry, a chain that descends and a boot
  granule.  A disk that is full of granules, and one full of entries, occur.  For the reader,
  every sector fails in turn.  The theorems have no bound.
* `disk_file`: the same geometry, two drives with two files each (five bytes on descending
  granules, an empty one, three bytes, two whole granules), two descriptors, reads of one
  and six bytes, four positions.  The theorems have no bound.
* `dskcon`: two drives of three tracks with two sectors, five requests (a restore, the
  operation that does nothing, a write, reads on the innermost track and on the other
  drive), so that a head is moved in, out and not at all; four attempts, of which the code
  has five, and three faults, so that the retries suffice or not; the motors stop after two
  ticks instead of 120.  The theorems have no bound.
* `driver`: thirty-eight command lines of one to three inputs out of C, assembly, object and
  library files, in and out of a directory, with each mode and option that `main()` tells
  apart, in an empty directory and in one that has a file of every name an earlier command
  could leave; sizes with which the program ends exactly at the limit and one byte beyond;
  an address space of twelve bytes, and every list of at most two blocks out of eight,
  disjoint, adjacent, overlapping, nested and empty.

`CHECK_DEADLOCK FALSE` is said where the program ends (the optimizer, a compiled body, a
command of the driver) or stops (after a torn image or an assertion).

### What the runs leave out

The code departs from C, or from itself, also where no document promises otherwise.

*In `compilation`* these forms are excluded (operators of MCCompilation):

* `WordValueInB`: `uc | 1000` computes B only (BinaryOpExpr.cpp:548).
* `HighByteConst`: `sc == 255` is true of -1 (BinaryOpExpr.cpp:1677).
* `UnpromotedSum`: a byte sub-expression plus a 16-bit constant adds on D without extending B
  (BinaryOpExpr.cpp:963).
* `OrOfBytes`: `||` of two bytes leaves the byte that was tested, not 1 (BinaryOpExpr.cpp:1933).
* `FoldedOrder`: constants are compared as `uint16_t`, so `-1 < 0` is 0 (Tree.cpp:545), while
  variables take a signed branch.
* `MixedBytes`: bytes of different signedness are compared by CMPB; the manual calls mixed
  signedness implementation-defined (cmoc-manual.markdown:720).
* The word $8000: the simulator's V flag of a subtraction negates it to itself
  (mc6809in.cc:457).

*In `compiled_functions`*, besides: `c <<= 8` and unsigned `c >>= 8` on a byte, where
`emitShift()` stores B through an X that was not set (BinaryOpExpr.cpp:2244); `/=` and `%=` with
a byte on the left, which lose A of the divisor; `w += (signed char) -1`, which adds 255
(:2476); a negative difference of pointers, which LSRA halves as unsigned; a `continue` in
`do ... while (0)`, whose label is never emitted (WhileStmt.cpp:76); a `continue` in a switch
(section 5); a case that a byte cannot have, which a comparison still matches by its low byte;
`int a = b, b = 1;` in an inner scope, resolved before its point.

*In `optimized_functions`* code is given in the shapes that the generator makes.  On other
lists some rules change the meaning: `removePushB`, `removeRepeatedLDX`, `optimizeLdx`,
`optimizeIndexedX2`, `transformPshsDPshsD`, `removeUnusedLoad`, `removeConsecutivePshsPul` and
`removeLDDAfterPushingD` overlook an intervening store, a later read or the flags;
`removeUselessTfr2` and `optimizeDXAliases` skip an element; `mul16ByConstant` assumes that A
is 0; `removeFramePointer` needs S balanced at the label of the return.  The model makes the
same rewrites; the lists on which they go wrong are not in the run, except in `tfr_dx`.
At level 1 `stripConsecutiveLoadsToSameReg` exempts an LDB that reads through X, but not an LDD
(ASMText2.cpp:291): it would drop the load of D that a following LDD D,X needs.  The generator puts
a LEAX D,X before it.
`optimizeStackOperations3`, `optimize16BitStackOps2` (an earlier rule takes its patterns) and
the two rules on calls of function pointers fire on none of the lists.

*In `write_coco_file`*: `--newlines` drops a last line without a newline (writecocofile.cpp:914)
- the model does so, and the native files given to it end with one; `--kill` of a name that is
too long kills the file of its first eight characters (:548) - the model does so too, and no
command there kills such a name; images that are not sound, among them those that `CommitFails`
leaves; two commands at once on one image; empty files in `FilesReadBack` (section 5).

*In `disk_file`*: positions at the end of a file of whole sectors, where `seek()` fails an
assertion (disk.c:287; `SeeksEnds`); a change of drive without resetting `fatUpToDate`, which the
comment of disk.c asks for (`ForgetsFAT`); going on with a file while another drive is the
default one; a program that goes on after the table was lost in a `read()`, which the code's
comment hopes it does not (disk.c:439); a table that fails at one attempt and is read at the
next within one call; empty files as writecocofile marks them.

*In `dskcon`*: density, precompensation and the HALT line; the level of INTRQ, of which only the
edge that raises the NMI is modelled; the counters of the wait loops, which run out only where a
command is late.  Operation 1 does nothing, with success.

*In `driver`*: parsing of options, `-L`, `-x`, forced formats, symbols and sections of libraries,
listings that `lwasm` leaves when it fails, an output that has the name of an input.

### Disagreements met and not run

No property of a run covers these; each is plain from the two lines.

* A static function that only `asm{}` text names is emitted, but not the static functions it
  calls, if the text is not in reached code (TranslationUnit.cpp:1324, AssemblerStmt.cpp:553).
* A branch is shortened over 36 instructions (ASMText2.cpp:394), which may be more than the 127
  bytes it reaches; the comment at :364 says 28.
* `writecocofile --read` that cannot create the native file says that it wrote it, and succeeds
  (writecocofile.cpp:809 and :820).
* After a change of drive, a file is opened with the table of the old one (disk.c:165, disk.h:87).
* `readDECBFile()` takes its IRQ handler away right after the read (readDECBFile.c:90), so the two
  seconds after which the motor is turned off (dskcon-standalone.c:136) never end.  A restore
  that times out ends with DCSTA 0.
* `-E` and `--deps-only`, "Same, but do nothing else and stop" (Parameters.cpp:149), remove a `.s`
  and a `.lst` that the user kept.
* With `--intdir`, an object file given without a directory is looked for there.  `cmoc a.c a.s`
  overwrites and removes `a.s`.  The `.lst` of an assembly input is named after the last C file
  (main.cpp:1623).
* `checkLinkingMap()` "Checks for and reports multiply defined symbols" (main.cpp:225) except
  those that are also the name of a static one (:305); an unreadable map leaves the program
  unchecked; with `--data`, or for OS-9, the end that is compared with the limit is not that
  of the whole program; a `#pragma` limit wins over the switch.
* A DragonDOS program with a block that ends at $10000 is written empty, as `end()` is cut to
  16 bits.

### Fairness

Most programs here are sequential and keep running, so weak fairness of the next step
is all that is assumed: of `Next` for the called functions, the compiler of level 1 and the
compiled body, of `Step` for a command of writecocofile that has started (that a user starts
another one is not assumed), of `ReadStep` for a `read()` in progress (that a disk fails is not
assumed).  `Terminates`, `Halts`, `CommandsEnd` and `ReadsReturn` rest on it.

DskCon assumes it of `Processor`, which runs, of `NmiService` and `IrqService`, as the 6809 takes an
NMI at once and the 60 Hz interrupt keeps coming, and of `Punctual`: a controller that is not
late answers, and one that has begun a transfer ends it.  Nothing is assumed of a late one, nor of
callers.  `CallEnds` and `MotorStops` rest on it; the latter would fail if a pending NMI could keep
the IRQ away for ever.

The level 2 optimizer has no liveness property (its ENABLED is too slow to evaluate);
`NeverTooManyIterations` and the check for deadlocks take its place.  The driver's stages only go
forward.

## 4. The theorems

TLAPS checks every leaf; constants are subject to the named assumptions of their modules
and to nothing else.

* `CalledFunctionsProofs`: `TypeCorrect`, `ListIsComplete`, `ListIsMinimal`,
  `ReachedCodeIsClosed`, `SecondPassEmitsNothing`, for every program.  The invariant says
  that what lies before the index of the scan has all its callees in the list (`ScanInv`),
  that every element is in each closed set that holds the roots (`ListMinimal`), that all
  `asm{}` references are marked (`MarkInv`), and that the definitions behind the position of
  the first pass are emitted if and only if marked or external (`EmitInv`).  `ScanInv` is
  what makes completeness inductive: the property itself speaks of the end only.
* `PeepholeProofs`: `PeepholeTypeCorrect`, `BranchesKeepTheirLabels`, `OptimizedIsFixedPoint`,
  `PassesSpend`, for every list of elements and all limits, at level 1.  Each rule derives its result
  (`Derived`): no label goes and no label is named that was not named, a lemma per rule; the
  removal of labels keeps those that are named.  For the fixed point, the invariant says that in
  a pass that has changed nothing no rule applies at any index already passed
  (`NothingBefore`), and that the passes completed are below the limit.  For convergence, each
  element has a `Credit`, and `Work` is the set of all credits: every rule and the removal of labels
  make it smaller (`Improved`, in the lemmas of the rules).  A rule that lengthens the list (an
  LDD of 0 becomes two instructions: `Divided`) or makes a short branch long (it removes a jump, `Traded`)
  spends what the LDD and the jump had.  So the passes are no more than
  the credits at the start (`Spent`, `PassesAreBounded`), at most five per element (`FiveEach`), and
  `LimitIsNotMet`: the fatal error of too many passes never comes where the limit is
  beyond that (`LimitIsAmple`; the 300 of the code, up to 59 elements of any kind).
  For longer functions that it does not come is not proved: `LessToDo` still excludes a cycle of
  rules, but the limit may be met before the credits are spent.
* `WriteCocoFileProofs`: `WriterTypeCorrect`, `DiskStaysSound`, for every geometry, image and
  set of commands.  Soundness holds on disk between commands only, so the invariant says
  what the image in memory is at each step: sound; or sound if the entry that `killFile()`
  is freeing is taken to start where its loop has come to (`UnlinkHead`, `FreeLast`); or
  sound with distinct free granules set aside by `allocateGranules()`, which `addFile()` links
  at once (`AddChain`).  `SearchIsComplete` says that the search by name finds the
  only entry of that name, so that no name is entered twice.
* `DecbImageProofs` holds the lemmas on images that the next two rest on.  The library's induction
  theorems cannot be used, so it derives induction over the naturals from their order being
  well-founded (`Induction`, `Least`) and iterates a function (`Iterate`), which gives the
  equations of `Chains` and `FilesFrom`.  In a sound table, the links from a head lead to
  different, allocated granules (`LinksLeadOn`), so that they end in a mark before there are
  too many: `ChainOfEntry`.  `FileOfChain` says which byte of which granule each byte of a file is.
* `FileStoreProofs`: `ImplementsFileStore`: writecocofile implements CocoFileStore; and
  `WrittenFilesAreRead`: what it wrote is read back, whichever sectors fail.  For every
  geometry, image and set of commands; `TidyImages` asks of the images that every file has the
  granules that its length needs and that every granule which is not free is in a file or a
  boot granule, `PlainUse` of the commands that they avoid the two departures from the help page
  of section 3, an incomplete last line and a native file that cannot be created.
  MCWriteCocoFile assumes both, so that TLC evaluates them on the images and
  commands of the run.  The invariant (`StoreInv`) says what the image in memory is of the one on disk:
  the granules before the one at hand are freed (`KillingInOrder`); the file of the name is
  gone and all else is the same (`WithoutFile`, `Leaves`); no free granule was passed over
  (`AllocatingInOrder`), so that a search that fails means a full disk; the file is added
  (`Adds`); the bytes extracted are those of the granules passed (`ExtractingInOrder`); and that the
  disk stays tidy, or the count of free granules would not be that of the files.  `Start` maps to
  `Enter`; `Open`, where it fails, `BeginAdd`, `OutOfSpace`, `OutOfEntries` and a `FindToExtract`
  that finds nothing to a write or a read that is refused; `Commit` to `Write` or `Kill`;
  `CommitFails` to `WriteFails`, which only a kill, or a write of a file that fits, may take, so that
  what is saved for want of room would be refuted: any prefix of the blocks leaves the other files as they were, as
  their granules are those of both images (`PartLeaves`); `ExtractLastGranule` to `Read` and
  `ListDirectory` to `List`.  All other steps stutter.  For the reader, each sector of
  a chain holds the bytes that follow those before it, and the one taken next is the next
  one of the file or behind its end (`SectorsInTurn`, `ReadsOn`).
* `DiskFileProofs`: `SectorsAtPositions`, `AssertsHold`, and `ImplementsRandomAccess`: disk.c implements
  RandomAccessFiles.  For every geometry, any disks with sound tables, any number of
  descriptors, sizes and positions.  The hypotheses are the rules of use of section 3:
  `ForgetsFAT`, which the comment of disk.c asks for, and not `SeeksEnds`, without
  which an assertion does fail.  The invariant says that a table marked up to date is that of
  the default drive (`TableInv`), that a `read()` in progress has delivered the bytes before the
  position (`CallInv`), and of each open file that the sector held is the one in which the
  position lies and that granule and sector to be read next follow it in the chain
  (`Positioned`, `NextIsAt`).  `Walk` is shown to find the granule of a position (`SoughtAt`); then
  `GetNextSector` stutters, and the step in which `read()` returns delivers all it was asked
  for, or what is left, or less after an error (`Returned`).
* `DskConProofs`: `TypeCorrect`, `StackIsDisciplined`, `NmiIsOnlyInTransfer`, `MotorIsAtSpeed`,
  `TimerWillStopMotor`, `RetriesSuffice`, and `KeepsThePromise`: DskCon implements SectorStore.  For all drives,
  tracks, sectors, requests, retries, delays and faults.  Each invariant rests on those
  before it: `Control` ties each label to a shape of the stack, so that every RTS goes back to a
  known label, and the NMI flag to the labels of a transfer; `Masked` says where interrupts are
  masked; `Kinds` gives the types; `MotorsOK` says at each label which of the register, its image and
  the timer may still be changed by the IRQ.  The refinement needs `Agreement`: at rest the
  controller has no command (`Quiet`), the stack tells what was asked for (`StackAgrees`), a
  seek goes to the track of the request (`Seeking`), from its success to the end of the transfer the
  controller's registers hold that track and sector (`OnTrack`), and a status without errors
  means that the bytes have gone over (`Answers`).  The controller reads the sector under the
  head; that this is the one of the request is what the theorem is about.  For the retries
  (`Budget`), the count of attempts that are left is read off the stack, wherever the routine is
  (`Left`): every attempt that is over has cost a fault, but one that may be lost to a head
  left elsewhere by another program (`Owing`), and the one in progress has either cost its fault
  already (`Paid`) or is on a way that ends with success unless the controller fails (`Succeeding`).
* `DriverProofs`: `InputsAndOthersSurvive` and `OnlyOutputsAreLeft`, the whole of
  `OnlyOutputsChange`, for all commands, names, pragmas and files that were there before: cmoc
  changes no input, unless another input has its name, and no file whose name it does not use,
  and where intermediate files are not kept and every file could be removed, what it leaves that
  was not there is what it was asked to make.  `NamesAssumption` asks that `-o` does not
  name an input, nor a file whose `.d` is one; `AddressesAssumption`, that addresses have 16 bits,
  as their types say.  The files a command may change are `Mine`; the
  invariant says that every list of files to be removed holds such files only (`Lists`) and
  that all others are as given (`Untouched`).  What the linker makes has the name of the first input,
  which is safe only as no input has the extension of an executable; so `Control` says that
  the linker comes after all inputs have been taken and are of a known kind, and that
  `asmFilename` is that of the C file in hand.  For what is left, `Accounted` says that at every
  step each file that was not there is a product or is in a list that is still to be gone through
  (`Awaiting`): which list depends on the stage, and on the way from the loop over the inputs to
  that over the linker's files the objects are in none but `intermediateObjectFiles`; so `Noting` says that
  the linker is skipped only where nothing is noted there or the loop ended early, when the objects
  count as products.

  `DragonFileLoadsTheSame`: what the one block of a DragonDOS file loads is what the linker's
  blocks load, by induction over the blocks: a splice writes the bytes of its block and leaves all
  others (`DragonLoadsTheSame`).  It assumes `BlocksEndInside`; without it the file is empty, as
  section 3 says.  `BlocksAssumption` says that addresses and bytes are numbers of 16 and 8 bits.
  `BadExecutablesAreNotLeft`: a program that is beyond the limit or defines a name twice is not
  left.  That the address compared with the limit is the end of the whole program is a fact about the script,
  for any modules and sizes (`EndOfContiguous`): no section but the first is placed, and the one that marks the
  end comes last and is empty, which `SizesAssumption` says as the compiler puts a label in it.  The
  invariant ties the map to the program that it is of (`AsLinked`) and says what each stage knows of
  it (`Checked`); `MadeOfModules`, that what is linked are modules and libraries are none.  It
  assumes `StaticsHideNothing`, as `checkLinkingMap()` excuses the name of a static
  symbol (section 3).  MCDriver assumes both, so that TLC evaluates them for the run.
  `SuccessIsOfTheInputs`: success means that the results are those of the inputs.  While nothing
  has failed, each input that was taken has been made into what was asked for (`Made`), and no later step
  writes over it: not the translation of another input (`Apart`, `LoopWrites`), as what
  it writes has another name or extension, nor the removal of temporaries (`Sparing`),
  nor the linker (`LinkNames`).  What the linker is told, noted one file at a time, is the
  list of the objects of the inputs taken (`Listed`, `OneTaken`), and the assembler is given what was emitted for
  the input in hand, not a `.s` of an earlier command (`Emitted`).  The theorem is about commands with
  `PlainNames`: no input that is translated or is an object has the base name of another that is
  translated; an object that is given is where the linker looks for it; and `-o` names no
  `.s`, `.lst`, `.d`, `.link` or `.map`, no `.o` where a program is made, and with
  `-c` or `-S` there is one input.  `main()` tests none of this, and without it success may mean the results of
  another input (section 3); the run has such commands too, and TLC finds them end with failure
  or with the right results.
  The lemmas on folds (`FoldLeft`, and with it the lists of section 3's properties) are proved from its
  definition by induction over the length, which is derived from the order of the naturals being
  well-founded (`LeastNumber`, `Induction`).

Only model-checked: `Implements`, `SameOutcome` and `MeansTheSource`, as the generator is written
with RECURSIVE operators and M6809 with Bitwise, which the provers do not take; Compilation's
`StackDiscipline`, for the same reason; `NeverTooManyIterations` at level 2, whose rules this measure
does not fit (some change an argument only, one makes an LDD and another splits one); `FixedPoint2`: two of the 76 rules of level 2 (`OrAndA_B`,
`TransformPshsXPshsX`) change an element and report that they have not, so that nothing but the other
rules' patterns keeps a pass that reports no change from leaving one that applies; liveness; the
calls of DiskFile that seek the end of a file or change the drive without `fatUpToDate`, which are
in no run either.

## 5. Findings

| Run | The code | The document |
|---|---|---|
| `tfr_dx` | `removeTfrDX()` asks for the effects of the first LDD where it means the instruction it looks at: LDD, TFR D,X becomes LDX although D is read afterwards | ASMText2.cpp:2612, "If we read A or B before writing, then we can't do this" |
| `continue_in_switch` | a `continue` in a switch in a loop is accepted and compiled to nothing | JumpStmt.cpp:191, "error message issued elsewhere" |
| `empty_file` | `readDECBFile()` fails with 4 on an empty file of writecocofile, which marks it 0xC0 where the reader tests for 0xC1 | stdlib/read-disk-file.c:80, "Check for empty file" |

Section 3 lists those that no run covers.

## 6. The plan

Done: called functions; emission, optimization at all levels and execution of functions over
bytes, words, pointers and arrays; the image writer and its readers; the sector routine; the
stages of the driver.

Next, in this order:

1. Images that a torn write left: which commands of writecocofile repair them, lose files or fail.
2. Types: the uniqueness of descriptors in TypeManager, structures, initializers; then members,
   structures as values, longs (calls to the run-time library) and function pointers in
   TypedTrees and ExprCodeGen.
3. Library: sbrk against the stack, strtok, qsort, DIV16.
4. Options: Parameters.cpp, the formats of the output, the search for libraries.

Theorems next: a measure for the rules of level 2; that `Lowers` is what the 6809 does to S, as
the ground of `removeFramePointer`.
