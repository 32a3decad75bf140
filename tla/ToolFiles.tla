------------------------------- MODULE ToolFiles -------------------------------
(* The files that src/cmoc/src/main.cpp and its tools pass to each other: how  *)
(* they are named (src/cmoc/src/util.cpp, src/cmoc/src/Parameters.cpp), what   *)
(* they hold, and the script by which the linker lays out a program.           *)
EXTENDS Integers, Sequences, SequencesExt, FiniteSetsExt

CONSTANTS
    Bases,      \* names of modules and programs, without directory and extension
    Defines,    \* the symbols with external linkage of the module of each name
    Statics,    \* the static ones of each
    Sizes,      \* the size of each section in the module of each name
    AddressSpace  \* 65536: the number of addresses

ASSUME AddressAssumption == AddressSpace \in Nat \ {0}

\* The compiler puts nothing but a label in the section that marks the end.
ASSUME SizesAssumption ==
    \A base \in Bases :
        /\ \A name \in DOMAIN Sizes[base] : Sizes[base][name] \in Nat
        /\ "program_end" \notin DOMAIN Sizes[base]

----------------------------------------------------------------------------
(* Names: a directory, a base, an extension. *)

\* The directory where a name has no slash; the extension where it has no dot.
NoPart == ""

\* replaceExtension()
ReplaceExtension(p, ext) == <<p[1], p[2], ext>>

\* useIntDir(): the name in the directory of --intdir, unless it has a slash.
UseIntDir(intdir, p) == IF intdir = NoPart \/ p[1] # NoPart THEN p ELSE <<intdir, p[2], p[3]>>

\* The module of an input file: its name without directory and with another extension.
ModuleFile(p, ext) == <<NoPart, p[2], ext>>

\* isCFileExtension(), without -x.
IsCFile(p) == p[3] = ".c"
IsAsmFile(p) == p[3] \in {".s", ".asm"}
IsHeaderOrC(p) == p[3] \in {".c", ".h"}

----------------------------------------------------------------------------
(* Contents: a kind and the source files it was made of; the end address in a *)
(* map, the sections in a script, the blocks in an executable.                *)

File(kind, of) == [kind |-> kind, of |-> of, end |-> 0, sections |-> <<>>, blocks |-> <<>>]
Absent == File("absent", <<>>)
Torn == File("torn", <<>>)

Exists(fs, p) == fs[p].kind # "absent"

----------------------------------------------------------------------------
(* The script of the linker. *)

NoAddress == 65535  \* 0xFFFF: --limit or --data not given

\* A section with the address where it is loaded, or none.
NoLoad == -1
Placed(name, load) == [name |-> name, load |-> load]
After(name) == Placed(name, NoLoad)

ConstructorSections == <<After("constructors_start"), After("constructors"), After("constructors_end")>>
DestructorSections == <<After("destructors_start"), After("destructors"), After("destructors_end")>>
InitGLSections == <<After("initgl_start"), After("initgl"), After("initgl_end")>>

Data(data) == IF data = NoAddress THEN After("rwdata") ELSE Placed("rwdata", data)

\* A slip: the end of the program is marked before its data on all platforms.
LinkScriptEndFirst(platform, code, data) ==
    <<Placed("start", code), After("code")>> \o ConstructorSections \o DestructorSections
        \o InitGLSections \o <<After("rodata"), After("program_end"), Data(data), After("bss")>>

\* createLinkScript(): the order of the sections, with the addresses of some.
LinkScript(platform, code, data) ==
    LET writable == <<IF platform = "OS9" THEN Placed("rwdata", 1) ELSE Data(data), After("bss")>>
    IN  <<Placed("start", code), After("code")>> \o ConstructorSections \o DestructorSections
            \o InitGLSections \o <<After("rodata")>>
            \o (IF platform = "OS9" THEN <<After("program_end")>> \o writable
                ELSE writable \o <<After("program_end")>>)

\* What the linker does with the script (lwlink is not in the repository): a section
\* goes where it is loaded, or behind the one before; the modules' parts in order.
PartOf(module, name) == IF name \in DOMAIN Sizes[module[2]] THEN Sizes[module[2]][name] ELSE 0
Total(sizes) == FoldLeft(LAMBDA n, size : n + size, 0, sizes)
SizeOf(modules, name) == Total([i \in DOMAIN modules |-> PartOf(modules[i], name)])
StartOf(s, end) == IF s.load = NoLoad THEN end ELSE s.load
Laid(modules, es, s) ==
    LET start == StartOf(s, IF es = <<>> THEN 0 ELSE es[Len(es)].end)
    IN  Append(es, [name |-> s.name, start |-> start, end |-> start + SizeOf(modules, s.name)])
Extents(script, modules) == FoldLeft(LAMBDA es, s : Laid(modules, es, s), <<>>, script)
ProgramEnd(script, modules) ==
    LET es == Extents(script, modules)
    IN  es[CHOOSE i \in DOMAIN es : es[i].name = "program_end"].start

----------------------------------------------------------------------------
(* The check of the map that the linker wrote. *)

\* The names that the modules in a list define more than once; a module that is
\* linked twice defines each of its names twice.
DefinedTwice(modules) ==
    {sym \in UNION {Defines[modules[i][2]] : i \in DOMAIN modules} :
        \E i, j \in DOMAIN modules :
            i < j /\ sym \in Defines[modules[i][2]] \cap Defines[modules[j][2]]}

\* Those that checkLinkingMap() reports: a static symbol anywhere excuses its name.
MultipleDefinitions(modules) ==
    DefinedTwice(modules) \ UNION {Statics[modules[i][2]] : i \in DOMAIN modules}

ExceedsLimit(limit, end) == limit # NoAddress /\ end > limit

----------------------------------------------------------------------------
(* How an executable of several blocks, as Disk Basic loads it, becomes the   *)
(* one block of a DragonDOS file.                                             *)

\* BinFormatBlock: a block has an address and contents; end() is cut to 16 bits.
Block(address, contents) == [address |-> address, contents |-> contents]
EndOf(b) == (b.address + Len(b.contents)) % AddressSpace

\* formSingleBlock(): where the block starts and ends.
StartAddr(bs) == Min({b.address : b \in {bs[i] : i \in DOMAIN bs}} \cup {AddressSpace - 1})
EndAddr(bs) == Max({EndOf(bs[i]) : i \in DOMAIN bs} \cup {0})

\* A slip: the contents are inserted and nothing is erased.
SpliceKeepsOld(buffer, at, contents) ==
    SubSeq(buffer, 1, at) \o contents \o SubSeq(buffer, at + 1, Len(buffer))

\* The contents take the place of as many bytes of the buffer, after the first at.
Splice(buffer, at, contents) ==
    SubSeq(buffer, 1, at) \o contents \o SubSeq(buffer, at + Len(contents) + 1, Len(buffer))

\* formSingleBlock(): the blocks are laid one after the other over zeroes; where
\* the end comes before the start, as unsigned numbers, the block is left empty.
SingleBlock(bs) ==
    IF bs = <<>> THEN Block(0, <<>>)
    ELSE LET start == StartAddr(bs)
             length == EndAddr(bs) - start
         IN  IF length < 0 THEN Block(start, <<>>)
             ELSE Block(start,
                        FoldLeft(LAMBDA buffer, b : Splice(buffer, b.address - start, b.contents),
                                 [n \in 1..length |-> 0], bs))

----------------------------------------------------------------------------
(* What the loaders of both systems do with the blocks of a file, one after   *)
(* the other (they are in ROM and not in the repository).                     *)

Covers(b, a) == a - b.address \in 0..(Len(b.contents) - 1)
ByteOf(b, a) == b.contents[a - b.address + 1]

\* The byte that loading the blocks leaves at an address, of what was there.
LoadedAt(bs, a, before) ==
    FoldLeft(LAMBDA byte, b : IF Covers(b, a) THEN ByteOf(b, a) ELSE byte, before, bs)

\* The addresses that some block covers.
Covered(bs) == {a \in 0..(AddressSpace - 1) : \E i \in DOMAIN bs : Covers(bs[i], a)}
=============================================================================
