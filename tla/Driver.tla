-------------------------------- MODULE Driver ---------------------------------
(* main() of src/cmoc/src/main.cpp: the preprocessor, the compiler, the        *)
(* assembler and the linker are run on the files of a command line, one after  *)
(* the other; each may fail, and what is left of the files they made is        *)
(* removed.  The tools themselves are not in the repository.                   *)
EXTENDS ToolFiles

CONSTANTS
    Commands,    \* command lines: inputs and options
    Directories, \* directories of files, NoPart where a name has no slash
    Extensions,
    Pragmas,     \* the org, limit and data pragmas in the C file of each name
    Stale,       \* sets of extensions: files of all names that have them exist before
    Missing,     \* input files that do not exist
    BlockLists   \* the blocks that the linker may make of a program

\* An address is a 16-bit number, and a block has as many bytes as its length says.
ASSUME BlocksAssumption ==
    BlockLists \subseteq Seq([address : 0..(AddressSpace - 1), contents : Seq(0..255)])

Paths == Directories \X (Bases \cup {NoPart}) \X Extensions

VARIABLES
    command,  \* the command line
    given,    \* the files before the command
    fs,       \* the files now
    pc,       \* what comes next
    argi,     \* the number of the input file
    status,   \* "success" until something fails
    address,  \* the code address, the data address and the limit in force
    objectFilenames, libraryFilenames,
    intermediateCompilationFiles, intermediateObjectFiles,
    asmFilename,  \* the .s file of the last C file
    toRemove,     \* the files that a loop has yet to remove
    warned,       \* a file could not be removed or the map not read, and cmoc said so
    blocks        \* the blocks read from the executable

lists == <<objectFilenames, libraryFilenames, intermediateCompilationFiles,
           intermediateObjectFiles, asmFilename>>
vars == <<command, given, fs, pc, argi, status, address, lists, toRemove, warned, blocks>>

----------------------------------------------------------------------------
(* The command line. *)

compileOnly == command.mode # "link" \/ command.platform = "INTERM_REP"
genAsmOnly == command.mode = "asm" \/ command.platform = "INTERM_REP"
depsOnly == command.mode = "deps"
kept == command.kept

Input == command.inputs[argi]

\* getDefaultOutputExtension()
ExecutableExtension == IF command.platform = "OS9" THEN NoPart ELSE ".bin"

\* The argument of -o, or the name of the first input.
NoOutput == <<>>

\* A command has inputs, and is not told to write one of them, nor beside one of them.
ASSUME NamesAssumption ==
    /\ NoPart \in Directories /\ NoPart \notin Bases
    /\ {NoPart, ".s", ".lst", ".o", ".json", ".d", ".bin", ".link", ".map"} \subseteq Extensions
    /\ \A c \in Commands :
          /\ c.inputs \in Seq(Directories \X Bases \X Extensions) /\ c.inputs # <<>>
          /\ c.intdir \in Directories
          /\ c.output # NoOutput =>
                /\ c.output \in Directories \X Bases \X Extensions
                /\ \A i \in DOMAIN c.inputs :
                      c.inputs[i] \notin {c.output, ReplaceExtension(c.output, ".d")}

\* The addresses of the command line and of the pragmas are 16-bit numbers.
Addresses == [{"code", "data", "limit"} -> 0..NoAddress]
ASSUME AddressesAssumption ==
    /\ \A c \in Commands : {c.code, c.data, c.limit} \subseteq 0..NoAddress
    /\ \A base \in Bases : Pragmas[base] \in Addresses

Executable ==
    IF command.output # NoOutput THEN command.output
    ELSE ModuleFile(command.inputs[1], ExecutableExtension)
LinkScriptFile == UseIntDir(command.intdir, ReplaceExtension(Executable, ".link"))
MapFile == UseIntDir(command.intdir, ReplaceExtension(Executable, ".map"))

IsTranslated(p) == IsCFile(p) \/ IsAsmFile(p)

\* The file that an input is translated to.
CompilationOutput(p) ==
    IF compileOnly /\ command.output # NoOutput THEN command.output
    ELSE UseIntDir(command.intdir,
                   ModuleFile(p, IF command.platform = "INTERM_REP" THEN ".json" ELSE ".o"))

ListingOf(p) == UseIntDir(command.intdir, ModuleFile(p, ".lst"))
DependenciesOf(p) == ReplaceExtension(CompilationOutput(p), ".d")

----------------------------------------------------------------------------
(* The start. *)

\* What is in a file of an input, and in one that an earlier command left.
SourceKind(ext) == CASE ext = ".c" -> "c" [] ext \in {".s", ".asm"} -> "asm"
                     [] ext = ".o" -> "obj" [] OTHER -> "other"
Before(c, stale, p) ==
    IF p \in Missing THEN Absent
    ELSE IF p \in {c.inputs[i] : i \in DOMAIN c.inputs} THEN File(SourceKind(p[3]), <<p>>)
    ELSE IF p[3] \in stale THEN File(SourceKind(p[3]), << <<"old", p[2], p[3]>> >>)
    ELSE Absent

Init ==
    /\ command \in Commands
    /\ \E stale \in Stale : given = [p \in Paths |-> Before(command, stale, p)]
    /\ fs = given
    /\ pc = "input"
    /\ argi = 1
    /\ status = "success"
    /\ address = [code |-> command.code, data |-> command.data, limit |-> command.limit]
    /\ objectFilenames = <<>> /\ libraryFilenames = <<>>
    /\ intermediateCompilationFiles = <<>> /\ intermediateObjectFiles = <<>>
    /\ asmFilename = <<NoPart, NoPart, NoPart>>
    /\ toRemove = <<>>
    /\ warned = FALSE
    /\ blocks = <<>>

----------------------------------------------------------------------------
(* Parts of the steps. *)

Keep(vs) == UNCHANGED <<command, given, vs>>

\* A file is written, or is left as it was or half written where that fails.
Written(p, f) == fs' = [fs EXCEPT ![p] = f]
NotWritten(p) == \E f \in {fs[p], Torn} : fs' = [fs EXCEPT ![p] = f]

\* What a tool that fails leaves of its output: it is untouched, gone or half written.
Spoiled(p) == {fs[p], Absent, Torn}

\* removeIntermediateCompilationFiles() comes after the loop, however it ended.
ToRemove(ok, files) == IF kept THEN <<>> ELSE files

\* The loop goes on with the next input, or ends.
NextInput ==
    /\ pc' = "input"
    /\ argi' = argi + 1
    /\ UNCHANGED <<status, toRemove>>
EndInputs(ok, compilationFiles) ==
    /\ status' = IF ok THEN status ELSE "failure"
    /\ pc' = "clean"
    /\ toRemove' = ToRemove(ok, compilationFiles)
    /\ UNCHANGED argi

----------------------------------------------------------------------------
(* The loop of main() over the inputs. *)

AllInputsTaken ==
    /\ pc = "input" /\ argi > Len(command.inputs)
    /\ EndInputs(TRUE, intermediateCompilationFiles)
    /\ Keep(<<fs, address, lists, warned, blocks>>)

AtInput == pc = "input" /\ argi <= Len(command.inputs)

IsLibraryOption(p) == p[3] = "-l"

\* The input does not exist, or is of no known kind.
InputRefused ==
    /\ AtInput
    /\ \/ ~IsLibraryOption(Input) /\ ~Exists(fs, Input)
       \/ ~IsTranslated(Input) /\ Input[3] \notin {".o", ".a", "-l"}
    /\ EndInputs(FALSE, intermediateCompilationFiles)
    /\ Keep(<<fs, address, lists, warned, blocks>>)

TakeObject ==
    /\ AtInput /\ Input[3] = ".o" /\ Exists(fs, Input)
    /\ objectFilenames' = Append(objectFilenames, Input)
    /\ NextInput
    /\ Keep(<<fs, address, libraryFilenames, intermediateCompilationFiles,
              intermediateObjectFiles, asmFilename, warned, blocks>>)

TakeLibrary ==
    /\ AtInput
    /\ \/ Input[3] = ".a" /\ Exists(fs, Input)
       \/ IsLibraryOption(Input)
    /\ libraryFilenames' = Append(libraryFilenames, Input)
    /\ NextInput
    /\ Keep(<<fs, address, objectFilenames, intermediateCompilationFiles,
              intermediateObjectFiles, asmFilename, warned, blocks>>)

TakeC ==
    /\ AtInput /\ IsCFile(Input) /\ Exists(fs, Input)
    /\ asmFilename' = UseIntDir(command.intdir, ModuleFile(Input, ".s"))
    /\ pc' = "preprocess"
    /\ Keep(<<fs, argi, status, address, objectFilenames, libraryFilenames,
              intermediateCompilationFiles, intermediateObjectFiles, toRemove, warned, blocks>>)

TakeAsm ==
    /\ AtInput /\ IsAsmFile(Input) /\ Exists(fs, Input)
    /\ pc' = "assemble"
    /\ Keep(<<fs, argi, status, address, lists, toRemove, warned, blocks>>)

\* A slip: the files of a C file that is not translated are not noted.
CompilationFilesOnSuccess(ok) ==
    IF ~ok THEN intermediateCompilationFiles
    ELSE intermediateCompilationFiles
            \o (IF genAsmOnly THEN <<>> ELSE <<asmFilename>>)
            \o (IF kept THEN <<>> ELSE <<ReplaceExtension(asmFilename, ".lst")>>)

\* The files to be removed, of a C file as of one that could not be translated.
CompilationFiles(ok) ==
    intermediateCompilationFiles
        \o (IF genAsmOnly THEN <<>> ELSE <<asmFilename>>)
        \o (IF kept THEN <<>> ELSE <<ReplaceExtension(asmFilename, ".lst")>>)

\* compileCFile() returns: the module counts as an object, and then the loop may end.
ReturnFromC(ok) ==
    /\ objectFilenames' = Append(objectFilenames, ModuleFile(Input, ".o"))
    /\ intermediateCompilationFiles' = CompilationFiles(ok)
    /\ intermediateObjectFiles' =
           IF compileOnly THEN intermediateObjectFiles
           ELSE Append(intermediateObjectFiles, CompilationOutput(Input))
    /\ IF ok THEN NextInput ELSE EndInputs(FALSE, intermediateCompilationFiles')
    /\ UNCHANGED <<libraryFilenames, asmFilename>>

\* invokeAssembler() returns to main(), which notes the module if it is assembled.
ReturnFromAsm(ok) ==
    /\ IF ok
       THEN /\ objectFilenames' = Append(objectFilenames, ModuleFile(Input, ".o"))
            /\ intermediateCompilationFiles' =
                   IF kept THEN intermediateCompilationFiles
                   ELSE Append(intermediateCompilationFiles, ReplaceExtension(asmFilename, ".lst"))
            /\ intermediateObjectFiles' =
                   IF compileOnly THEN intermediateObjectFiles
                   ELSE Append(intermediateObjectFiles, CompilationOutput(Input))
            /\ NextInput
       ELSE /\ EndInputs(FALSE, intermediateCompilationFiles)
            /\ UNCHANGED <<objectFilenames, intermediateCompilationFiles, intermediateObjectFiles>>
    /\ UNCHANGED <<libraryFilenames, asmFilename>>

----------------------------------------------------------------------------
(* compileCFile(). *)

CompilationFails == ReturnFromC(FALSE)

\* The preprocessor cannot be started, or ends in failure.
PreprocessorFails ==
    /\ pc = "preprocess"
    /\ CompilationFails
    /\ Keep(<<fs, address, warned, blocks>>)

\* With -E its output goes to the standard output, and that is all.
PreprocessOnly ==
    /\ pc = "preprocess" /\ command.mode = "preprocess"
    /\ ReturnFromC(TRUE)
    /\ Keep(<<fs, address, warned, blocks>>)

\* With --deps-only its output is read for the names of files included.
Preprocess ==
    /\ pc = "preprocess" /\ command.mode # "preprocess"
    /\ pc' = IF depsOnly THEN "dependencies" ELSE "compile"
    /\ Keep(<<fs, argi, status, address, lists, toRemove, warned, blocks>>)

\* processPragmas(): the addresses in force, for all modules, are those of the last
\* pragmas, which win over those of the command line.
NoPragma == [code |-> NoAddress, data |-> NoAddress, limit |-> NoAddress]
HasPragma(base) == Pragmas[base] # NoPragma
AfterPragmas(base, a) ==
    [f \in DOMAIN a |-> IF Pragmas[base][f] = NoAddress THEN a[f] ELSE Pragmas[base][f]]

\* The file is parsed, checked and compiled in memory.  Its pragmas are errors where
\* nothing is linked; it may have other errors.
ErrorsFound ==
    /\ pc = "compile"
    /\ address' = AfterPragmas(Input[2], address)
    /\ CompilationFails
    /\ Keep(<<fs, warned, blocks>>)

Compile ==
    /\ pc = "compile"
    /\ ~(compileOnly /\ HasPragma(Input[2]))
    /\ address' = AfterPragmas(Input[2], address)
    /\ pc' = "emit"
    /\ Keep(<<fs, argi, status, lists, toRemove, warned, blocks>>)

\* createAssemblyLanguageFile(), or the file of the intermediate representation.
EmittedFile == IF command.platform = "INTERM_REP" THEN CompilationOutput(Input) ELSE asmFilename
EmittedKind == IF command.platform = "INTERM_REP" THEN "json" ELSE "asm"

CreateAssemblyLanguageFile ==
    /\ pc = "emit"
    /\ Written(EmittedFile, File(EmittedKind, <<Input>>))
    /\ pc' = IF command.deps \/ depsOnly THEN "dependencies"
             ELSE IF genAsmOnly THEN "compiled" ELSE "assemble"
    /\ Keep(<<argi, status, address, lists, toRemove, warned, blocks>>)

EmissionFails ==
    /\ pc = "emit"
    /\ NotWritten(EmittedFile)
    /\ CompilationFails
    /\ Keep(<<address, warned, blocks>>)

\* With -Werror a warning is a failure, but the file is written.
WarningsAreErrors ==
    /\ pc = "emit" /\ command.werror
    /\ Written(EmittedFile, File(EmittedKind, <<Input>>))
    /\ CompilationFails
    /\ Keep(<<address, warned, blocks>>)

WritePrerequisites ==
    /\ pc = "dependencies"
    /\ Written(DependenciesOf(Input), File("other", <<Input>>))
    /\ pc' = IF depsOnly \/ genAsmOnly THEN "compiled" ELSE "assemble"
    /\ Keep(<<argi, status, address, lists, toRemove, warned, blocks>>)

\* Only the opening of the file is tested.
PrerequisitesFail ==
    /\ pc = "dependencies"
    /\ CompilationFails
    /\ Keep(<<fs, address, warned, blocks>>)

\* The C file is compiled and there is nothing to assemble.
Compiled ==
    /\ pc = "compiled"
    /\ ReturnFromC(TRUE)
    /\ Keep(<<fs, address, warned, blocks>>)

----------------------------------------------------------------------------
(* invokeAssembler(), for a C file or for an input that is assembly language. *)

ReturnFromAssembler(ok) == IF IsCFile(Input) THEN ReturnFromC(ok) ELSE ReturnFromAsm(ok)
Assembled == IF IsCFile(Input) THEN asmFilename ELSE Input

\* The listing is asked for where the intermediate files are kept.
InvokeAssembler ==
    /\ pc = "assemble" /\ fs[Assembled].kind = "asm"
    /\ fs' = [p \in Paths |->
                 IF p = CompilationOutput(Input) THEN File("obj", fs[Assembled].of)
                 ELSE IF kept /\ p = ListingOf(Input) THEN File("other", fs[Assembled].of)
                 ELSE fs[p]]
    /\ ReturnFromAssembler(TRUE)
    /\ Keep(<<address, warned, blocks>>)

\* A slip: what invokeAssembler() returns is not looked at.
AssemblerStatusIgnored ==
    /\ pc = "assemble"
    /\ \E f \in Spoiled(CompilationOutput(Input)) :
          fs' = [fs EXCEPT ![CompilationOutput(Input)] = f]
    /\ ReturnFromAssembler(TRUE)
    /\ Keep(<<address, warned, blocks>>)

AssemblerFails ==
    /\ pc = "assemble"
    /\ \E f \in Spoiled(CompilationOutput(Input)) :
          fs' = [fs EXCEPT ![CompilationOutput(Input)] = f]
    /\ ReturnFromAssembler(FALSE)
    /\ Keep(<<address, warned, blocks>>)

----------------------------------------------------------------------------
(* removeFile(), by three callers, and the end of main(). *)

Removing == pc \in {"clean", "drop", "unlink"}

\* What comes when the files of a loop are removed.
Finish == pc' = "done"
AfterClean == pc' = IF status = "failure" \/ compileOnly THEN "done" ELSE "script"
AfterUnlink ==
    pc' = IF status = "success" /\ command.platform = "DRAGON" THEN "read_blocks" ELSE "done"

\* removeIntermediateLinkingFiles() comes whether or not the linker succeeded.
LinkingFiles == <<LinkScriptFile, MapFile>> \o intermediateObjectFiles

\* It is called where the files are not kept.
BeginUnlink ==
    /\ pc' = "unlink"
    /\ toRemove' = ToRemove(TRUE, LinkingFiles)

RemoveFile ==
    /\ Removing /\ toRemove # <<>> /\ ~IsHeaderOrC(Head(toRemove))
    /\ \/ /\ fs' = [fs EXCEPT ![Head(toRemove)] = Absent]
          /\ UNCHANGED warned
       \/ \* It exists and cannot be removed: a warning.
          /\ Exists(fs, Head(toRemove))
          /\ warned' = TRUE
          /\ UNCHANGED fs
    /\ toRemove' = Tail(toRemove)
    /\ Keep(<<pc, argi, status, address, lists, blocks>>)

\* A C file is not removed: the program exits.
RefuseToRemove ==
    /\ Removing /\ toRemove # <<>> /\ IsHeaderOrC(Head(toRemove))
    /\ pc' = "done"
    /\ status' = "failure"
    /\ warned' = TRUE
    /\ Keep(<<fs, argi, address, lists, toRemove, blocks>>)

Removed ==
    /\ Removing /\ toRemove = <<>>
    /\ \/ pc = "clean" /\ AfterClean /\ UNCHANGED toRemove
       \/ pc = "drop" /\ BeginUnlink
       \/ pc = "unlink" /\ AfterUnlink /\ UNCHANGED toRemove
    /\ Keep(<<fs, argi, status, address, lists, warned, blocks>>)

----------------------------------------------------------------------------
(* invokeLinker() *)

CreateLinkScript ==
    /\ pc = "script"
    /\ Written(LinkScriptFile,
               [File("script", <<>>) EXCEPT
                  !.sections = LinkScript(command.platform, address.code, address.data)])
    /\ pc' = "link"
    /\ Keep(<<argi, status, address, lists, toRemove, warned, blocks>>)

CreateLinkScriptFails ==
    /\ pc = "script"
    /\ NotWritten(LinkScriptFile)
    /\ status' = "failure"
    /\ BeginUnlink
    /\ Keep(<<argi, address, lists, warned, blocks>>)

\* The object files as the linker is told them.
ObjectsToLink ==
    [i \in DOMAIN objectFilenames |-> UseIntDir(command.intdir, objectFilenames[i])]
\* The modules in them: the source that each was made of.
Modules == [i \in DOMAIN objectFilenames |-> fs[ObjectsToLink[i]].of[1]]

\* lwlink makes the program and the map; what sections and symbols come of the
\* libraries is left out.  It needs all objects.
Lwlink ==
    /\ pc = "link"
    /\ \A i \in DOMAIN objectFilenames : fs[ObjectsToLink[i]].kind = "obj"
    /\ \E bs \in IF command.platform = "DRAGON" THEN BlockLists ELSE {<<>>} :
          fs' = [fs EXCEPT
                   ![Executable] = [File("exe", Modules \o libraryFilenames) EXCEPT !.blocks = bs],
                   ![MapFile] = [File("map", Modules) EXCEPT
                                   !.end = ProgramEnd(fs[LinkScriptFile].sections, Modules)]]
    /\ pc' = "check_map"
    /\ Keep(<<argi, status, address, lists, toRemove, warned, blocks>>)

LwlinkFails ==
    /\ pc = "link"
    /\ \E e \in Spoiled(Executable), m \in Spoiled(MapFile) :
          fs' = [fs EXCEPT ![Executable] = e, ![MapFile] = m]
    /\ status' = "failure"
    /\ BeginUnlink
    /\ Keep(<<argi, address, lists, warned, blocks>>)

\* A slip: the program that is refused stays.
RefusedStays(executable) == <<>>

\* The program that is refused is removed.
RefusedRemoved(executable) == <<executable>>

\* checkLinkingMap() compares the end of the program with the limit and looks for
\* names that are defined more than once.
MapIsGood ==
    /\ MultipleDefinitions(fs[MapFile].of) = {}
    /\ ~ExceedsLimit(address.limit, fs[MapFile].end)

CheckLinkingMap ==
    /\ pc = "check_map"
    /\ IF MapIsGood
       THEN BeginUnlink /\ UNCHANGED status
       ELSE /\ status' = "failure"
            /\ pc' = "drop"
            /\ toRemove' = RefusedRemoved(Executable)
    /\ Keep(<<fs, argi, address, lists, warned, blocks>>)

\* The map cannot be opened: the executable stays, unchecked.
MapUnreadable ==
    /\ pc = "check_map"
    /\ status' = "failure"
    /\ warned' = TRUE
    /\ BeginUnlink
    /\ Keep(<<fs, argi, address, lists, blocks>>)

----------------------------------------------------------------------------
(* convertBinToDragonFormat() *)

ReadBlocks ==
    /\ pc = "read_blocks" /\ fs[Executable].kind = "exe"
    /\ blocks' = fs[Executable].blocks
    /\ pc' = "overwrite"
    /\ Keep(<<fs, argi, status, address, lists, toRemove, warned>>)

\* The executable cannot be opened, or is no list of blocks with an end.
BlocksUnreadable ==
    /\ pc = "read_blocks"
    /\ status' = "failure"
    /\ Finish
    /\ Keep(<<fs, argi, address, lists, toRemove, warned, blocks>>)

Overwrite ==
    /\ pc = "overwrite"
    /\ Written(Executable, [fs[Executable] EXCEPT !.kind = "dragon", !.blocks = <<SingleBlock(blocks)>>])
    /\ Finish
    /\ Keep(<<argi, status, address, lists, toRemove, warned, blocks>>)

OverwriteFails ==
    /\ pc = "overwrite"
    /\ NotWritten(Executable)
    /\ status' = "failure"
    /\ Finish
    /\ Keep(<<argi, address, lists, toRemove, warned, blocks>>)

Next ==
    \/ AllInputsTaken \/ InputRefused \/ TakeObject \/ TakeLibrary \/ TakeC \/ TakeAsm
    \/ PreprocessorFails \/ PreprocessOnly \/ Preprocess \/ ErrorsFound \/ Compile
    \/ CreateAssemblyLanguageFile \/ EmissionFails \/ WarningsAreErrors
    \/ WritePrerequisites \/ PrerequisitesFail \/ Compiled
    \/ InvokeAssembler \/ AssemblerFails
    \/ RemoveFile \/ RefuseToRemove \/ Removed
    \/ CreateLinkScript \/ CreateLinkScriptFails \/ Lwlink \/ LwlinkFails
    \/ CheckLinkingMap \/ MapUnreadable
    \/ ReadBlocks \/ BlocksUnreadable \/ Overwrite \/ OverwriteFails

Spec == Init /\ [][Next]_vars

----------------------------------------------------------------------------
(* Properties *)

Done == pc = "done"

\* The variables have the values that their code gives them.
TypeOK ==
    /\ command \in Commands
    /\ \A p \in Paths :
          fs[p].kind \in {"absent", "torn", "c", "asm", "obj", "lib", "map", "script",
                         "exe", "dragon", "json", "other"}
    /\ argi \in 1..(Len(command.inputs) + 1)
    /\ status \in {"success", "failure"}
    /\ \A f \in DOMAIN address : address[f] \in 0..NoAddress
    /\ {objectFilenames, libraryFilenames, intermediateCompilationFiles,
        intermediateObjectFiles, toRemove} \subseteq Seq(Paths)
    /\ asmFilename \in Paths
    /\ warned \in BOOLEAN

\* The files of a list that have one of the extensions, in their order.
OfExtensions(files, exts) ==
    FoldLeft(LAMBDA chosen, p : IF p[3] \in exts THEN Append(chosen, p) ELSE chosen, <<>>, files)

\* The inputs that become modules of the program, and its libraries.
ModuleExtensions == {".c", ".s", ".asm", ".o"}
ModuleInputs == OfExtensions(command.inputs, ModuleExtensions)
Libraries == OfExtensions(command.inputs, {".a", "-l"})

SharesBase(i) ==
    \E j \in DOMAIN command.inputs \ {i} :
        command.inputs[j][2] = command.inputs[i][2] /\ IsTranslated(command.inputs[j])

\* No two inputs make the same file, an object file that is an input is where the
\* linker looks for it, and -o names no file that the tools write for themselves and,
\* where nothing is linked, the file of one input.
PlainNames ==
    /\ \A i \in DOMAIN command.inputs :
          LET p == command.inputs[i]
          IN  /\ IsTranslated(p) \/ p[3] = ".o" => ~SharesBase(i)
              /\ p[3] = ".o" => UseIntDir(command.intdir, p) = p
    /\ command.output # NoOutput =>
          /\ command.output[3] \notin {".s", ".lst", ".d", ".link", ".map"}
          /\ IF compileOnly THEN Len(command.inputs) = 1 ELSE command.output[3] # ".o"

\* A command that ends with success has made what it was asked for of the inputs as
\* they are, in their order, and of nothing that an earlier command left: one program
\* of all modules and libraries, or the object file, the assembly language file or
\* the representation of each.
ResultsAreOfTheInputs ==
    Done /\ status = "success" =>
        IF ~compileOnly
        THEN /\ fs[Executable].of = ModuleInputs \o Libraries
             /\ fs[Executable].kind = IF command.platform = "DRAGON" THEN "dragon" ELSE "exe"
        ELSE \A i \in DOMAIN command.inputs :
                LET p == command.inputs[i]
                IN  /\ IsAsmFile(p) \/ (IsCFile(p) /\ command.mode = "compile"
                                        /\ command.platform # "INTERM_REP")
                        => fs[CompilationOutput(p)] = File("obj", <<p>>)
                    /\ IsCFile(p) /\ command.mode = "asm" /\ command.platform # "INTERM_REP"
                        => fs[UseIntDir(command.intdir, ModuleFile(p, ".s"))] = File("asm", <<p>>)
                    /\ IsCFile(p) /\ command.platform = "INTERM_REP"
                       /\ command.mode \notin {"preprocess", "deps"}
                        => fs[CompilationOutput(p)] = File("json", <<p>>)

\* No static symbol of one module has the name of a symbol with external linkage.
StaticsHideNothing == \A b, c \in Bases : Statics[b] \cap Defines[c] = {}

\* No program is left, where its map could be read and it could be removed, that goes
\* beyond the limit or defines a name twice: the manual says that "No executable will be generated"
\* (src/cmoc/doc/cmoc-manual.markdown:2264).  It speaks of a program without --data.
Contiguous == address.data = NoAddress /\ command.platform # "OS9"
ProgramModules == OfExtensions(fs[Executable].of, ModuleExtensions)
WholeSize ==
    LET script == LinkScript(command.platform, address.code, address.data)
    IN  Total([i \in DOMAIN script |-> SizeOf(ProgramModules, script[i].name)])
NoBadExecutable ==
    Done /\ ~compileOnly /\ ~warned /\ fs[Executable].kind \in {"exe", "dragon"} =>
        /\ DefinedTwice(ProgramModules) = {}
        /\ Contiguous => ~ExceedsLimit(address.limit, address.code + WholeSize)

\* The inputs and the files of other names are as they were, whatever fails; an input
\* only where another one does not have its name.
NamesUsed == {command.inputs[i][2] : i \in DOMAIN command.inputs} \cup {Executable[2], NoPart}
OthersSurvive ==
    /\ \A i \in DOMAIN command.inputs :
          LET p == command.inputs[i]
          IN  p \in Paths /\ ~SharesBase(i) => fs[p] = given[p]
    /\ \A p \in Paths : p[2] \notin NamesUsed => fs[p] = given[p]

\* What the command makes: also, where a later input could not be translated, objects.
OutputFiles ==
    LET translated == {p \in {command.inputs[i] : i \in DOMAIN command.inputs} : IsTranslated(p)}
    IN  {Executable}
          \cup {DependenciesOf(p) : p \in translated}
          \cup {CompilationOutput(p) : p \in {q \in translated : compileOnly \/ argi <= Len(command.inputs)}}
          \cup {UseIntDir(command.intdir, ModuleFile(p, ".s")) : p \in {q \in translated : genAsmOnly}}
NothingElseIsLeft ==
    Done /\ ~kept /\ ~warned =>
        \A p \in Paths \ OutputFiles : fs[p] = given[p] \/ ~Exists(fs, p)

\* A command touches no file that it is given nor one of another name, whatever fails;
\* and where the intermediate files are not kept, what it leaves that was not there is
\* what it was asked to make: "Intermediate compilation files are now removed, unless
\* the --intermediate command-line option is given." (src/cmoc/NEWS:1605)
OnlyOutputsChange == TypeOK /\ OthersSurvive /\ NothingElseIsLeft

\* No block has a byte at the last address.
BlocksEndInside ==
    \A bs \in BlockLists : \A i \in DOMAIN bs :
        bs[i].address + Len(bs[i].contents) < AddressSpace

\* The DragonDOS file loads the bytes that the blocks of the executable would, at
\* the addresses where they would.
DragonLoadsTheSame ==
    Done /\ status = "success" /\ ~compileOnly /\ command.platform = "DRAGON" =>
        \A a \in Covered(blocks) : LoadedAt(fs[Executable].blocks, a, 0) = LoadedAt(blocks, a, 0)
=============================================================================
