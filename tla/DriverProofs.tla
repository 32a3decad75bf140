----------------------------- MODULE DriverProofs ------------------------------
(* What a command of cmoc does not touch, what it leaves and what it has made,  *)
(* for any inputs, options, names and files that were there before, whatever    *)
(* tool, writing or removal fails.  The theorems:                               *)
(*    InputsAndOthersSurvive, OnlyOutputsAreLeft  the files around the command  *)
(*    DragonFileLoadsTheSame                      the format of DragonDOS       *)
(*    BadExecutablesAreNotLeft                    the check of the map          *)
(*    SuccessIsOfTheInputs                        what success means            *)
EXTENDS Driver, SequenceTheorems, WellFoundedInduction, TLAPS

-----------------------------------------------------------------------------
(* Names. *)

\* The files that a command may change: those of the names it uses, but not an
\* input, unless another input that is translated has its name.
Ours(p) ==
    /\ p[2] \in NamesUsed
    /\ \A i \in DOMAIN command.inputs : p = command.inputs[i] => SharesBase(i)
Mine == {p \in Paths : Ours(p)}

Known(p) == IsTranslated(p) \/ p[3] \in {".o", ".a", "-l"}
AllKnown == \A i \in DOMAIN command.inputs : Known(command.inputs[i])

LEMMA Literals ==
    /\ NoPart \in Directories /\ NoPart \in Extensions /\ ".s" \in Extensions
    /\ ".lst" \in Extensions /\ ".o" \in Extensions /\ ".json" \in Extensions
    /\ ".d" \in Extensions /\ ".bin" \in Extensions /\ ".link" \in Extensions
    /\ ".map" \in Extensions
BY NamesAssumption

LEMMA Prefixed ==
    ASSUME NEW p \in Paths, NEW d \in Directories
    PROVE  /\ UseIntDir(d, p) \in Paths
           /\ UseIntDir(d, p)[2] = p[2] /\ UseIntDir(d, p)[3] = p[3]
BY DEF Paths, UseIntDir

LEMMA Replaced ==
    ASSUME NEW p \in Paths, NEW e \in Extensions
    PROVE  /\ ReplaceExtension(p, e) \in Paths
           /\ ReplaceExtension(p, e)[2] = p[2] /\ ReplaceExtension(p, e)[3] = e
           /\ ModuleFile(p, e) \in Paths
           /\ ModuleFile(p, e)[2] = p[2] /\ ModuleFile(p, e)[3] = e
BY Literals DEF Paths, ReplaceExtension, ModuleFile

LEMMA ReplacedAndPrefixed ==
    ASSUME NEW p \in Paths, NEW d \in Directories, NEW e \in Extensions
    PROVE  /\ UseIntDir(d, ReplaceExtension(p, e)) \in Paths
           /\ UseIntDir(d, ReplaceExtension(p, e))[2] = p[2]
           /\ UseIntDir(d, ReplaceExtension(p, e))[3] = e
           /\ UseIntDir(d, ModuleFile(p, e)) \in Paths
           /\ UseIntDir(d, ModuleFile(p, e))[2] = p[2]
           /\ UseIntDir(d, ModuleFile(p, e))[3] = e
<1> DEFINE q == ReplaceExtension(p, e)
           m == ModuleFile(p, e)
<1>1. /\ q \in Paths /\ q[2] = p[2] /\ q[3] = e
      /\ m \in Paths /\ m[2] = p[2] /\ m[3] = e
  BY Replaced
<1> HIDE DEF q, m
<1>2. /\ UseIntDir(d, q) \in Paths /\ UseIntDir(d, q)[2] = p[2] /\ UseIntDir(d, q)[3] = e
      /\ UseIntDir(d, m) \in Paths /\ UseIntDir(d, m)[2] = p[2] /\ UseIntDir(d, m)[3] = e
  BY <1>1, Prefixed
<1> QED BY <1>2 DEF q, m

LEMMA Inputs ==
    ASSUME command \in Commands
    PROVE  /\ \A i \in DOMAIN command.inputs :
                  command.inputs[i] \in Paths /\ command.inputs[i][2] # NoPart
           /\ 1 \in DOMAIN command.inputs
           /\ DOMAIN command.inputs = 1..Len(command.inputs) /\ Len(command.inputs) \in Nat
           /\ command.intdir \in Directories
           /\ command.output # NoOutput =>
                 /\ command.output \in Paths
                 /\ \A i \in DOMAIN command.inputs :
                       command.inputs[i] \notin {command.output, ReplaceExtension(command.output, ".d")}
<1> DEFINE N == Directories \X Bases \X Extensions
<1>1. command.inputs \in Seq(N) /\ command.inputs # <<>>
  BY NamesAssumption
<1>2. \A p \in N : p \in Paths /\ p[2] # NoPart
  BY NamesAssumption DEF Paths
<1>3. /\ DOMAIN command.inputs = 1..Len(command.inputs) /\ Len(command.inputs) \in Nat
      /\ \A i \in DOMAIN command.inputs : command.inputs[i] \in N
      /\ 1 \in DOMAIN command.inputs
  <2> HIDE DEF N
  <2> QED BY <1>1
<1> QED BY <1>1, <1>2, <1>3, NamesAssumption DEF Paths

\* What is made of an input has its name and another extension.
LEMMA MadeOfInput ==
    ASSUME command \in Commands,
           NEW i \in DOMAIN command.inputs, IsTranslated(command.inputs[i]),
           NEW p \in Paths, p[2] = command.inputs[i][2], p[3] # command.inputs[i][3]
    PROVE  p \in Mine
<1>1. p[2] \in NamesUsed
  BY DEF NamesUsed
<1>2. ASSUME NEW j \in DOMAIN command.inputs, p = command.inputs[j] PROVE SharesBase(j)
  BY <1>2 DEF SharesBase
<1> QED BY <1>1, <1>2 DEF Mine, Ours

LEMMA ExecutableName ==
    ASSUME command \in Commands
    PROVE  /\ Executable \in Paths
           /\ \/ \A i \in DOMAIN command.inputs : Executable # command.inputs[i]
              \/ Executable[3] \in {NoPart, ".bin"}
<1>1. command.inputs[1] \in Paths
  BY Inputs
<1>2. CASE command.output # NoOutput
  BY <1>2, Inputs DEF Executable
<1>3. CASE command.output = NoOutput
  <2>1. Executable = ModuleFile(command.inputs[1], ExecutableExtension)
    BY <1>3 DEF Executable
  <2>2. ExecutableExtension \in Extensions /\ ExecutableExtension \in {NoPart, ".bin"}
    BY Literals DEF ExecutableExtension
  <2> QED BY <1>1, <2>1, <2>2, Replaced
<1> QED BY <1>2, <1>3

\* What is linked has the name of no input that is known.
LEMMA Linked ==
    ASSUME command \in Commands, AllKnown,
           NEW p \in Paths, p[2] = Executable[2],
           p[3] \in {".link", ".map"} \/ p = Executable
    PROVE  p \in Mine
<1>1. p[2] \in NamesUsed
  BY DEF NamesUsed
<1>2. ASSUME NEW i \in DOMAIN command.inputs, p = command.inputs[i] PROVE FALSE
  <2>1. p[3] \in {".c", ".s", ".asm", ".o", ".a", "-l"}
    BY <1>2 DEF AllKnown, Known, IsTranslated, IsCFile, IsAsmFile
  <2>2. p = Executable
    BY <2>1
  <2>3. Executable[3] \in {NoPart, ".bin"}
    BY <1>2, <2>2, ExecutableName
  <2>4. NoPart \notin {".c", ".s", ".asm", ".o", ".a", "-l"}
    BY Zenon DEF NoPart
  <2> QED BY <2>1, <2>2, <2>3, <2>4
<1> QED BY <1>1, <1>2 DEF Mine, Ours

LEMMA LinkedFiles ==
    ASSUME command \in Commands, AllKnown
    PROVE  Executable \in Mine /\ LinkScriptFile \in Mine /\ MapFile \in Mine
<1>1. Executable \in Paths /\ command.intdir \in Directories
  BY ExecutableName, Inputs
<1>2. /\ LinkScriptFile \in Paths /\ LinkScriptFile[2] = Executable[2]
      /\ LinkScriptFile[3] = ".link"
  <2> DEFINE e == ".link"
  <2>1. e \in Extensions
    BY Literals
  <2>2. LinkScriptFile = UseIntDir(command.intdir, ReplaceExtension(Executable, e))
    BY DEF LinkScriptFile
  <2> HIDE DEF e
  <2>3. /\ LinkScriptFile \in Paths /\ LinkScriptFile[2] = Executable[2]
        /\ LinkScriptFile[3] = e
    BY <1>1, <2>1, <2>2, ReplacedAndPrefixed
  <2> QED BY <2>3 DEF e
<1>3. MapFile \in Paths /\ MapFile[2] = Executable[2] /\ MapFile[3] = ".map"
  <2> DEFINE e == ".map"
  <2>1. e \in Extensions
    BY Literals
  <2>2. MapFile = UseIntDir(command.intdir, ReplaceExtension(Executable, e))
    BY DEF MapFile
  <2> HIDE DEF e
  <2>3. /\ MapFile \in Paths /\ MapFile[2] = Executable[2]
        /\ MapFile[3] = e
    BY <1>1, <2>1, <2>2, ReplacedAndPrefixed
  <2> QED BY <2>3 DEF e
<1> QED BY <1>1, <1>2, <1>3, Linked

\* The files made of one input.
LEMMA OutputsOfInput ==
    ASSUME command \in Commands,
           NEW i \in DOMAIN command.inputs, IsTranslated(command.inputs[i])
    PROVE  /\ CompilationOutput(command.inputs[i]) \in Mine
           /\ DependenciesOf(command.inputs[i]) \in Mine
           /\ ListingOf(command.inputs[i]) \in Mine
<1> DEFINE p == command.inputs[i]
           o == CompilationOutput(p)
           d == DependenciesOf(p)
<1>1. p \in Paths /\ p[3] \in {".c", ".s", ".asm"} /\ command.intdir \in Directories
  BY Inputs DEF IsTranslated, IsCFile, IsAsmFile
<1>2. ASSUME compileOnly, command.output # NoOutput PROVE o \in Mine /\ d \in Mine
  <2>1. o = command.output /\ o = Executable /\ o \in Paths
    BY <1>2, Inputs DEF CompilationOutput, Executable
  <2>2. d = ReplaceExtension(o, ".d") /\ d \in Paths /\ d[2] = o[2]
    BY <2>1, Replaced, Literals DEF DependenciesOf
  <2>3. \A j \in DOMAIN command.inputs : o # command.inputs[j] /\ d # command.inputs[j]
    BY <1>2, <2>1, <2>2, Inputs
  <2>4. o[2] \in NamesUsed
    BY <2>1 DEF NamesUsed
  <2> HIDE DEF o, d
  <2>5. o \in Mine /\ d \in Mine
    BY <2>1, <2>2, <2>3, <2>4 DEF Mine, Ours
  <2> QED BY <2>5
<1>3. ASSUME ~(compileOnly /\ command.output # NoOutput) PROVE o \in Mine /\ d \in Mine
  <2> DEFINE e == IF command.platform = "INTERM_REP" THEN ".json" ELSE ".o"
  <2>1. e \in Extensions /\ e \in {".json", ".o"}
    BY Literals
  <2>2. o = UseIntDir(command.intdir, ModuleFile(p, e))
    BY <1>3 DEF CompilationOutput
  <2> HIDE DEF e
  <2>3. o \in Paths /\ o[2] = p[2] /\ o[3] \in {".json", ".o"}
    BY <1>1, <2>1, <2>2, ReplacedAndPrefixed
  <2>4. d = ReplaceExtension(o, ".d")
    BY DEF DependenciesOf
  <2> HIDE DEF o, d
  <2>5. d \in Paths /\ d[2] = p[2] /\ d[3] = ".d"
    BY <2>3, <2>4, Replaced, Literals
  <2>6. o \in Mine
    BY <1>1, <2>3, MadeOfInput
  <2>7. d \in Mine
    BY <1>1, <2>5, MadeOfInput
  <2> QED BY <2>6, <2>7
<1>4. ListingOf(p) \in Mine
  <2> DEFINE e == ".lst"
             l == ListingOf(p)
  <2>1. e \in Extensions /\ e # p[3]
    BY <1>1, Literals
  <2>2. l = UseIntDir(command.intdir, ModuleFile(p, e))
    BY DEF ListingOf
  <2> HIDE DEF e, l
  <2>3. l \in Paths /\ l[2] = p[2] /\ l[3] = e
    BY <1>1, <2>1, <2>2, ReplacedAndPrefixed
  <2>4. l \in Mine
    BY <1>1, <2>1, <2>3, MadeOfInput
  <2> QED BY <2>4 DEF l
<1> QED BY <1>2, <1>3, <1>4

LEMMA MineStays == ASSUME command' = command PROVE Mine' = Mine
BY DEF Mine, Ours, NamesUsed, SharesBase, IsTranslated, IsCFile, IsAsmFile, Executable,
       ExecutableExtension

-----------------------------------------------------------------------------
(* Where the command is. *)

CStages == {"preprocess", "dependencies", "compile", "emit", "compiled"}
LinkStages == {"script", "link", "check_map", "drop", "unlink", "read_blocks", "overwrite"}
AtC == pc \in CStages \/ (pc = "assemble" /\ IsCFile(Input))
AsmOf(i) == UseIntDir(command.intdir, ModuleFile(command.inputs[i], ".s"))

\* The inputs are taken one after the other, each is of a known kind before the next
\* is taken, and the linker comes after all; asmFilename is that of the C file in hand.
Control ==
    /\ command \in Commands /\ argi \in Nat \ {0}
    /\ \A i \in DOMAIN command.inputs : i < argi => Known(command.inputs[i])
    /\ pc \in CStages \cup {"assemble"} =>
          argi \in DOMAIN command.inputs /\ IsTranslated(Input)
    /\ AtC => IsCFile(Input) /\ asmFilename = AsmOf(argi)
    /\ \/ asmFilename = <<NoPart, NoPart, NoPart>>
       \/ \E i \in DOMAIN command.inputs :
             IsCFile(command.inputs[i]) /\ asmFilename = AsmOf(i)
    /\ pc \in LinkStages \/ (pc = "clean" /\ status # "failure") => AllKnown

\* What is removed, now or later, is the command's.
Lists ==
    /\ intermediateCompilationFiles \in Seq(Mine)
    /\ intermediateObjectFiles \in Seq(Mine)
    /\ toRemove \in Seq(Mine)

Untouched ==
    /\ DOMAIN fs = Paths
    /\ \A p \in Paths \ Mine : fs[p] = given[p]

IInv == Control /\ Lists /\ Untouched

\* An input is taken, or the loop ends where something failed.
LEMMA Taken ==
    ASSUME Control, argi \in DOMAIN command.inputs,
           command' = command, asmFilename' = asmFilename,
           \/ Known(Input) /\ pc' = "input" /\ argi' = argi + 1
           \/ pc' = "clean" /\ status' = "failure" /\ argi' = argi
    PROVE  Control'
BY Inputs DEF Control, CStages, LinkStages, AtC, AsmOf, AllKnown, Known, IsTranslated, IsCFile,
              IsAsmFile, Input

\* What is before or after the loop stays where it is, or goes on.
LEMMA GoesOn ==
    ASSUME Control, command' = command, asmFilename' = asmFilename, argi' = argi,
           AllKnown \/ pc' = "done" \/ (pc' = pc /\ status' = status),
           pc' \notin CStages \cup {"assemble"}
    PROVE  Control'
BY DEF Control, CStages, LinkStages, AtC, AsmOf, AllKnown, Known, IsTranslated, IsCFile,
       IsAsmFile, Input

\* A C file in hand stays in hand.
LEMMA StaysInHand ==
    ASSUME Control, AtC, command' = command, asmFilename' = asmFilename, argi' = argi,
           pc' \in CStages \cup {"assemble"}
    PROVE  Control'
BY DEF Control, CStages, LinkStages, AtC, AsmOf, AllKnown, Known, IsTranslated, IsCFile,
       IsAsmFile, Input

LEMMA ControlStep == Control /\ [Next]_vars => Control'
<1> SUFFICES ASSUME Control, [Next]_vars PROVE Control'
  OBVIOUS
<1>a. /\ command \in Commands /\ argi \in Nat \ {0}
      /\ pc \in CStages => AtC /\ IsTranslated(Input) /\ argi \in DOMAIN command.inputs
      /\ pc = "assemble" => IsTranslated(Input) /\ argi \in DOMAIN command.inputs
      /\ pc \in LinkStages => AllKnown
      /\ DOMAIN command.inputs = 1..Len(command.inputs) /\ Len(command.inputs) \in Nat
      /\ AtInput => argi \in DOMAIN command.inputs
  BY Inputs DEF Control, AtC, AtInput
<1>b. IsTranslated(Input) => Known(Input)
  BY DEF Known
<1>1. CASE AllInputsTaken
  <2>1. AllKnown
    BY <1>1, <1>a DEF AllInputsTaken, AllKnown, Control
  <2> QED BY <1>1, <2>1, GoesOn DEF AllInputsTaken, EndInputs, Keep, lists, CStages
<1>2. CASE InputRefused
  BY <1>2, <1>a, Taken DEF InputRefused, EndInputs, Keep, lists
<1>3. CASE TakeObject \/ TakeLibrary
  <2>1. Known(Input)
    BY <1>3 DEF TakeObject, TakeLibrary, Known, IsLibraryOption
  <2>2. /\ pc' = "input" /\ argi' = argi + 1 /\ AtInput
        /\ command' = command /\ asmFilename' = asmFilename
    BY <1>3 DEF TakeObject, TakeLibrary, NextInput, Keep
  <2> QED BY <2>1, <2>2, <1>a, Taken
<1>4. CASE TakeC
  BY <1>4, <1>a DEF TakeC, Keep, Control, CStages, LinkStages, AtC, AsmOf, AllKnown, Known,
                    IsTranslated, IsCFile, IsAsmFile, Input, AtInput
<1>5. CASE TakeAsm
  BY <1>5, <1>a DEF TakeAsm, Keep, lists, Control, CStages, LinkStages, AtC, AsmOf, AllKnown, Known,
                    IsTranslated, IsCFile, IsAsmFile, Input, AtInput
<1>6. ASSUME NEW ok \in BOOLEAN, ReturnFromC(ok) \/ ReturnFromAsm(ok), command' = command,
             pc \in CStages \cup {"assemble"}
      PROVE  Control'
  <2>1. /\ asmFilename' = asmFilename
        /\ \/ pc' = "input" /\ argi' = argi + 1
           \/ pc' = "clean" /\ status' = "failure" /\ argi' = argi
    BY <1>6 DEF ReturnFromC, ReturnFromAsm, NextInput, EndInputs
  <2> QED BY <2>1, <1>6, <1>a, <1>b, Taken
<1>7. CASE \/ PreprocessorFails \/ PreprocessOnly \/ ErrorsFound \/ EmissionFails
           \/ WarningsAreErrors \/ PrerequisitesFail \/ Compiled
  <2>1. /\ command' = command /\ pc \in CStages
        /\ ReturnFromC(TRUE) \/ ReturnFromC(FALSE)
    BY <1>7 DEF PreprocessorFails, PreprocessOnly, ErrorsFound, EmissionFails,
                WarningsAreErrors, PrerequisitesFail, Compiled, CompilationFails, Keep, CStages
  <2> QED BY <2>1, <1>6
<1>8. CASE InvokeAssembler \/ AssemblerFails
  <2>1. /\ command' = command /\ pc = "assemble"
        /\ ReturnFromAssembler(TRUE) \/ ReturnFromAssembler(FALSE)
    BY <1>8 DEF InvokeAssembler, AssemblerFails, Keep
  <2> QED BY <2>1, <1>6 DEF ReturnFromAssembler
<1>9. CASE Preprocess \/ Compile \/ CreateAssemblyLanguageFile \/ WritePrerequisites
  <2>1. /\ command' = command /\ asmFilename' = asmFilename /\ argi' = argi
        /\ pc \in CStages /\ pc' \in CStages \cup {"assemble"}
    BY <1>9 DEF Preprocess, Compile, CreateAssemblyLanguageFile, WritePrerequisites, Keep,
                lists, CStages
  <2> QED BY <2>1, <1>a, StaysInHand
<1>10. CASE RemoveFile
  <2>1. /\ command' = command /\ asmFilename' = asmFilename /\ argi' = argi
        /\ pc' = pc /\ status' = status /\ pc \in {"clean", "drop", "unlink"}
    BY <1>10 DEF RemoveFile, Removing, Keep, lists
  <2> QED BY <2>1, GoesOn DEF CStages
<1>11. CASE RefuseToRemove
  BY <1>11, GoesOn DEF RefuseToRemove, Keep, lists, CStages
<1>12. CASE Removed
  <2>1. /\ command' = command /\ asmFilename' = asmFilename /\ argi' = argi
        /\ pc' \in {"done", "script", "unlink", "read_blocks"}
        /\ pc' = "done" \/ pc \in LinkStages \/ (pc = "clean" /\ status # "failure")
    BY <1>12 DEF Removed, AfterClean, AfterUnlink, BeginUnlink, Keep, lists, LinkStages
  <2>2. pc' = "done" \/ AllKnown
    BY <2>1 DEF Control
  <2> QED BY <2>1, <2>2, GoesOn DEF CStages
<1>13. CASE CreateLinkScript \/ CreateLinkScriptFails \/ Lwlink \/ LwlinkFails
            \/ CheckLinkingMap \/ MapUnreadable
            \/ ReadBlocks \/ BlocksUnreadable \/ Overwrite \/ OverwriteFails
  <2>1. /\ command' = command /\ asmFilename' = asmFilename /\ argi' = argi
        /\ pc \in LinkStages /\ pc' \notin CStages \cup {"assemble"}
    BY <1>13 DEF CreateLinkScript, CreateLinkScriptFails, Lwlink, LwlinkFails, CheckLinkingMap,
                 MapUnreadable, ReadBlocks, BlocksUnreadable, Overwrite, OverwriteFails,
                 BeginUnlink, Finish, Keep, lists, CStages, LinkStages
  <2> QED BY <2>1, <1>a, GoesOn
<1>14. CASE UNCHANGED vars
  BY <1>14 DEF vars, lists, Control, CStages, LinkStages, AtC, AsmOf, AllKnown, Known,
               IsTranslated, IsCFile, IsAsmFile, Input
<1> QED BY <1>1, <1>2, <1>3, <1>4, <1>5, <1>7, <1>8, <1>9, <1>10, <1>11, <1>12, <1>13, <1>14
        DEF Next

-----------------------------------------------------------------------------
(* What the command notes for removal. *)

LEMMA AsmFiles ==
    ASSUME Control
    PROVE  /\ ReplaceExtension(asmFilename, ".lst") \in Mine
           /\ AtC => asmFilename \in Mine
<1> DEFINE a == asmFilename
           l == ReplaceExtension(a, ".lst")
<1>1. ASSUME NEW i \in DOMAIN command.inputs, IsCFile(command.inputs[i]), a = AsmOf(i)
      PROVE  a \in Mine /\ l \in Mine
  <2> DEFINE p == command.inputs[i]
             s == ".s"
             e == ".lst"
  <2>1. p \in Paths /\ p[3] = ".c" /\ IsTranslated(p) /\ command.intdir \in Directories
    BY <1>1, Inputs DEF Control, IsTranslated, IsCFile
  <2>2. s \in Extensions /\ s # ".c" /\ e \in Extensions /\ e # ".c"
    BY Literals
  <2>3. a = UseIntDir(command.intdir, ModuleFile(p, s)) /\ l = ReplaceExtension(a, e)
    BY <1>1 DEF AsmOf
  <2> HIDE DEF s, e, l
  <2>4. a \in Paths /\ a[2] = p[2] /\ a[3] = s
    BY <2>1, <2>2, <2>3, ReplacedAndPrefixed
  <2>5. l \in Paths /\ l[2] = p[2] /\ l[3] = e
    BY <2>2, <2>3, <2>4, Replaced
  <2>6. command \in Commands
    BY DEF Control
  <2> QED BY <2>1, <2>2, <2>4, <2>5, <2>6, MadeOfInput
<1>2. ASSUME a = <<NoPart, NoPart, NoPart>> PROVE l \in Mine
  <2>1. l = <<NoPart, NoPart, ".lst">> /\ l \in Paths /\ l[2] = NoPart
    BY <1>2, Literals DEF ReplaceExtension, Paths
  <2>2. \A i \in DOMAIN command.inputs : command.inputs[i] # l
    BY <2>1, Inputs DEF Control
  <2> QED BY <2>1, <2>2 DEF Mine, Ours, NamesUsed
<1>3. AtC => IsCFile(Input) /\ a = AsmOf(argi) /\ argi \in DOMAIN command.inputs
  BY DEF Control, AtC
<1>4. AtC => a \in Mine
  BY <1>1, <1>3 DEF Input
<1>5. l \in Mine
  BY <1>1, <1>2 DEF Control
<1> QED BY <1>4, <1>5

LEMMA Appending ==
    ASSUME NEW S, NEW q \in Seq(S), NEW e \in S
    PROVE  /\ Append(q, e) \in Seq(S) /\ q \o <<e>> \in Seq(S) /\ <<e>> \in Seq(S)
           /\ q \o <<>> \in Seq(S) /\ <<>> \in Seq(S)
OBVIOUS

\* The files of what was translated are noted.
LEMMA Noted ==
    ASSUME Control, Lists, NEW ok \in BOOLEAN, command' = command,
           argi \in DOMAIN command.inputs, IsTranslated(Input),
           (AtC /\ ReturnFromC(ok)) \/ ReturnFromAsm(ok)
    PROVE  Lists'
<1> DEFINE l == ReplaceExtension(asmFilename, ".lst")
           o == CompilationOutput(Input)
<1>1. l \in Mine /\ (AtC => asmFilename \in Mine) /\ o \in Mine
  BY AsmFiles, OutputsOfInput DEF Input, Control
<1>2. Mine' = Mine
  BY MineStays
<1>3. intermediateObjectFiles' \in Seq(Mine)
  <2>1. intermediateObjectFiles' \in {intermediateObjectFiles, Append(intermediateObjectFiles, o)}
    BY DEF ReturnFromC, ReturnFromAsm
  <2> HIDE DEF o
  <2> QED BY <2>1, <1>1, Appending DEF Lists
<1>4. intermediateCompilationFiles' \in Seq(Mine)
  <2>1. CASE AtC /\ ReturnFromC(ok)
    <3> DEFINE q == intermediateCompilationFiles
               x == IF genAsmOnly THEN <<>> ELSE <<asmFilename>>
               y == IF kept THEN <<>> ELSE <<l>>
    <3>1. intermediateCompilationFiles' = (q \o x) \o y
      BY <2>1 DEF ReturnFromC, CompilationFiles
    <3>2. x \in Seq(Mine) /\ y \in Seq(Mine) /\ q \in Seq(Mine)
      <4> HIDE DEF l
      <4> QED BY <1>1, <2>1, Appending DEF Lists
    <3> HIDE DEF q, x, y
    <3>3. (q \o x) \o y \in Seq(Mine)
      BY <3>2
    <3> QED BY <3>1, <3>3
  <2>2. CASE ReturnFromAsm(ok)
    <3>1. intermediateCompilationFiles' \in
            {intermediateCompilationFiles, Append(intermediateCompilationFiles, l)}
      BY <2>2 DEF ReturnFromAsm
    <3> HIDE DEF l
    <3> QED BY <3>1, <1>1, Appending DEF Lists
  <2> QED BY <2>1, <2>2
<1>5. toRemove' \in Seq(Mine)
  <2>1. toRemove' \in {toRemove, <<>>, intermediateCompilationFiles,
                       intermediateCompilationFiles'}
    BY DEF ReturnFromC, ReturnFromAsm, NextInput, EndInputs, ToRemove
  <2>2. <<>> \in Seq(Mine)
    OBVIOUS
  <2> QED BY <2>1, <2>2, <1>4 DEF Lists
<1> QED BY <1>2, <1>3, <1>4, <1>5 DEF Lists

\* Of the steps, those that return from the translation of an input.
LEMMA Returns ==
    ASSUME Control,
           \/ PreprocessorFails \/ PreprocessOnly \/ ErrorsFound \/ EmissionFails
           \/ WarningsAreErrors \/ PrerequisitesFail \/ Compiled
           \/ InvokeAssembler \/ AssemblerFails
    PROVE  /\ command' = command /\ given' = given
           /\ argi \in DOMAIN command.inputs /\ IsTranslated(Input)
           /\ \E ok \in BOOLEAN : (AtC /\ ReturnFromC(ok)) \/ (~AtC /\ ReturnFromAsm(ok))
<1>1. CASE \/ PreprocessorFails \/ PreprocessOnly \/ ErrorsFound \/ EmissionFails
           \/ WarningsAreErrors \/ PrerequisitesFail \/ Compiled
  <2>1. /\ command' = command /\ given' = given /\ pc \in CStages
        /\ ReturnFromC(TRUE) \/ ReturnFromC(FALSE)
    BY <1>1 DEF PreprocessorFails, PreprocessOnly, ErrorsFound, EmissionFails,
                WarningsAreErrors, PrerequisitesFail, Compiled, CompilationFails, Keep, CStages
  <2>2. AtC /\ argi \in DOMAIN command.inputs /\ IsTranslated(Input)
    BY <2>1 DEF Control, AtC
  <2> QED BY <2>1, <2>2
<1>2. CASE InvokeAssembler \/ AssemblerFails
  <2>1. /\ command' = command /\ given' = given /\ pc = "assemble"
        /\ ReturnFromAssembler(TRUE) \/ ReturnFromAssembler(FALSE)
    BY <1>2 DEF InvokeAssembler, AssemblerFails, Keep
  <2>2. argi \in DOMAIN command.inputs /\ IsTranslated(Input)
    BY <2>1 DEF Control
  <2>3. IsCFile(Input) <=> AtC
    BY <2>1 DEF AtC, CStages
  <2> QED BY <2>1, <2>2, <2>3 DEF ReturnFromAssembler
<1> QED BY <1>1, <1>2

LEMMA Linking ==
    ASSUME command \in Commands, AllKnown, intermediateObjectFiles \in Seq(Mine)
    PROVE  LinkingFiles \in Seq(Mine) /\ RefusedRemoved(Executable) \in Seq(Mine)
BY LinkedFiles DEF LinkingFiles, RefusedRemoved

LEMMA ListsStep == Control /\ Lists /\ [Next]_vars => Lists'
<1> SUFFICES ASSUME Control, Lists, [Next]_vars PROVE Lists'
  OBVIOUS
<1>a. command \in Commands /\ <<>> \in Seq(Mine) /\ (pc \in LinkStages => AllKnown)
  BY DEF Control
<1>b. ASSUME command' = command,
             intermediateCompilationFiles' = intermediateCompilationFiles,
             intermediateObjectFiles' = intermediateObjectFiles,
             toRemove' \in Seq(Mine)
      PROVE  Lists'
  BY <1>b, MineStays DEF Lists
<1>1. CASE AllInputsTaken \/ InputRefused
  <2>1. /\ command' = command
        /\ intermediateCompilationFiles' = intermediateCompilationFiles
        /\ intermediateObjectFiles' = intermediateObjectFiles
        /\ toRemove' \in {<<>>, intermediateCompilationFiles}
    BY <1>1 DEF AllInputsTaken, InputRefused, EndInputs, ToRemove, Keep, lists
  <2> QED BY <2>1, <1>a, <1>b DEF Lists
<1>2. CASE \/ PreprocessorFails \/ PreprocessOnly \/ ErrorsFound \/ EmissionFails
           \/ WarningsAreErrors \/ PrerequisitesFail \/ Compiled
           \/ InvokeAssembler \/ AssemblerFails
  BY <1>2, Returns, Noted
<1>3. CASE RemoveFile
  <2>1. /\ command' = command
        /\ intermediateCompilationFiles' = intermediateCompilationFiles
        /\ intermediateObjectFiles' = intermediateObjectFiles
        /\ toRemove' = Tail(toRemove) /\ toRemove # <<>>
    BY <1>3 DEF RemoveFile, Keep, lists
  <2>2. Tail(toRemove) \in Seq(Mine)
    BY <2>1 DEF Lists
  <2> QED BY <2>1, <2>2, <1>b
<1>4. CASE Removed
  <2>1. /\ command' = command
        /\ intermediateCompilationFiles' = intermediateCompilationFiles
        /\ intermediateObjectFiles' = intermediateObjectFiles
        /\ toRemove' \in {<<>>, toRemove} \/ (toRemove' = LinkingFiles /\ pc = "drop")
    BY <1>4 DEF Removed, BeginUnlink, ToRemove, Keep, lists
  <2>2. pc = "drop" => LinkingFiles \in Seq(Mine)
    BY <1>a, Linking DEF Lists, LinkStages
  <2> QED BY <2>1, <2>2, <1>a, <1>b DEF Lists
<1>5. CASE CreateLinkScriptFails \/ LwlinkFails \/ CheckLinkingMap \/ MapUnreadable
  <2>1. /\ command' = command /\ pc \in LinkStages
        /\ intermediateCompilationFiles' = intermediateCompilationFiles
        /\ intermediateObjectFiles' = intermediateObjectFiles
        /\ toRemove' \in {<<>>, LinkingFiles, RefusedRemoved(Executable)}
    BY <1>5 DEF CreateLinkScriptFails, LwlinkFails, CheckLinkingMap, MapUnreadable,
                BeginUnlink, ToRemove, Keep, lists, LinkStages
  <2> QED BY <2>1, <1>a, <1>b, Linking DEF Lists
<1>6. CASE \/ TakeObject \/ TakeLibrary \/ TakeC \/ TakeAsm \/ Preprocess \/ Compile
           \/ CreateAssemblyLanguageFile \/ WritePrerequisites \/ RefuseToRemove
           \/ CreateLinkScript \/ Lwlink \/ ReadBlocks \/ BlocksUnreadable
           \/ Overwrite \/ OverwriteFails \/ UNCHANGED vars
  <2>1. /\ command' = command
        /\ intermediateCompilationFiles' = intermediateCompilationFiles
        /\ intermediateObjectFiles' = intermediateObjectFiles
        /\ toRemove' = toRemove
    BY <1>6 DEF TakeObject, TakeLibrary, TakeC, TakeAsm, Preprocess, Compile, NextInput,
                CreateAssemblyLanguageFile, WritePrerequisites, RefuseToRemove,
                CreateLinkScript, Lwlink, ReadBlocks, BlocksUnreadable, Overwrite,
                OverwriteFails, Keep, lists, vars
  <2> QED BY <2>1, <1>b DEF Lists
<1> QED BY <1>1, <1>2, <1>3, <1>4, <1>5, <1>6 DEF Next

-----------------------------------------------------------------------------
(* What the command does not touch. *)

\* One file of the command's is written.
LEMMA OneWritten ==
    ASSUME Untouched, command' = command, given' = given,
           NEW p \in Mine, NEW f, fs' = [fs EXCEPT ![p] = f]
    PROVE  Untouched'
BY MineStays DEF Untouched, Paths

LEMMA NoneWritten ==
    ASSUME Untouched, command' = command, given' = given, fs' = fs
    PROVE  Untouched'
BY MineStays DEF Untouched, Paths

LEMMA UntouchedStep == IInv /\ [Next]_vars => Untouched'
<1> SUFFICES ASSUME Control, Lists, Untouched, [Next]_vars PROVE Untouched'
  BY DEF IInv
<1>a. /\ command \in Commands
      /\ pc \in CStages \cup {"assemble"} => IsTranslated(Input) /\ argi \in DOMAIN command.inputs
      /\ pc \in CStages => AtC
      /\ pc \in LinkStages => AllKnown
  BY DEF Control, AtC
<1>b. pc \in CStages \cup {"assemble"} =>
         /\ CompilationOutput(Input) \in Mine /\ DependenciesOf(Input) \in Mine
         /\ ListingOf(Input) \in Mine
  BY <1>a, OutputsOfInput DEF Input
<1>c. pc \in CStages => EmittedFile \in Mine
  BY <1>a, <1>b, AsmFiles DEF EmittedFile
<1>d. pc \in LinkStages => Executable \in Mine /\ LinkScriptFile \in Mine /\ MapFile \in Mine
  BY <1>a, LinkedFiles
<1>1. CASE CreateAssemblyLanguageFile \/ EmissionFails \/ WarningsAreErrors
  <2>1. /\ command' = command /\ given' = given /\ pc \in CStages
        /\ \/ fs' = [fs EXCEPT ![EmittedFile] = File(EmittedKind, <<Input>>)]
           \/ \E f \in {fs[EmittedFile], Torn} : fs' = [fs EXCEPT ![EmittedFile] = f]
    BY <1>1 DEF CreateAssemblyLanguageFile, EmissionFails, WarningsAreErrors, Keep, Written,
                NotWritten, CStages
  <2> QED BY <2>1, <1>c, OneWritten
<1>2. CASE WritePrerequisites
  <2>1. /\ command' = command /\ given' = given /\ pc \in CStages
        /\ fs' = [fs EXCEPT ![DependenciesOf(Input)] = File("other", <<Input>>)]
    BY <1>2 DEF WritePrerequisites, Keep, Written, CStages
  <2> QED BY <2>1, <1>b, OneWritten
<1>3. CASE InvokeAssembler
  <2>1. /\ command' = command /\ given' = given /\ pc = "assemble"
        /\ DOMAIN fs' = Paths
        /\ \A p \in Paths : p # CompilationOutput(Input) /\ p # ListingOf(Input) => fs'[p] = fs[p]
    BY <1>3 DEF InvokeAssembler, Keep
  <2>2. \A p \in Paths \ Mine : fs'[p] = fs[p]
    BY <2>1, <1>b
  <2> QED BY <2>1, <2>2, MineStays DEF Untouched, Paths
<1>4. CASE AssemblerFails
  <2>1. /\ command' = command /\ given' = given /\ pc = "assemble"
        /\ \E f \in Spoiled(CompilationOutput(Input)) :
              fs' = [fs EXCEPT ![CompilationOutput(Input)] = f]
    BY <1>4 DEF AssemblerFails, Keep
  <2> QED BY <2>1, <1>b, OneWritten
<1>5. CASE RemoveFile
  <2>1. /\ command' = command /\ given' = given /\ toRemove # <<>>
        /\ fs' = fs \/ fs' = [fs EXCEPT ![Head(toRemove)] = Absent]
    BY <1>5 DEF RemoveFile, Keep
  <2>2. Head(toRemove) \in Mine
    BY <2>1 DEF Lists
  <2> QED BY <2>1, <2>2, OneWritten, NoneWritten
<1>6. CASE CreateLinkScript \/ CreateLinkScriptFails
  <2>1. /\ command' = command /\ given' = given /\ pc \in LinkStages
        /\ \E f : fs' = [fs EXCEPT ![LinkScriptFile] = f]
    BY <1>6 DEF CreateLinkScript, CreateLinkScriptFails, Keep, Written, NotWritten, LinkStages
  <2> QED BY <2>1, <1>d, OneWritten
<1>7. CASE Lwlink \/ LwlinkFails
  <2>1. /\ command' = command /\ given' = given /\ pc \in LinkStages
        /\ \E e, m : fs' = [fs EXCEPT ![Executable] = e, ![MapFile] = m]
    BY <1>7 DEF Lwlink, LwlinkFails, Keep, LinkStages
  <2>2. /\ DOMAIN fs' = Paths
        /\ \A p \in Paths \ Mine : fs'[p] = fs[p]
    BY <2>1, <1>d DEF Untouched
  <2> QED BY <2>1, <2>2, MineStays DEF Untouched, Paths
<1>8. CASE Overwrite \/ OverwriteFails
  <2>1. /\ command' = command /\ given' = given /\ pc \in LinkStages
        /\ \E f : fs' = [fs EXCEPT ![Executable] = f]
    BY <1>8 DEF Overwrite, OverwriteFails, Keep, Written, NotWritten, LinkStages
  <2> QED BY <2>1, <1>d, OneWritten
<1>9. CASE \/ AllInputsTaken \/ InputRefused \/ TakeObject \/ TakeLibrary \/ TakeC \/ TakeAsm
           \/ PreprocessorFails \/ PreprocessOnly \/ Preprocess \/ ErrorsFound \/ Compile
           \/ PrerequisitesFail \/ Compiled \/ RefuseToRemove \/ Removed
           \/ CheckLinkingMap \/ MapUnreadable \/ ReadBlocks \/ BlocksUnreadable
           \/ UNCHANGED vars
  <2>1. command' = command /\ given' = given /\ fs' = fs
    BY <1>9 DEF AllInputsTaken, InputRefused, TakeObject, TakeLibrary, TakeC, TakeAsm,
                PreprocessorFails, PreprocessOnly, Preprocess, ErrorsFound, Compile,
                PrerequisitesFail, Compiled, RefuseToRemove, Removed, CheckLinkingMap,
                MapUnreadable, ReadBlocks, BlocksUnreadable, Keep, vars
  <2> QED BY <2>1, NoneWritten
<1> QED BY <1>1, <1>2, <1>3, <1>4, <1>5, <1>6, <1>7, <1>8, <1>9 DEF Next

-----------------------------------------------------------------------------
(* What the variables hold. *)

Kinds == {"absent", "torn", "c", "asm", "obj", "lib", "map", "script",
          "exe", "dragon", "json", "other"}
IsFile(f) == DOMAIN f = {"kind", "of", "end", "sections", "blocks"} /\ f.kind \in Kinds

Typed ==
    /\ \A p \in Paths : IsFile(fs[p])
    /\ argi <= Len(command.inputs) + 1
    /\ status \in {"success", "failure"}
    /\ address \in Addresses
    /\ objectFilenames \in Seq(Paths) /\ libraryFilenames \in Seq(Paths)
    /\ warned \in BOOLEAN

LEMMA FilesAre ==
    /\ \A k \in Kinds : \A of : IsFile(File(k, of))
    /\ IsFile(Absent) /\ IsFile(Torn)
BY DEF Kinds, IsFile, File, Absent, Torn

\* One file is written.
LEMMA OneTyped ==
    ASSUME \A p \in Paths : IsFile(fs[p]), DOMAIN fs = Paths,
           NEW q, NEW f, IsFile(f), fs' = [fs EXCEPT ![q] = f]
    PROVE  \A p \in Paths : IsFile(fs'[p])
BY Zenon

LEMMA FilesTyped ==
    ASSUME \A p \in Paths : IsFile(fs[p]), DOMAIN fs = Paths, Control, Next
    PROVE  \A p \in Paths : IsFile(fs'[p])
<1>a. pc \in CStages => EmittedFile \in Paths
  <2>1. ASSUME pc \in CStages PROVE EmittedFile \in Mine
    <3>1. AtC /\ IsTranslated(Input) /\ argi \in DOMAIN command.inputs /\ command \in Commands
      BY <2>1 DEF Control, AtC
    <3> QED BY <3>1, AsmFiles, OutputsOfInput DEF EmittedFile, Input
  <2> QED BY <2>1 DEF Mine
<1>b. pc \in LinkStages => Executable \in Paths /\ LinkScriptFile \in Paths
  BY LinkedFiles DEF Control, Mine
<1>1. CASE CreateAssemblyLanguageFile \/ EmissionFails \/ WarningsAreErrors
  <2>1. /\ pc \in CStages
        /\ \/ fs' = [fs EXCEPT ![EmittedFile] = File(EmittedKind, <<Input>>)]
           \/ \E f \in {fs[EmittedFile], Torn} : fs' = [fs EXCEPT ![EmittedFile] = f]
    BY <1>1 DEF CreateAssemblyLanguageFile, EmissionFails, WarningsAreErrors, Written,
                NotWritten, CStages
  <2>2. EmittedKind \in Kinds
    BY DEF EmittedKind, Kinds
  <2> QED BY <2>1, <2>2, <1>a, OneTyped, FilesAre
<1>2. CASE WritePrerequisites
  <2>1. "other" \in Kinds
    BY DEF Kinds
  <2> QED BY <1>2, <2>1, OneTyped, FilesAre DEF WritePrerequisites, Written
<1>3. CASE InvokeAssembler
  <2>1. "obj" \in Kinds /\ "other" \in Kinds
    BY DEF Kinds
  <2> QED BY <1>3, <2>1, FilesAre DEF InvokeAssembler
<1>4. CASE AssemblerFails
  <2>1. CompilationOutput(Input) \in Paths
    <3>1. IsTranslated(Input) /\ argi \in DOMAIN command.inputs /\ command \in Commands
      BY <1>4 DEF Control, AssemblerFails
    <3> QED BY <3>1, OutputsOfInput DEF Input, Mine
  <2> QED BY <1>4, <2>1, OneTyped, FilesAre DEF AssemblerFails, Spoiled
<1>5. CASE RemoveFile
  BY <1>5, OneTyped, FilesAre DEF RemoveFile
<1>6. CASE CreateLinkScript \/ CreateLinkScriptFails
  <2>1. IsFile([File("script", <<>>) EXCEPT
                  !.sections = LinkScript(command.platform, address.code, address.data)])
    BY DEF IsFile, File, Kinds
  <2>2. LinkScriptFile \in Paths
    BY <1>6, <1>b DEF CreateLinkScript, CreateLinkScriptFails, LinkStages
  <2> QED BY <1>6, <2>1, <2>2, OneTyped, FilesAre
          DEF CreateLinkScript, CreateLinkScriptFails, Written, NotWritten
<1>7. CASE Lwlink \/ LwlinkFails
  <2>1. \A bs : IsFile([File("exe", Modules \o libraryFilenames) EXCEPT !.blocks = bs])
    BY DEF IsFile, File, Kinds
  <2>2. \A end : IsFile([File("map", Modules) EXCEPT !.end = end])
    BY DEF IsFile, File, Kinds
  <2>3. Executable \in Paths /\ MapFile \in Paths
    BY <1>7, LinkedFiles DEF Control, Mine, Lwlink, LwlinkFails, LinkStages
  <2>4. \E e, m : IsFile(e) /\ IsFile(m) /\ fs' = [fs EXCEPT ![Executable] = e, ![MapFile] = m]
    BY <1>7, <2>1, <2>2, <2>3, FilesAre DEF Lwlink, LwlinkFails, Spoiled
  <2> QED BY <2>4
<1>8. CASE Overwrite \/ OverwriteFails
  <2>1. Executable \in Paths
    BY <1>8, <1>b DEF Overwrite, OverwriteFails, LinkStages
  <2>2. IsFile([fs[Executable] EXCEPT !.kind = "dragon", !.blocks = <<SingleBlock(blocks)>>])
    BY <2>1 DEF IsFile, Kinds
  <2> QED BY <1>8, <2>1, <2>2, OneTyped, FilesAre DEF Overwrite, OverwriteFails, Written, NotWritten
<1>9. CASE \/ AllInputsTaken \/ InputRefused \/ TakeObject \/ TakeLibrary \/ TakeC \/ TakeAsm
           \/ PreprocessorFails \/ PreprocessOnly \/ Preprocess \/ ErrorsFound \/ Compile
           \/ PrerequisitesFail \/ Compiled \/ RefuseToRemove \/ Removed
           \/ CheckLinkingMap \/ MapUnreadable \/ ReadBlocks \/ BlocksUnreadable
  <2>1. fs' = fs
    BY <1>9 DEF AllInputsTaken, InputRefused, TakeObject, TakeLibrary, TakeC, TakeAsm,
                PreprocessorFails, PreprocessOnly, Preprocess, ErrorsFound, Compile,
                PrerequisitesFail, Compiled, RefuseToRemove, Removed, CheckLinkingMap,
                MapUnreadable, ReadBlocks, BlocksUnreadable, Keep
  <2> QED BY <2>1
<1> QED BY <1>1, <1>2, <1>3, <1>4, <1>5, <1>6, <1>7, <1>8, <1>9 DEF Next

\* The addresses are those of the command line or of a pragma.
LEMMA PragmasAreAddresses ==
    ASSUME NEW a \in Addresses, NEW base \in Bases
    PROVE  AfterPragmas(base, a) \in Addresses
BY AddressesAssumption DEF AfterPragmas, Addresses

\* A step that goes back to the loop, or leaves it.
LEMMA ReturnsTyped ==
    ASSUME Typed, command \in Commands, command' = command, argi \in DOMAIN command.inputs,
           NEW ok \in BOOLEAN, ReturnFromC(ok) \/ ReturnFromAsm(ok)
    PROVE  /\ argi' <= Len(command.inputs) + 1
           /\ status' \in {"success", "failure"}
           /\ objectFilenames' \in Seq(Paths) /\ libraryFilenames' \in Seq(Paths)
<1> DEFINE e == ".o"
           m == ModuleFile(Input, e)
<1>1. argi \in 1..Len(command.inputs) /\ Input \in Paths
  BY Inputs DEF Input
<1>2. argi' \in {argi, argi + 1} /\ status' \in {status, "failure"}
  BY DEF ReturnFromC, ReturnFromAsm, NextInput, EndInputs
<1>3. /\ objectFilenames' \in {objectFilenames, Append(objectFilenames, m)}
      /\ libraryFilenames' = libraryFilenames
  BY DEF ReturnFromC, ReturnFromAsm
<1>4. e \in Extensions
  BY Literals
<1>5. m \in Paths
  <2> HIDE DEF e
  <2> QED BY <1>1, <1>4, Replaced
<1> HIDE DEF m
<1>6. Append(objectFilenames, m) \in Seq(Paths)
  BY <1>5 DEF Typed
<1>7. argi' <= Len(command.inputs) + 1
  BY <1>1, <1>2, Inputs
<1> QED BY <1>2, <1>3, <1>6, <1>7 DEF Typed

LEMMA TypedStep == IInv /\ Typed /\ [Next]_vars => Typed'
<1> SUFFICES ASSUME Control, Untouched, Typed, Next PROVE Typed'
  BY DEF IInv, Typed, vars, lists, IsFile
<1>a. \A p \in Paths : IsFile(fs'[p])
  BY FilesTyped DEF Typed, Untouched
<1>b. /\ command \in Commands /\ argi \in Nat \ {0}
      /\ AtInput => argi \in DOMAIN command.inputs
      /\ DOMAIN command.inputs = 1..Len(command.inputs) /\ Len(command.inputs) \in Nat
  BY Inputs DEF Control, AtInput
<1>c. command' = command
  BY DEF Next, AllInputsTaken, InputRefused, TakeObject, TakeLibrary, TakeC, TakeAsm,
         PreprocessorFails, PreprocessOnly, Preprocess, ErrorsFound, Compile,
         CreateAssemblyLanguageFile, EmissionFails, WarningsAreErrors, WritePrerequisites,
         PrerequisitesFail, Compiled, InvokeAssembler, AssemblerFails, RemoveFile,
         RefuseToRemove, Removed, CreateLinkScript, CreateLinkScriptFails, Lwlink, LwlinkFails,
         CheckLinkingMap, MapUnreadable, ReadBlocks, BlocksUnreadable, Overwrite,
         OverwriteFails, Keep
<1>1. CASE TakeObject \/ TakeLibrary
  <2>1. Input \in Paths /\ argi \in 1..Len(command.inputs)
    BY <1>1, <1>b, Inputs DEF TakeObject, TakeLibrary, Input
  <2>2. /\ Append(objectFilenames, Input) \in Seq(Paths)
        /\ Append(libraryFilenames, Input) \in Seq(Paths)
    <3> DEFINE p == Input
    <3> HIDE DEF p
    <3>1. p \in Paths
      BY <2>1 DEF p
    <3>2. Append(objectFilenames, p) \in Seq(Paths) /\ Append(libraryFilenames, p) \in Seq(Paths)
      BY <3>1 DEF Typed
    <3> QED BY <3>2 DEF p
  <2>3. /\ objectFilenames' \in {objectFilenames, Append(objectFilenames, Input)}
        /\ libraryFilenames' \in {libraryFilenames, Append(libraryFilenames, Input)}
        /\ argi' = argi + 1 /\ status' = status /\ address' = address /\ warned' = warned
    BY <1>1 DEF TakeObject, TakeLibrary, NextInput, Keep
  <2>4. argi' <= Len(command'.inputs) + 1
    BY <2>1, <2>3, <1>b, <1>c
  <2> QED BY <2>2, <2>3, <2>4, <1>a DEF Typed
<1>2. CASE \/ PreprocessorFails \/ PreprocessOnly \/ ErrorsFound \/ EmissionFails
           \/ WarningsAreErrors \/ PrerequisitesFail \/ Compiled
           \/ InvokeAssembler \/ AssemblerFails
  <2>1. /\ argi \in DOMAIN command.inputs
        /\ \E ok \in BOOLEAN : ReturnFromC(ok) \/ ReturnFromAsm(ok)
    BY <1>2, Returns
  <2>2. /\ argi' <= Len(command.inputs) + 1
        /\ status' \in {"success", "failure"}
        /\ objectFilenames' \in Seq(Paths) /\ libraryFilenames' \in Seq(Paths)
    BY <2>1, <1>b, <1>c, ReturnsTyped
  <2>3. address' \in Addresses /\ warned' = warned
    <3>1. Input[2] \in Bases
      BY <2>1, <1>b, NamesAssumption DEF Input
    <3>2. AfterPragmas(Input[2], address) \in Addresses
      BY <3>1, PragmasAreAddresses DEF Typed
    <3>3. address' \in {address, AfterPragmas(Input[2], address)} /\ warned' = warned
      BY <1>2 DEF PreprocessorFails, PreprocessOnly, ErrorsFound, EmissionFails,
                  WarningsAreErrors, PrerequisitesFail, Compiled, InvokeAssembler,
                  AssemblerFails, Keep
    <3> QED BY <3>2, <3>3 DEF Typed
  <2> QED BY <2>2, <2>3, <1>a, <1>c DEF Typed
<1>3. CASE Compile
  <2>1. argi \in DOMAIN command.inputs
    BY <1>3 DEF Compile, Control, CStages
  <2>2. Input[2] \in Bases
    BY <2>1, <1>b, NamesAssumption DEF Input
  <2>3. AfterPragmas(Input[2], address) \in Addresses
    BY <2>2, PragmasAreAddresses DEF Typed
  <2>4. /\ address' = AfterPragmas(Input[2], address)
        /\ UNCHANGED <<argi, status, objectFilenames, libraryFilenames, warned>>
    BY <1>3 DEF Compile, Keep, lists
  <2> QED BY <2>3, <2>4, <1>a, <1>c DEF Typed
<1>4. CASE \/ AllInputsTaken \/ InputRefused \/ TakeC \/ TakeAsm \/ Preprocess
           \/ CreateAssemblyLanguageFile \/ WritePrerequisites
           \/ RemoveFile \/ RefuseToRemove \/ Removed
           \/ CreateLinkScript \/ CreateLinkScriptFails \/ Lwlink \/ LwlinkFails
           \/ CheckLinkingMap \/ MapUnreadable
           \/ ReadBlocks \/ BlocksUnreadable \/ Overwrite \/ OverwriteFails
  <2>1. /\ UNCHANGED <<argi, address, objectFilenames, libraryFilenames>>
        /\ status' \in {status, "failure"} /\ warned' \in {warned, TRUE}
    BY <1>4 DEF AllInputsTaken, InputRefused, TakeC, TakeAsm, Preprocess,
         CreateAssemblyLanguageFile, WritePrerequisites, RemoveFile,
         RefuseToRemove, Removed, CreateLinkScript, CreateLinkScriptFails, Lwlink, LwlinkFails,
         CheckLinkingMap, MapUnreadable, ReadBlocks, BlocksUnreadable, Overwrite,
         OverwriteFails, BeginUnlink, EndInputs, Keep, lists
  <2> QED BY <2>1, <1>a, <1>c DEF Typed
<1> QED BY <1>1, <1>2, <1>3, <1>4 DEF Next

-----------------------------------------------------------------------------
(* What the command leaves. *)

\* The files that are there and were not as they are.
Left == {p \in Paths : fs[p] # given[p] /\ Exists(fs, p)}

Translated == {p \in {command.inputs[i] : i \in DOMAIN command.inputs} : IsTranslated(p)}

\* What the command makes, however it ends.
Products ==
    {Executable} \cup {DependenciesOf(p) : p \in Translated}
      \cup {CompilationOutput(p) : p \in {q \in Translated : compileOnly}}
      \cup {UseIntDir(command.intdir, ModuleFile(p, ".s")) : p \in {q \in Translated : genAsmOnly}}

InLoop == pc \in CStages \cup {"input", "assemble"}

\* What a later step removes.
Awaiting ==
    (IF InLoop THEN Range(intermediateCompilationFiles) ELSE {})
      \cup (IF AtC THEN {asmFilename} ELSE {})
      \cup (IF InLoop \/ pc \in {"clean", "script", "link", "check_map", "drop"}
            THEN Range(intermediateObjectFiles) ELSE {})
      \cup (IF pc \in {"link", "check_map", "drop"} THEN {LinkScriptFile, MapFile} ELSE {})
      \cup (IF pc \in {"clean", "unlink"} THEN Range(toRemove) ELSE {})

\* The objects that are noted are those of the inputs, and the linker is to remove
\* them: where it is not reached, an input is the last that was taken.
Noting ==
    /\ \A o \in Range(intermediateObjectFiles) : \E p \in Translated : o = CompilationOutput(p)
    /\ compileOnly => intermediateObjectFiles = <<>>
    /\ InLoop => status = "success"
    /\ pc = "clean" /\ status = "failure" => argi <= Len(command.inputs)
    /\ pc \in LinkStages => ~compileOnly

Destined == (IF InLoop THEN Products ELSE OutputFiles) \cup Awaiting

\* Every file that is left is a product or will be removed.
Accounted == ~kept /\ ~warned => Left \subseteq Destined

LEMMA RangeOfAppend ==
    ASSUME NEW S, NEW q \in Seq(S), NEW e \in S
    PROVE  Range(Append(q, e)) = Range(q) \cup {e}
<1>1. /\ DOMAIN Append(q, e) = 1..(Len(q) + 1) /\ Append(q, e)[Len(q) + 1] = e
      /\ \A i \in 1..Len(q) : Append(q, e)[i] = q[i]
      /\ DOMAIN q = 1..Len(q) /\ Len(q) \in Nat
  OBVIOUS
<1> QED BY <1>1 DEF Range

LEMMA RangeOfConcatenation ==
    ASSUME NEW S, NEW q \in Seq(S), NEW r \in Seq(S)
    PROVE  Range(q \o r) = Range(q) \cup Range(r)
<1> DEFINE c == q \o r
<1>1. /\ DOMAIN c = 1..(Len(q) + Len(r))
      /\ DOMAIN q = 1..Len(q) /\ Len(q) \in Nat /\ DOMAIN r = 1..Len(r) /\ Len(r) \in Nat
      /\ \A i \in 1..Len(q) : c[i] = q[i]
      /\ \A i \in 1..Len(r) : c[i + Len(q)] = r[i]
      /\ \A i \in 1..(Len(q) + Len(r)) :
            \/ i \in 1..Len(q)
            \/ i - Len(q) \in 1..Len(r) /\ c[i] = r[i - Len(q)]
  OBVIOUS
<1> HIDE DEF c
<1>2. ASSUME NEW i \in 1..(Len(q) + Len(r)) PROVE c[i] \in Range(q) \cup Range(r)
  BY <1>1 DEF Range
<1>3. Range(q) \subseteq Range(c)
  BY <1>1 DEF Range
<1>4. ASSUME NEW i \in 1..Len(r) PROVE r[i] \in Range(c)
  <2>1. i + Len(q) \in 1..(Len(q) + Len(r))
    BY <1>1
  <2> QED BY <2>1, <1>1 DEF Range
<1>5. Range(c) \subseteq Range(q) \cup Range(r) /\ Range(r) \subseteq Range(c)
  BY <1>1, <1>2, <1>4 DEF Range
<1> QED BY <1>3, <1>5 DEF c

LEMMA RangeOfTail ==
    ASSUME NEW S, NEW q \in Seq(S), q # <<>>
    PROVE  Range(q) \subseteq {Head(q)} \cup Range(Tail(q))
<1>1. /\ DOMAIN Tail(q) = 1..(Len(q) - 1) /\ Len(q) \in Nat /\ Len(q) > 0 /\ Head(q) = q[1]
      /\ DOMAIN q = 1..Len(q)
      /\ \A i \in 1..(Len(q) - 1) : Tail(q)[i] = q[i + 1]
  OBVIOUS
<1>2. \A i \in 1..Len(q) : i = 1 \/ (i - 1 \in 1..(Len(q) - 1) /\ q[i] = Tail(q)[i - 1])
  BY <1>1
<1>3. ASSUME NEW i \in 1..Len(q) PROVE q[i] \in {Head(q)} \cup Range(Tail(q))
  BY <1>1, <1>2 DEF Range
<1> QED BY <1>1, <1>3 DEF Range

LEMMA RangeOfFew ==
    /\ Range(<<>>) = {}
    /\ \A e : Range(<<e>>) = {e}
    /\ \A e, f : Range(<<e, f>>) = {e, f}
BY DEF Range

\* What a step writes is all that it adds to what is left; what is removed is not left.
LEMMA Writing ==
    ASSUME given' = given
    PROVE  /\ fs' = fs => Left' = Left
           /\ \A q, f : DOMAIN fs = Paths /\ fs' = [fs EXCEPT ![q] = f] => Left' \subseteq Left \cup {q}
           /\ \A q : DOMAIN fs = Paths /\ fs' = [fs EXCEPT ![q] = Absent] => Left' \subseteq Left \ {q}
<1>1. fs' = fs => Left' = Left
  BY DEF Left, Exists
<1>2. ASSUME NEW q, NEW f, DOMAIN fs = Paths, fs' = [fs EXCEPT ![q] = f]
      PROVE  Left' \subseteq Left \cup {q}
  BY <1>2 DEF Left, Exists
<1>3. ASSUME NEW q, DOMAIN fs = Paths, fs' = [fs EXCEPT ![q] = Absent]
      PROVE  Left' \subseteq Left \ {q}
  <2>1. Absent.kind = "absent"
    BY DEF Absent, File
  <2>2. ASSUME NEW p \in Left' PROVE p \in Left /\ p # q
    <3>1. p \in Paths /\ fs'[p] # given[p] /\ fs'[p].kind # "absent"
      BY <2>2 DEF Left, Exists
    <3>2. p # q
      BY <3>1, <2>1, <1>3
    <3> QED BY <3>1, <3>2, <1>3 DEF Left, Exists
  <2> QED BY <2>2
<1> QED BY <1>1, <1>2, <1>3

LEMMA ProductsStay ==
    ASSUME command' = command
    PROVE  /\ Products' = Products /\ (argi' = argi => OutputFiles' = OutputFiles)
           /\ Translated' = Translated /\ LinkScriptFile' = LinkScriptFile /\ MapFile' = MapFile
           /\ kept' = kept /\ compileOnly' = compileOnly
           /\ \A p : CompilationOutput(p)' = CompilationOutput(p)
BY DEF Products, OutputFiles, Translated, LinkScriptFile, MapFile, kept, compileOnly, genAsmOnly,
       CompilationOutput, DependenciesOf, Executable, ExecutableExtension, IsTranslated, IsCFile,
       IsAsmFile

LEMMA ProductsAreOutputs ==
    /\ Products \subseteq OutputFiles
    /\ argi <= Len(command.inputs) => \A p \in Translated : CompilationOutput(p) \in OutputFiles
BY DEF Products, OutputFiles, Translated

\* Where the input in hand goes.
LEMMA InputProducts ==
    ASSUME argi \in DOMAIN command.inputs, IsTranslated(Input)
    PROVE  /\ Input \in Translated /\ DependenciesOf(Input) \in Products
           /\ compileOnly => CompilationOutput(Input) \in Products
           /\ genAsmOnly => AsmOf(argi) \in Products
BY DEF Products, Translated, Input, AsmOf

\* An input is taken.
LEMMA NotedObject ==
    ASSUME Control, Lists, Noting, InLoop, NEW ok \in BOOLEAN, command' = command,
           argi \in DOMAIN command.inputs, IsTranslated(Input),
           ReturnFromC(ok) \/ ReturnFromAsm(ok)
    PROVE  Noting'
<1> DEFINE o == CompilationOutput(Input)
           q == intermediateObjectFiles
<1>a. /\ Input \in Translated /\ o \in Mine /\ q \in Seq(Mine)
      /\ argi \in 1..Len(command.inputs)
  BY InputProducts, OutputsOfInput, Inputs DEF Input, Control, Lists
<1>b. ~compileOnly => Range(Append(q, o)) = Range(q) \cup {o}
  <2> HIDE DEF o, q
  <2> QED BY <1>a, RangeOfAppend
<1>1. /\ intermediateObjectFiles' \in {q, Append(q, o)}
      /\ compileOnly => intermediateObjectFiles' = q
  BY DEF ReturnFromC, ReturnFromAsm
<1>2. \/ pc' = "input" /\ status' = status
      \/ pc' = "clean" /\ status' = "failure" /\ argi' = argi
  BY DEF ReturnFromC, ReturnFromAsm, NextInput, EndInputs
<1>3. \A x \in Range(intermediateObjectFiles') : \E p \in Translated : x = CompilationOutput(p)
  BY <1>a, <1>b, <1>1 DEF Noting
<1>4. \A x \in Range(intermediateObjectFiles)' : \E p \in Translated' : x = CompilationOutput(p)'
  BY <1>3, ProductsStay DEF Range
<1>5. compileOnly' => intermediateObjectFiles' = <<>>
  BY <1>1, ProductsStay DEF Noting
<1>6. InLoop' => status' = "success"
  BY <1>2 DEF Noting, InLoop, CStages
<1>7. pc' = "clean" => argi' <= Len(command'.inputs)
  BY <1>2, <1>a
<1>8. pc' \notin LinkStages
  BY <1>2 DEF LinkStages
<1> QED BY <1>4, <1>5, <1>6, <1>7, <1>8 DEF Noting

LEMMA NotingStep == IInv /\ Noting /\ [Next]_vars => Noting'
<1> SUFFICES ASSUME Control, Lists, Noting, [Next]_vars PROVE Noting'
  BY DEF IInv
<1>a. AtInput => argi <= Len(command.inputs)
  BY DEF AtInput
<1>b. ASSUME command' = command, intermediateObjectFiles' = intermediateObjectFiles
      PROVE  /\ \A o \in Range(intermediateObjectFiles)' :
                   \E p \in Translated' : o = CompilationOutput(p)'
             /\ compileOnly' => intermediateObjectFiles' = <<>>
  BY <1>b, ProductsStay DEF Noting, Range
<1>c. ASSUME command' = command, intermediateObjectFiles' = intermediateObjectFiles,
             InLoop' => InLoop /\ status' = status,
             pc' = "clean" /\ status' = "failure" => argi' <= Len(command.inputs),
             pc' \in LinkStages => ~compileOnly
      PROVE  Noting'
  BY <1>b, <1>c, ProductsStay DEF Noting
<1>1. CASE AllInputsTaken \/ InputRefused
  <2>1. /\ command' = command /\ intermediateObjectFiles' = intermediateObjectFiles
        /\ pc' = "clean" /\ pc = "input"
        /\ status' = status \/ argi' <= Len(command.inputs)
    BY <1>1, <1>a DEF AllInputsTaken, InputRefused, EndInputs, Keep, lists, AtInput
  <2>2. status = "success"
    BY <2>1 DEF Noting, InLoop
  <2> QED BY <2>1, <2>2, <1>c DEF InLoop, CStages, LinkStages
<1>2. CASE \/ PreprocessorFails \/ PreprocessOnly \/ ErrorsFound \/ EmissionFails
           \/ WarningsAreErrors \/ PrerequisitesFail \/ Compiled
           \/ InvokeAssembler \/ AssemblerFails
  <2>1. pc \in CStages \cup {"assemble"}
    BY <1>2 DEF PreprocessorFails, PreprocessOnly, ErrorsFound, EmissionFails,
                WarningsAreErrors, PrerequisitesFail, Compiled, InvokeAssembler,
                AssemblerFails, CStages
  <2> QED BY <2>1, <1>2, Returns, NotedObject DEF InLoop
<1>3. CASE \/ TakeObject \/ TakeLibrary \/ TakeC \/ TakeAsm \/ Preprocess \/ Compile
           \/ CreateAssemblyLanguageFile \/ WritePrerequisites
  <2>1. /\ command' = command /\ intermediateObjectFiles' = intermediateObjectFiles
        /\ InLoop /\ status' = status /\ pc' \in CStages \cup {"input", "assemble"}
    BY <1>3 DEF TakeObject, TakeLibrary, TakeC, TakeAsm, Preprocess, Compile, NextInput,
                CreateAssemblyLanguageFile, WritePrerequisites, Keep, lists, AtInput,
                InLoop, CStages
  <2> QED BY <2>1, <1>c DEF CStages, LinkStages
<1>4. CASE RemoveFile \/ UNCHANGED vars
  <2>1. /\ command' = command /\ intermediateObjectFiles' = intermediateObjectFiles
        /\ status' = status /\ pc' = pc /\ argi' = argi
    BY <1>4 DEF RemoveFile, Keep, lists, vars
  <2> QED BY <2>1, <1>c DEF InLoop, Noting
<1>5. CASE RefuseToRemove
  BY <1>5, <1>c DEF RefuseToRemove, Keep, lists, InLoop, CStages, LinkStages
<1>6. CASE Removed
  <2>1. /\ command' = command /\ intermediateObjectFiles' = intermediateObjectFiles
        /\ pc' \in {"done", "script", "unlink", "read_blocks"}
        /\ pc' = "done" \/ ~compileOnly \/ pc \in LinkStages
    BY <1>6 DEF Removed, AfterClean, AfterUnlink, BeginUnlink, Keep, lists, LinkStages
  <2> QED BY <2>1, <1>c DEF InLoop, CStages, LinkStages, Noting
<1>7. CASE \/ CreateLinkScript \/ CreateLinkScriptFails \/ Lwlink \/ LwlinkFails
           \/ CheckLinkingMap \/ MapUnreadable
           \/ ReadBlocks \/ BlocksUnreadable \/ Overwrite \/ OverwriteFails
  <2>1. /\ command' = command /\ intermediateObjectFiles' = intermediateObjectFiles
        /\ pc' \in LinkStages \cup {"done"} /\ pc \in LinkStages
    BY <1>7 DEF CreateLinkScript, CreateLinkScriptFails, Lwlink, LwlinkFails, CheckLinkingMap,
                 MapUnreadable, ReadBlocks, BlocksUnreadable, Overwrite, OverwriteFails,
                 BeginUnlink, Finish, Keep, lists, LinkStages
  <2> QED BY <2>1, <1>c DEF InLoop, CStages, LinkStages, Noting
<1> QED BY <1>1, <1>2, <1>3, <1>4, <1>5, <1>6, <1>7 DEF Next

\* Where the input is returned from, its files are noted.
LEMMA Returned ==
    ASSUME Control, Lists, Noting, InLoop, NEW ok \in BOOLEAN, command' = command,
           argi \in DOMAIN command.inputs, IsTranslated(Input), ~kept,
           (AtC /\ ReturnFromC(ok)) \/ (~AtC /\ ReturnFromAsm(ok)),
           Left' \subseteq Products \cup Awaiting \cup {CompilationOutput(Input)}
    PROVE  Left' \subseteq Destined'
<1> DEFINE o == CompilationOutput(Input)
           l == ReplaceExtension(asmFilename, ".lst")
           q == intermediateObjectFiles
           c == intermediateCompilationFiles
<1>a. /\ q \in Seq(Mine) /\ c \in Seq(Mine) /\ l \in Mine /\ (AtC => asmFilename \in Mine)
      /\ argi \in 1..Len(command.inputs) /\ argi <= Len(command.inputs) /\ command \in Commands
      /\ Input \in Translated /\ o \in Mine
  BY AsmFiles, Inputs, InputProducts, OutputsOfInput DEF Lists, Control, Input
<1>b. AtC /\ genAsmOnly => asmFilename \in Products
  BY InputProducts DEF Control
<1>c. ~compileOnly => Range(Append(q, o)) = Range(q) \cup {o}
  <2> HIDE DEF o, q
  <2> QED BY <1>a, RangeOfAppend
<1>1. /\ \/ pc' = "input"
         \/ pc' = "clean" /\ toRemove' = intermediateCompilationFiles' /\ argi' = argi /\ ~ok
      /\ ok => pc' = "input"
  BY DEF ReturnFromC, ReturnFromAsm, NextInput, EndInputs, ToRemove
<1>2. Range(q) \subseteq Range(intermediateObjectFiles')
  <2>1. intermediateObjectFiles' = q \/ (~compileOnly /\ intermediateObjectFiles' = Append(q, o))
    BY DEF ReturnFromC, ReturnFromAsm
  <2> QED BY <2>1, <1>c
<1>3. \/ o \in Products \cup Range(intermediateObjectFiles')
      \/ pc' = "clean" /\ o \in OutputFiles
  <2>1. CASE compileOnly
    BY <2>1, InputProducts
  <2>2. CASE ~compileOnly /\ (AtC \/ ok)
    BY <2>2, <1>c DEF ReturnFromC, ReturnFromAsm
  <2>3. CASE ~AtC /\ ~ok
    BY <2>3, <1>a, ProductsAreOutputs DEF ReturnFromAsm, EndInputs
  <2> QED BY <2>1, <2>2, <2>3
<1>4. /\ Range(c) \subseteq Range(intermediateCompilationFiles')
      /\ AtC /\ ~genAsmOnly => asmFilename \in Range(intermediateCompilationFiles')
  <2>1. CASE AtC
    <3> DEFINE x == IF genAsmOnly THEN <<>> ELSE <<asmFilename>>
               y == <<l>>
    <3>1. intermediateCompilationFiles' = (c \o x) \o y
      BY <2>1 DEF ReturnFromC, CompilationFiles
    <3>2. x \in Seq(Mine) /\ y \in Seq(Mine)
      <4> HIDE DEF l
      <4> QED BY <1>a, <2>1
    <3>3. ~genAsmOnly => Range(x) = {asmFilename}
      BY RangeOfFew
    <3> HIDE DEF x, y, c
    <3>4. c \o x \in Seq(Mine)
      BY <1>a, <3>2
    <3>5. Range(c \o x) = Range(c) \cup Range(x)
      BY <1>a, <3>2, RangeOfConcatenation
    <3> DEFINE w == c \o x
    <3>w. w \in Seq(Mine)
      BY <3>4
    <3> HIDE DEF w
    <3>6. Range(w \o y) = Range(w) \cup Range(y)
      BY <3>2, <3>w, RangeOfConcatenation
    <3> QED BY <3>1, <3>3, <3>5, <3>6 DEF w
  <2>2. CASE ~AtC
    <3>1. intermediateCompilationFiles' \in {c, Append(c, l)}
      BY <2>2 DEF ReturnFromAsm
    <3>2. Range(Append(c, l)) = Range(c) \cup {l}
      <4> HIDE DEF c, l
      <4> QED BY <1>a, RangeOfAppend
    <3> QED BY <2>2, <3>1, <3>2
  <2> QED BY <2>1, <2>2
<1>5. Awaiting = Range(c) \cup (IF AtC THEN {asmFilename} ELSE {}) \cup Range(q)
  BY DEF Awaiting, InLoop, CStages
<1>6. Left' \subseteq (IF pc' = "clean" THEN OutputFiles ELSE Products)
        \cup Range(intermediateCompilationFiles') \cup Range(intermediateObjectFiles')
  <2> HIDE DEF o, q, c
  <2>1. Left' \subseteq Products \cup Awaiting \cup {o}
    BY DEF o
  <2> QED BY <2>1, <1>b, <1>2, <1>3, <1>4, <1>5, ProductsAreOutputs
<1>7. CASE pc' = "input"
  BY <1>6, <1>7, ProductsStay DEF Destined, Awaiting, InLoop, Range
<1>8. CASE pc' = "clean" /\ toRemove' = intermediateCompilationFiles' /\ argi' = argi
  BY <1>6, <1>8, ProductsStay DEF Destined, Awaiting, InLoop, CStages, Range
<1> QED BY <1>1, <1>7, <1>8

LEMMA RangeOfLinkingFiles ==
    ASSUME Control, Lists, pc \in LinkStages
    PROVE  Range(LinkingFiles) = {LinkScriptFile, MapFile} \cup Range(intermediateObjectFiles)
<1> DEFINE x == <<LinkScriptFile, MapFile>>
<1>1. x \in Seq(Mine) /\ intermediateObjectFiles \in Seq(Mine)
  BY LinkedFiles DEF Control, Lists
<1>2. Range(x) = {LinkScriptFile, MapFile}
  BY RangeOfFew
<1> HIDE DEF x
<1>3. Range(x \o intermediateObjectFiles) = Range(x) \cup Range(intermediateObjectFiles)
  BY <1>1, RangeOfConcatenation
<1> QED BY <1>2, <1>3 DEF LinkingFiles, x

\* The linker's files and the objects wait until the last loop is given them.
LEMMA Unlinking ==
    ASSUME Control, Lists, pc \in LinkStages, command' = command, argi' = argi, ~kept, BeginUnlink,
           Left' \subseteq OutputFiles \cup {LinkScriptFile, MapFile} \cup Range(intermediateObjectFiles)
    PROVE  Left' \subseteq Destined'
<1>1. pc' = "unlink" /\ toRemove' = LinkingFiles
  BY DEF BeginUnlink, ToRemove
<1>2. Destined' = OutputFiles' \cup Range(toRemove')
  BY <1>1 DEF Destined, Awaiting, AtC, InLoop, CStages
<1> QED BY <1>1, <1>2, RangeOfLinkingFiles, ProductsStay

LEMMA WarnedOnce ==
    [Next]_vars => /\ command' = command /\ given' = given
                   /\ warned' \in {warned, TRUE}
<1> SUFFICES ASSUME Next PROVE command' = command /\ given' = given /\ warned' \in {warned, TRUE}
  BY DEF vars
<1> QED
  BY DEF Next, AllInputsTaken, InputRefused, TakeObject, TakeLibrary, TakeC, TakeAsm,
         PreprocessorFails, PreprocessOnly, Preprocess, ErrorsFound, Compile,
         CreateAssemblyLanguageFile, EmissionFails, WarningsAreErrors, WritePrerequisites,
         PrerequisitesFail, Compiled, InvokeAssembler, AssemblerFails, RemoveFile,
         RefuseToRemove, Removed, CreateLinkScript, CreateLinkScriptFails, Lwlink, LwlinkFails,
         CheckLinkingMap, MapUnreadable, ReadBlocks, BlocksUnreadable, Overwrite,
         OverwriteFails, Keep

\* The files that the translation of an input writes.
LEMMA TranslationWrites ==
    ASSUME Control, Untouched, given' = given, ~kept,
           \/ PreprocessorFails \/ PreprocessOnly \/ ErrorsFound \/ EmissionFails
           \/ WarningsAreErrors \/ PrerequisitesFail \/ Compiled
           \/ InvokeAssembler \/ AssemblerFails
    PROVE  Left' \subseteq Left \cup Awaiting \cup {CompilationOutput(Input)}
<1> DEFINE o == CompilationOutput(Input)
<1>1. CASE PreprocessorFails \/ PreprocessOnly \/ ErrorsFound \/ PrerequisitesFail \/ Compiled
  <2>1. fs' = fs
    BY <1>1 DEF PreprocessorFails, PreprocessOnly, ErrorsFound, PrerequisitesFail, Compiled, Keep
  <2> QED BY <2>1, Writing
<1>2. CASE EmissionFails \/ WarningsAreErrors
  <2>1. /\ pc = "emit"
        /\ \E f : fs' = [fs EXCEPT ![EmittedFile] = f]
    BY <1>2 DEF EmissionFails, WarningsAreErrors, Written, NotWritten
  <2>2. EmittedFile = o \/ EmittedFile \in Awaiting
    BY <2>1 DEF EmittedFile, Awaiting, AtC, CStages
  <2> QED BY <2>1, <2>2, Writing DEF Untouched
<1>3. CASE InvokeAssembler
  <2>1. \A p \in Paths : p # o => fs'[p] = fs[p]
    BY <1>3 DEF InvokeAssembler
  <2> QED BY <2>1 DEF Left, Exists
<1>4. CASE AssemblerFails
  BY <1>4, Writing DEF AssemblerFails, Untouched
<1> QED BY <1>1, <1>2, <1>3, <1>4

LEMMA AccountedStep == IInv /\ Noting /\ Accounted /\ [Next]_vars => Accounted'
<1> SUFFICES ASSUME Control, Lists, Untouched, Noting, Accounted, [Next]_vars, ~kept', ~warned'
             PROVE  Left' \subseteq Destined'
  BY DEF IInv, Accounted
<1>a. /\ command' = command /\ given' = given /\ ~kept /\ ~warned
      /\ Left \subseteq Destined /\ DOMAIN fs = Paths
  <2>1. command' = command /\ given' = given /\ warned' \in {warned, TRUE}
    BY WarnedOnce
  <2>2. ~kept
    BY <2>1 DEF kept
  <2>3. ~warned
    BY <2>1, Zenon
  <2> QED BY <2>1, <2>2, <2>3 DEF Accounted, Untouched
<1>b. /\ Products' = Products /\ (argi' = argi => OutputFiles' = OutputFiles)
      /\ LinkScriptFile' = LinkScriptFile /\ MapFile' = MapFile
      /\ Products \subseteq OutputFiles /\ Executable \in OutputFiles
  BY <1>a, ProductsStay, ProductsAreOutputs DEF OutputFiles
<1>c. pc \in LinkStages =>
          Destined \subseteq OutputFiles \cup {LinkScriptFile, MapFile}
                                \cup Range(intermediateObjectFiles)
                                \cup IF pc = "unlink" THEN Range(toRemove) ELSE {}
  BY DEF Destined, Awaiting, AtC, InLoop, CStages, LinkStages
<1>1. CASE AllInputsTaken \/ InputRefused
  <2>1. /\ pc = "input" /\ pc' = "clean" /\ argi' = argi /\ fs' = fs
        /\ toRemove' = intermediateCompilationFiles
        /\ intermediateObjectFiles' = intermediateObjectFiles
    BY <1>1, <1>a DEF AllInputsTaken, InputRefused, AtInput, EndInputs, ToRemove, Keep, lists
  <2>2. Destined = Products \cup Range(intermediateCompilationFiles) \cup Range(intermediateObjectFiles)
    BY <2>1 DEF Destined, Awaiting, AtC, InLoop, CStages
  <2>3. Destined' = OutputFiles' \cup Range(toRemove') \cup Range(intermediateObjectFiles')
    BY <2>1 DEF Destined, Awaiting, AtC, InLoop, CStages
  <2> QED BY <2>1, <2>2, <2>3, <1>a, <1>b, Writing
<1>2. CASE \/ PreprocessorFails \/ PreprocessOnly \/ ErrorsFound \/ EmissionFails
           \/ WarningsAreErrors \/ PrerequisitesFail \/ Compiled
           \/ InvokeAssembler \/ AssemblerFails
  <2>1. InLoop
    BY <1>2 DEF PreprocessorFails, PreprocessOnly, ErrorsFound, EmissionFails,
                WarningsAreErrors, PrerequisitesFail, Compiled, InvokeAssembler,
                AssemblerFails, CStages, InLoop
  <2>2. Left' \subseteq Left \cup Awaiting \cup {CompilationOutput(Input)}
    BY <1>2, <1>a, TranslationWrites
  <2>3. Left' \subseteq Products \cup Awaiting \cup {CompilationOutput(Input)}
    BY <2>1, <2>2, <1>a DEF Destined
  <2> QED BY <2>1, <2>3, <1>2, <1>a, Returns, Returned
<1>3. CASE \/ TakeObject \/ TakeLibrary \/ TakeC \/ TakeAsm \/ Preprocess \/ Compile
  <2>1. /\ InLoop /\ InLoop' /\ fs' = fs
        /\ intermediateCompilationFiles' = intermediateCompilationFiles
        /\ intermediateObjectFiles' = intermediateObjectFiles
        /\ AtC => AtC' /\ asmFilename' = asmFilename
    BY <1>3 DEF TakeObject, TakeLibrary, TakeC, TakeAsm, Preprocess, Compile, NextInput,
                Keep, lists, AtInput, InLoop, AtC, CStages
  <2>2. Destined \subseteq Destined'
    BY <2>1, <1>b DEF Destined, Awaiting, InLoop, CStages
  <2> QED BY <2>1, <2>2, <1>a, Writing
<1>4. CASE CreateAssemblyLanguageFile \/ WritePrerequisites
  <2>1. /\ pc \in CStages /\ pc' \in CStages \cup {"assemble"} /\ argi' = argi
        /\ \/ \E f : fs' = [fs EXCEPT ![EmittedFile] = f]
           \/ \E f : fs' = [fs EXCEPT ![DependenciesOf(Input)] = f]
        /\ intermediateCompilationFiles' = intermediateCompilationFiles
        /\ intermediateObjectFiles' = intermediateObjectFiles
        /\ asmFilename' = asmFilename
    BY <1>4 DEF CreateAssemblyLanguageFile, WritePrerequisites, Written, Keep, lists, CStages
  <2>2. AtC /\ AtC' /\ argi \in DOMAIN command.inputs /\ IsTranslated(Input)
    <3>1. AtC /\ argi \in DOMAIN command.inputs /\ IsTranslated(Input) /\ IsCFile(Input)
      BY <2>1 DEF AtC, Control
    <3>2. Input' = Input
      BY <2>1, <1>a DEF Input
    <3> QED BY <2>1, <3>1, <3>2 DEF AtC, IsCFile
  <2>3. EmittedFile \in Products \cup {asmFilename} /\ DependenciesOf(Input) \in Products
    BY <2>2, InputProducts DEF EmittedFile, compileOnly
  <2>4. Left' \subseteq Left \cup Products \cup {asmFilename}
    BY <2>1, <2>3, <1>a, Writing
  <2>5. Destined = Products \cup Awaiting /\ Destined' = Products \cup Awaiting'
    BY <2>1, <1>b DEF Destined, InLoop
  <2>6. Awaiting \subseteq Awaiting' /\ asmFilename \in Awaiting'
    BY <2>1, <2>2 DEF Awaiting, InLoop, CStages
  <2> QED BY <2>4, <2>5, <2>6, <1>a
<1>5. CASE RemoveFile
  <2>1. /\ toRemove # <<>> /\ toRemove' = Tail(toRemove) /\ pc' = pc /\ argi' = argi
        /\ fs' = [fs EXCEPT ![Head(toRemove)] = Absent]
        /\ intermediateObjectFiles' = intermediateObjectFiles
        /\ pc \in {"clean", "drop", "unlink"}
    BY <1>5 DEF RemoveFile, Removing, Keep, lists
  <2>2. Left' \subseteq Left \ {Head(toRemove)}
    BY <2>1, <1>a, Writing
  <2>3. Range(toRemove) \subseteq {Head(toRemove)} \cup Range(toRemove')
    BY <2>1, RangeOfTail DEF Lists
  <2>4. Destined \subseteq {Head(toRemove)} \cup Destined'
    BY <2>1, <2>3, <1>b DEF Destined, Awaiting, AtC, InLoop, CStages
  <2> QED BY <2>2, <2>4, <1>a
<1>6. CASE RefuseToRemove \/ MapUnreadable
  BY <1>6 DEF RefuseToRemove, MapUnreadable
<1>7. CASE Removed
  <2>1. /\ toRemove = <<>> /\ argi' = argi /\ fs' = fs /\ Left' = Left
        /\ intermediateObjectFiles' = intermediateObjectFiles
        /\ pc \in {"clean", "drop", "unlink"} /\ Range(toRemove) = {}
    BY <1>7, <1>a, Writing, RangeOfFew DEF Removed, Removing, Keep, lists
  <2>2. CASE pc = "clean"
    <3>1. Destined = OutputFiles \cup Range(intermediateObjectFiles)
      BY <2>1, <2>2 DEF Destined, Awaiting, AtC, InLoop, CStages
    <3>2. AfterClean
      BY <1>7, <2>2 DEF Removed
    <3>3. CASE pc' = "script"
      BY <3>1, <3>3, <2>1, <1>a, <1>b DEF Destined, Awaiting, AtC, InLoop, CStages
    <3>4. CASE pc' = "done"
      <4>1. status = "failure" \/ compileOnly
        BY <3>2, <3>4 DEF AfterClean
      <4>2. Range(intermediateObjectFiles) \subseteq OutputFiles
        BY <4>1, <2>2, RangeOfFew, ProductsAreOutputs DEF Noting
      <4> QED BY <4>2, <3>1, <3>4, <2>1, <1>a, <1>b DEF Destined, InLoop, CStages
    <3> QED BY <3>2, <3>3, <3>4 DEF AfterClean
  <2>3. CASE pc = "drop"
    <3>1. BeginUnlink /\ pc \in LinkStages
      BY <1>7, <2>3 DEF Removed, LinkStages
    <3> QED BY <3>1, <2>1, <2>3, <1>a, <1>c, Unlinking
  <2>4. CASE pc = "unlink"
    <3>1. pc' \in {"read_blocks", "done"}
      BY <1>7, <2>4 DEF Removed, AfterUnlink
    <3>2. Destined = OutputFiles
      BY <2>1, <2>4 DEF Destined, Awaiting, AtC, InLoop, CStages
    <3> QED BY <3>1, <3>2, <2>1, <1>a, <1>b DEF Destined, InLoop, CStages
  <2> QED BY <2>1, <2>2, <2>3, <2>4
<1>8. CASE CreateLinkScript
  <2>1. /\ pc = "script" /\ pc' = "link" /\ argi' = argi
        /\ \E f : fs' = [fs EXCEPT ![LinkScriptFile] = f]
        /\ intermediateObjectFiles' = intermediateObjectFiles
    BY <1>8 DEF CreateLinkScript, Written, Keep, lists
  <2>2. Left' \subseteq Left \cup {LinkScriptFile}
    BY <2>1, <1>a, Writing
  <2>3. Destined \cup {LinkScriptFile} \subseteq Destined'
    BY <2>1, <1>b DEF Destined, Awaiting, AtC, InLoop, CStages
  <2> QED BY <2>2, <2>3, <1>a
<1>9. CASE CreateLinkScriptFails \/ LwlinkFails
  <2>1. /\ pc \in {"script", "link"} /\ argi' = argi /\ BeginUnlink
        /\ \/ \E f : fs' = [fs EXCEPT ![LinkScriptFile] = f]
           \/ \E e, m : fs' = [fs EXCEPT ![Executable] = e, ![MapFile] = m]
    BY <1>9 DEF CreateLinkScriptFails, LwlinkFails, NotWritten, Keep, lists
  <2>2. Left' \subseteq Left \cup {LinkScriptFile, Executable, MapFile}
    BY <2>1, <1>a, Writing DEF Left, Exists
  <2>3. pc \in LinkStages
    BY <2>1 DEF LinkStages
  <2> QED BY <2>1, <2>2, <2>3, <1>a, <1>b, <1>c, Unlinking
<1>10. CASE Lwlink
  <2>1. /\ pc = "link" /\ pc' = "check_map" /\ argi' = argi
        /\ \E e, m : fs' = [fs EXCEPT ![Executable] = e, ![MapFile] = m]
        /\ intermediateObjectFiles' = intermediateObjectFiles
    BY <1>10 DEF Lwlink, Keep, lists
  <2>2. Left' \subseteq Left \cup {Executable, MapFile}
    BY <2>1, <1>a DEF Left, Exists
  <2>3. Destined \cup {Executable, MapFile} \subseteq Destined'
    BY <2>1, <1>b DEF Destined, Awaiting, AtC, InLoop, CStages
  <2> QED BY <2>2, <2>3, <1>a
<1>11. CASE CheckLinkingMap
  <2>1. /\ pc = "check_map" /\ pc \in LinkStages /\ argi' = argi /\ fs' = fs /\ Left' = Left
        /\ intermediateObjectFiles' = intermediateObjectFiles
        /\ BeginUnlink \/ pc' = "drop"
    BY <1>11, <1>a, Writing DEF CheckLinkingMap, Keep, lists, LinkStages
  <2>2. CASE BeginUnlink
    BY <2>1, <2>2, <1>a, <1>c, Unlinking
  <2>3. CASE pc' = "drop"
    <3>1. Destined \subseteq Destined'
      BY <2>1, <2>3, <1>b DEF Destined, Awaiting, AtC, InLoop, CStages
    <3> QED BY <3>1, <2>1, <1>a
  <2> QED BY <2>1, <2>2, <2>3
<1>12. CASE ReadBlocks \/ BlocksUnreadable \/ Overwrite \/ OverwriteFails
  <2>1. /\ pc \in {"read_blocks", "overwrite"} /\ pc' \in {"overwrite", "done"} /\ argi' = argi
        /\ fs' = fs \/ \E f : fs' = [fs EXCEPT ![Executable] = f]
    BY <1>12 DEF ReadBlocks, BlocksUnreadable, Overwrite, OverwriteFails, Finish, Written,
                 NotWritten, Keep
  <2>2. Left' \subseteq Left \cup {Executable}
    BY <2>1, <1>a, Writing
  <2>3. Destined = OutputFiles /\ Destined' = OutputFiles'
    BY <2>1 DEF Destined, Awaiting, AtC, InLoop, CStages
  <2> QED BY <2>1, <2>2, <2>3, <1>a, <1>b
<1>13. CASE UNCHANGED vars
  <2>1. Left' = Left /\ argi' = argi
    BY <1>13, Writing DEF vars
  <2>2. Destined' = Destined
    <3>1. AtC' = AtC /\ InLoop' = InLoop
      BY <1>13 DEF vars, lists, AtC, InLoop, IsCFile, Input
    <3>2. Awaiting' = Awaiting
      BY <1>13, <3>1, <1>b DEF vars, lists, Awaiting
    <3> QED BY <2>1, <3>1, <3>2, <1>b DEF Destined
  <2> QED BY <2>1, <2>2, <1>a
<1> QED BY <1>1, <1>2, <1>3, <1>4, <1>5, <1>6, <1>7, <1>8, <1>9, <1>10, <1>11, <1>12, <1>13 DEF Next

-----------------------------------------------------------------------------
(* What is not touched and what is left. *)

\* The inductive invariant: main() takes the inputs in order and links after all of
\* them; what it notes for removal is its own; all other files are as they were.
THEOREM Invariance == Spec => []IInv
<1>1. Init => IInv
  <2> SUFFICES ASSUME Init PROVE IInv
    OBVIOUS
  <2>1. Control
    <3>1. command \in Commands /\ argi = 1 /\ pc = "input" /\ asmFilename = <<NoPart, NoPart, NoPart>>
      BY DEF Init
    <3>2. DOMAIN command.inputs = 1..Len(command.inputs) /\ Len(command.inputs) \in Nat
      BY <3>1, Inputs
    <3> QED BY <3>1, <3>2 DEF Control, AtC, CStages, LinkStages
  <2>2. Lists
    BY DEF Init, Lists
  <2>3. DOMAIN fs = Paths /\ fs = given
    BY DEF Init
  <2>4. Untouched
    BY <2>3 DEF Untouched
  <2> QED BY <2>1, <2>2, <2>4 DEF IInv
<1>2. IInv /\ [Next]_vars => IInv'
  BY ControlStep, ListsStep, UntouchedStep DEF IInv
<1> QED BY <1>1, <1>2, PTL DEF Spec

\* No command of cmoc changes or removes an input that it is given, where no other
\* input has its name, or a file whose name it does not use: for any inputs, options,
\* names and files left by earlier commands, whatever tool, writing or removal fails.
THEOREM InputsAndOthersSurvive == Spec => []OthersSurvive
<1>1. IInv => OthersSurvive
  <2> SUFFICES ASSUME Untouched PROVE OthersSurvive
    BY DEF IInv
  <2>1. ASSUME NEW i \in DOMAIN command.inputs, command.inputs[i] \in Paths, ~SharesBase(i)
        PROVE  fs[command.inputs[i]] = given[command.inputs[i]]
    <3>1. command.inputs[i] \notin Mine
      BY <2>1 DEF Mine, Ours
    <3> QED BY <2>1, <3>1 DEF Untouched
  <2>2. ASSUME NEW p \in Paths, p[2] \notin NamesUsed PROVE fs[p] = given[p]
    <3>1. p \notin Mine
      BY <2>2 DEF Mine, Ours
    <3> QED BY <2>2, <3>1 DEF Untouched
  <2> QED BY <2>1, <2>2 DEF OthersSurvive
<1> QED BY <1>1, Invariance, PTL

LEMMA InitTyped == Init => Typed
<1> SUFFICES ASSUME Init PROVE Typed
  OBVIOUS
<1>1. \A p \in Paths : IsFile(fs[p])
  <2>1. \A ext : SourceKind(ext) \in Kinds
    BY DEF SourceKind, Kinds
  <2>2. \A stale, p : IsFile(Before(command, stale, p))
    BY <2>1, FilesAre DEF Before
  <2> QED BY <2>2 DEF Init
<1>2. command \in Commands /\ argi = 1 /\ status = "success" /\ warned = FALSE
      /\ objectFilenames = <<>> /\ libraryFilenames = <<>>
  BY DEF Init
<1>3. address \in Addresses
  <2>1. address = [code |-> command.code, data |-> command.data, limit |-> command.limit]
    BY DEF Init
  <2>2. {command.code, command.data, command.limit} \subseteq 0..NoAddress
    BY <1>2, AddressesAssumption
  <2> QED BY <2>1, <2>2 DEF Addresses
<1>4. argi <= Len(command.inputs) + 1
  <2>1. Len(command.inputs) \in Nat
    BY <1>2, Inputs
  <2> QED BY <2>1, <1>2
<1>5. objectFilenames \in Seq(Paths) /\ libraryFilenames \in Seq(Paths)
  BY <1>2
<1>6. warned \in BOOLEAN /\ status \in {"success", "failure"}
  BY <1>2, Zenon
<1> QED BY <1>1, <1>3, <1>4, <1>5, <1>6 DEF Typed

\* The variables that the steps of main() read and write keep their types.
THEOREM AlwaysTyped == Spec => []Typed
<1>1. IInv /\ Typed /\ [Next]_vars => Typed'
  BY TypedStep
<1> QED BY <1>1, InitTyped, Invariance, PTL DEF Spec

\* The variables keep their types, no input or file of another name is touched, and
\* where the intermediate files are not kept, all that a command leaves that was not
\* there is what it was asked to make: for any command lines, pragmas and files left
\* by earlier commands, whatever tool, writing or removal fails.
THEOREM OnlyOutputsAreLeft == Spec => []OnlyOutputsChange
<1>1. Init => Typed /\ Noting /\ Accounted
  <2> SUFFICES ASSUME Init PROVE Typed /\ Noting /\ Accounted
    OBVIOUS
  <2>1. Typed
    BY InitTyped
  <2>2. Noting
    <3>1. intermediateObjectFiles = <<>> /\ pc = "input" /\ status = "success"
      BY DEF Init
    <3>2. Range(intermediateObjectFiles) = {}
      BY <3>1, RangeOfFew
    <3> QED BY <3>1, <3>2 DEF Noting, LinkStages
  <2>3. Accounted
    BY DEF Init, Accounted, Left
  <2> QED BY <2>1, <2>2, <2>3
<1>2. IInv /\ Typed /\ IInv' /\ Noting /\ Accounted /\ [Next]_vars => Typed' /\ Noting' /\ Accounted'
  BY TypedStep, NotingStep, AccountedStep
<1>3. IInv /\ Typed /\ Accounted => TypeOK /\ NothingElseIsLeft
  <2> SUFFICES ASSUME IInv, Typed, Accounted PROVE TypeOK /\ NothingElseIsLeft
    OBVIOUS
  <2>1. TypeOK
    <3>1. /\ command \in Commands /\ argi \in Nat \ {0}
          /\ argi <= Len(command.inputs) + 1 /\ Len(command.inputs) \in Nat
      BY Inputs DEF IInv, Control, Typed
    <3>2. asmFilename \in Paths
      <4>1. CASE asmFilename = <<NoPart, NoPart, NoPart>>
        BY <4>1, Literals DEF Paths
      <4>2. ASSUME NEW i \in DOMAIN command.inputs, asmFilename = AsmOf(i)
            PROVE  asmFilename \in Paths
        <5> DEFINE e == ".s"
        <5>1. command.inputs[i] \in Paths /\ command.intdir \in Directories /\ e \in Extensions
          BY <3>1, Inputs, Literals
        <5>2. asmFilename = UseIntDir(command.intdir, ModuleFile(command.inputs[i], e))
          BY <4>2 DEF AsmOf
        <5> HIDE DEF e
        <5> QED BY <5>1, <5>2, ReplacedAndPrefixed
      <4> QED BY <4>1, <4>2 DEF IInv, Control
    <3>3. /\ intermediateCompilationFiles \in Seq(Paths)
          /\ intermediateObjectFiles \in Seq(Paths) /\ toRemove \in Seq(Paths)
      <4>1. Mine \subseteq Paths
        BY DEF Mine
      <4>2. Seq(Mine) \subseteq Seq(Paths)
        BY <4>1
      <4> QED BY <4>2 DEF IInv, Lists
    <3>4. \A f \in DOMAIN address : address[f] \in 0..NoAddress
      BY DEF Typed, Addresses
    <3> QED BY <3>1, <3>2, <3>3, <3>4 DEF TypeOK, Typed, IsFile, Kinds
  <2>2. NothingElseIsLeft
    <3> SUFFICES ASSUME Done, ~kept, ~warned, NEW p \in Paths \ OutputFiles
                 PROVE  fs[p] = given[p] \/ ~Exists(fs, p)
      BY DEF NothingElseIsLeft
    <3>1. Destined = OutputFiles
      BY DEF Done, Destined, Awaiting, AtC, InLoop, CStages
    <3> QED BY <3>1 DEF Accounted, Left
  <2> QED BY <2>1, <2>2
<1>4. Spec => [](Typed /\ Noting /\ Accounted)
  BY <1>1, <1>2, Invariance, PTL DEF Spec
<1> QED BY <1>3, <1>4, Invariance, InputsAndOthersSurvive, PTL DEF OnlyOutputsChange

-----------------------------------------------------------------------------
(* Numbers and folds: what a fold builds up, step by step. *)

LEMMA LeastNumber ==
    ASSUME NEW T, T \subseteq Nat, T # {}
    PROVE  \E x \in T : \A y \in T : x <= y
<1> DEFINE R == {ss \in Nat \X Nat : ss[1] < ss[2]}
<1>1. IsWellFoundedOn(R, Nat)
  BY NatLessThanWellFounded DEF OpToRel
<1>2. \A x, y \in Nat : x < y => <<x, y>> \in R
  OBVIOUS
<1> HIDE DEF R
<1>3. \E x \in T : \A y \in T : ~ (<<y, x>> \in R)
  BY <1>1, WFMin
<1>4. \A x, y \in T : ~ (<<y, x>> \in R) => x <= y
  BY <1>2
<1> QED BY <1>3, <1>4

LEMMA Induction ==
    ASSUME NEW T, T \subseteq Nat, NEW n \in Nat, 0 \in T,
           \A k \in 0..(n - 1) : k \in T => k + 1 \in T
    PROVE  0..n \subseteq T
<1> DEFINE U == {k \in 0..n : k \notin T}
<1> SUFFICES ASSUME U # {} PROVE FALSE
  OBVIOUS
<1>0. U \subseteq Nat
  OBVIOUS
<1>1. PICK k \in U : \A y \in U : k <= y
  <2> HIDE DEF U
  <2> QED BY <1>0, LeastNumber
<1>2. k # 0 /\ k - 1 \in 0..(n - 1) /\ k - 1 \notin U
  BY <1>1
<1> QED BY <1>1, <1>2

LEMMA GreatestNumber ==
    ASSUME NEW n \in Nat, NEW s, s \subseteq 0..n, s # {}
    PROVE  Max(s) \in s /\ \A y \in s : Max(s) >= y
<1> DEFINE T == {k \in Nat : \A y \in s : y <= k}
<1>1. n \in T /\ T \subseteq Nat
  OBVIOUS
<1>2. PICK m \in T : \A y \in T : m <= y
  BY <1>1, LeastNumber
<1>3. m \in s
  <2> SUFFICES ASSUME m \notin s PROVE FALSE
    OBVIOUS
  <2>1. \A y \in s : y <= m - 1 /\ m - 1 \in Nat
    BY <1>2
  <2>2. m - 1 \in T
    BY <2>1
  <2> QED BY <2>2, <1>2
<1>4. \E x \in s : \A y \in s : x >= y
  BY <1>2, <1>3
<1> QED BY <1>4 DEF Max

LEMMA GreatestOf ==
    ASSUME NEW n \in Nat, NEW s, s \subseteq 1..n, s # {}
    PROVE  Max(s) \in s /\ \A y \in s : Max(s) >= y
<1>1. s \subseteq 0..n
  OBVIOUS
<1> QED BY <1>1, GreatestNumber

LEMMA GreatestUpTo ==
    ASSUME NEW n \in Nat
    PROVE  \A k \in 1..n : /\ Max(1..k) = k /\ (1..k) \ {Max(1..k)} = 1..(k - 1)
                            /\ 1..k # {} /\ 1..k \in SUBSET (1..n)
<1> SUFFICES ASSUME NEW k \in 1..n
             PROVE  /\ Max(1..k) = k /\ (1..k) \ {Max(1..k)} = 1..(k - 1)
                    /\ 1..k # {} /\ 1..k \in SUBSET (1..n)
  OBVIOUS
<1>1. 1..k \subseteq 1..n /\ k \in 1..k
  OBVIOUS
<1>2. Max(1..k) \in 1..k /\ Max(1..k) >= k
  BY <1>1, GreatestOf
<1>3. Max(1..k) = k
  BY <1>2
<1>4. (1..k) \ {k} = 1..(k - 1)
  OBVIOUS
<1> QED BY <1>1, <1>3, <1>4

\* A function on sets of numbers that takes a step for the greatest of each.
Folds(it, n, V, b, g) ==
    /\ it \in [SUBSET (1..n) -> V]
    /\ \A s \in SUBSET (1..n) : it[s] = IF s = {} THEN b ELSE g[<<it[s \ {Max(s)}], Max(s)>>]

LEMMA FoldExists ==
    ASSUME NEW n \in Nat, NEW V, NEW b \in V, NEW g \in [V \X (1..n) -> V]
    PROVE  \E it : Folds(it, n, V, b, g)
<1> DEFINE Good(k, it) ==
              \A s \in SUBSET (1..k) : it[s] = IF s = {} THEN b ELSE g[<<it[s \ {Max(s)}], Max(s)>>]
           T == {k \in Nat : k <= n => \E it \in [SUBSET (1..n) -> V] : Good(k, it)}
<1>1. 0 \in T
  <2>1. [s \in SUBSET (1..n) |-> b] \in [SUBSET (1..n) -> V]
    OBVIOUS
  <2>2. \A s \in SUBSET (1..0) : s = {}
    OBVIOUS
  <2>3. Good(0, [s \in SUBSET (1..n) |-> b])
    BY <2>2
  <2> QED BY <2>1, <2>3
<1>2. ASSUME NEW k \in 0..(n - 1), k \in T PROVE k + 1 \in T
  <2>0. k <= n
    OBVIOUS
  <2>1. PICK it \in [SUBSET (1..n) -> V] : Good(k, it)
    <3> HIDE DEF Good
    <3> QED BY <1>2, <2>0
  <2> HIDE DEF Good
  <2> DEFINE jt == [s \in SUBSET (1..n) |-> IF k + 1 \in s THEN g[<<it[s \ {k + 1}], k + 1>>] ELSE it[s]]
  <2>2. jt \in [SUBSET (1..n) -> V]
    <3>1. ASSUME NEW s \in SUBSET (1..n), k + 1 \in s PROVE g[<<it[s \ {k + 1}], k + 1>>] \in V
      <4>1. s \ {k + 1} \in SUBSET (1..n)
        OBVIOUS
      <4>2. it[s \ {k + 1}] \in V
        BY <4>1
      <4> QED BY <4>2
    <3> QED BY <3>1
  <2>3. ASSUME NEW s \in SUBSET (1..(k + 1))
        PROVE  jt[s] = IF s = {} THEN b ELSE g[<<jt[s \ {Max(s)}], Max(s)>>]
    <3>1. s \in SUBSET (1..n)
      OBVIOUS
    <3>2. CASE k + 1 \in s
      <4>1. Max(s) = k + 1
        <5>1. Max(s) \in s /\ Max(s) >= k + 1
          BY <3>1, <3>2, GreatestOf
        <5>2. \A m \in s : m \in Int /\ k + 1 \in Int /\ m <= k + 1
          OBVIOUS
        <5>3. \A m \in s : m >= k + 1 => m = k + 1
          BY <5>2
        <5> HIDE DEF jt, T
        <5> QED BY <5>1, <5>3, Zenon
      <4>2. s \ {k + 1} \in SUBSET (1..n) /\ k + 1 \notin s \ {k + 1}
        BY <3>1
      <4>3. jt[s \ {k + 1}] = it[s \ {k + 1}]
        BY <4>2
      <4>4. jt[s] = g[<<it[s \ {k + 1}], k + 1>>]
        BY <3>1, <3>2
      <4> QED BY <3>2, <4>1, <4>3, <4>4
    <3>3. CASE k + 1 \notin s
      <4>1. s \in SUBSET (1..k)
        BY <3>3
      <4>2. it[s] = IF s = {} THEN b ELSE g[<<it[s \ {Max(s)}], Max(s)>>]
        BY <2>1, <4>1 DEF Good
      <4>3. jt[s] = it[s]
        BY <3>1, <3>3
      <4>4. jt[s \ {Max(s)}] = it[s \ {Max(s)}]
        BY <3>1, <3>3
      <4> QED BY <4>2, <4>3, <4>4
    <3> QED BY <3>2, <3>3
  <2>4. Good(k + 1, jt)
    BY <2>3 DEF Good
  <2> HIDE DEF jt
  <2> QED BY <2>2, <2>4
<1>3. 0..n \subseteq T
  <2> HIDE DEF T
  <2>1. T \subseteq Nat
    BY DEF T
  <2> QED BY <1>1, <1>2, <2>1, Induction
<1>4. PICK it \in [SUBSET (1..n) -> V] : Good(n, it)
  <2> HIDE DEF Good
  <2>1. n \in 0..n /\ n <= n
    OBVIOUS
  <2>2. n \in T
    BY <1>3, <2>1
  <2> QED BY <2>1, <2>2
<1> QED BY <1>4 DEF Folds

\* What is computed step by step stays in a set that each step stays in.
LEMMA StepsTyped ==
    ASSUME NEW n \in Nat, NEW V, NEW r, r[0] \in V,
           \A k \in 1..n : r[k - 1] \in V => r[k] \in V
    PROVE  \A k \in 0..n : r[k] \in V
<1> DEFINE T == {k \in Nat : k <= n => r[k] \in V}
<1>1. 0 \in T
  OBVIOUS
<1>2. ASSUME NEW k \in 0..(n - 1), k \in T PROVE k + 1 \in T
  <2>1. r[k] \in V
    BY <1>2
  <2>2. k + 1 \in 1..n /\ (k + 1) - 1 = k
    OBVIOUS
  <2>3. r[k + 1] \in V
    BY <2>1, <2>2
  <2> QED BY <2>3
<1>3. T \subseteq Nat
  OBVIOUS
<1>4. 0..n \subseteq T
  <2> HIDE DEF T
  <2> QED BY <1>1, <1>2, <1>3, Induction
<1> QED BY <1>4

ChosenBy(r, q, exts) ==
    /\ r[0] = <<>> /\ OfExtensions(q, exts) = r[Len(q)]
    /\ \A k \in 1..Len(q) : r[k] = IF q[k][3] \in exts THEN Append(r[k - 1], q[k]) ELSE r[k - 1]

LEMMA ChosenSteps ==
    ASSUME NEW T, NEW q \in Seq(T), NEW exts
    PROVE  \E r : ChosenBy(r, q, exts) /\ \A k \in 0..Len(q) : r[k] \in Seq(T)
<1> DEFINE n == Len(q)
           V == Seq(T)
           b == <<>>
           E(v, p) == IF p[3] \in exts THEN Append(v, p) ELSE v
           F(it) == [s \in SUBSET (1..n) |-> IF s = {} THEN b ELSE E(it[s \ {Max(s)}], q[Max(s)])]
           iter == CHOOSE it : it = F(it)
           g == [x \in V \X (1..n) |-> E(x[1], q[x[2]])]
<1>1. n \in Nat /\ DOMAIN q = 1..n /\ b \in V /\ \A k \in 1..n : q[k] \in T
  OBVIOUS
<1>2. OfExtensions(q, exts) = iter[DOMAIN q]
  BY <1>1 DEF OfExtensions, FoldLeft, MapThenFoldSet
<1>3. \A v \in V : \A k \in 1..n : E(v, q[k]) \in V
  BY <1>1
<1> HIDE DEF n, E, V, b
<1>4. /\ g \in [V \X (1..n) -> V]
      /\ \A v \in V : \A k \in 1..n : g[<<v, k>>] = E(v, q[k])
  BY <1>3
<1> HIDE DEF g
<1>5. iter = F(iter)
  <2>1. PICK it : Folds(it, n, V, b, g)
    BY <1>1, <1>4, FoldExists
  <2>2. ASSUME NEW s \in SUBSET (1..n), s # {}
        PROVE  it[s] = E(it[s \ {Max(s)}], q[Max(s)])
    <3>1. Max(s) \in 1..n
      BY <1>1, <2>2, GreatestOf
    <3>2. s \ {Max(s)} \in SUBSET (1..n)
      OBVIOUS
    <3>3. it[s \ {Max(s)}] \in V
      BY <2>1, <3>2 DEF Folds
    <3> QED BY <3>1, <3>3, <1>4, <2>1, <2>2 DEF Folds
  <2>3. it = F(it)
    BY <2>1, <2>2 DEF Folds
  <2> HIDE DEF F
  <2> QED BY <2>3
<1>6. \A s \in SUBSET (1..n) : iter[s] = IF s = {} THEN b ELSE E(iter[s \ {Max(s)}], q[Max(s)])
  <2> HIDE DEF iter
  <2> QED BY <1>5
<1> HIDE DEF iter
<1> DEFINE r == [k \in 0..n |-> iter[1..k]]
<1>7. /\ r[0] = b /\ r[n] = iter[1..n]
      /\ \A k \in 1..n : r[k] = E(r[k - 1], q[k])
  <2>1. 1..0 = {} /\ {} \in SUBSET (1..n)
    OBVIOUS
  <2>3. \A k \in 1..n : iter[1..k] = E(iter[1..(k - 1)], q[k])
    BY <1>1, <1>6, GreatestUpTo
  <2>4. iter[{}] = b
    BY <1>6, <2>1
  <2> QED BY <1>1, <2>1, <2>3, <2>4
<1> HIDE DEF r
<1>8. \A k \in 0..n : r[k] \in V
  <2>1. r[0] \in V /\ \A k \in 1..n : r[k - 1] \in V => r[k] \in V
    BY <1>1, <1>3, <1>7
  <2> QED BY <1>1, <2>1, StepsTyped
<1>9. ChosenBy(r, q, exts)
  BY <1>1, <1>2, <1>7 DEF n, b, E, ChosenBy
<1> QED BY <1>8, <1>9 DEF n, V

LEMMA ChosenAppend ==
    ASSUME NEW T, NEW q \in Seq(T), NEW x \in T, NEW exts
    PROVE  OfExtensions(Append(q, x), exts)
             = IF x[3] \in exts THEN Append(OfExtensions(q, exts), x) ELSE OfExtensions(q, exts)
<1> DEFINE n == Len(q)
           p == Append(q, x)
<1>1. /\ n \in Nat /\ p \in Seq(T) /\ Len(p) = n + 1 /\ p[n + 1] = x
      /\ \A k \in 1..n : p[k] = q[k]
  OBVIOUS
<1> HIDE DEF p
<1>r. PICK r : ChosenBy(r, q, exts)
  BY ChosenSteps
<1>t. PICK t : ChosenBy(t, p, exts)
  BY <1>1, ChosenSteps
<1>2. /\ r[0] = <<>> /\ OfExtensions(q, exts) = r[n]
      /\ \A k \in 1..n : r[k] = IF q[k][3] \in exts THEN Append(r[k - 1], q[k]) ELSE r[k - 1]
  BY <1>r DEF ChosenBy
<1> HIDE DEF n
<1>3. /\ t[0] = <<>> /\ OfExtensions(p, exts) = t[n + 1]
      /\ \A k \in 1..(n + 1) : t[k] = IF p[k][3] \in exts THEN Append(t[k - 1], p[k]) ELSE t[k - 1]
  BY <1>1, <1>t DEF ChosenBy
<1> DEFINE S == {k \in Nat : k <= n => t[k] = r[k]}
<1>4. 0 \in S /\ S \subseteq Nat
  BY <1>2, <1>3
<1>5. ASSUME NEW k \in 0..(n - 1), k \in S PROVE k + 1 \in S
  <2>1. t[k] = r[k] /\ k + 1 \in 1..n /\ k + 1 \in 1..(n + 1) /\ (k + 1) - 1 = k
    BY <1>1, <1>5
  <2>2. t[k + 1] = r[k + 1]
    BY <2>1, <1>1, <1>2, <1>3
  <2> QED BY <2>2
<1>6. t[n] = r[n]
  <2>1. 0..n \subseteq S
    <3> HIDE DEF S
    <3> QED BY <1>1, <1>4, <1>5, Induction
  <2> QED BY <2>1, <1>1
<1>7. n + 1 \in 1..(n + 1) /\ (n + 1) - 1 = n
  BY <1>1
<1> QED BY <1>1, <1>2, <1>3, <1>6, <1>7 DEF p

\* What has the extensions, and then what has not.
LEMMA ChosenFirst ==
    ASSUME NEW T, NEW q \in Seq(T), NEW n \in 0..Len(q), NEW exts,
           \A k \in 1..n : q[k][3] \in exts,
           \A k \in (n + 1)..Len(q) : q[k][3] \notin exts
    PROVE  OfExtensions(q, exts) = SubSeq(q, 1, n)
<1> DEFINE m == Len(q)
<1>1. m \in Nat /\ n \in Nat /\ n <= m /\ \A k \in 1..m : q[k] \in T
  OBVIOUS
<1>r. PICK r : ChosenBy(r, q, exts)
  BY ChosenSteps
<1>2. /\ r[0] = <<>> /\ OfExtensions(q, exts) = r[m]
      /\ \A k \in 1..m : r[k] = IF q[k][3] \in exts THEN Append(r[k - 1], q[k]) ELSE r[k - 1]
  BY <1>r DEF ChosenBy
<1> DEFINE S == {k \in Nat : k <= m => r[k] = SubSeq(q, 1, IF k <= n THEN k ELSE n)}
<1>3. 0 \in S /\ S \subseteq Nat
  <2>1. SubSeq(q, 1, 0) = <<>>
    OBVIOUS
  <2>2. (IF 0 <= n THEN 0 ELSE n) = 0
    BY <1>1
  <2> QED BY <1>2, <2>1, <2>2
<1>4. ASSUME NEW k \in 0..(m - 1), k \in S PROVE k + 1 \in S
  <2>1. k + 1 \in 1..m /\ (k + 1) - 1 = k /\ r[k] = SubSeq(q, 1, IF k <= n THEN k ELSE n)
    BY <1>1, <1>4
  <2>2. CASE k + 1 <= n
    <3>0. k \in Nat /\ k <= n /\ k + 1 \in 1..n
      BY <2>2, <1>1
    <3>1. r[k + 1] = Append(SubSeq(q, 1, k), q[k + 1])
      <4>1. r[k] = SubSeq(q, 1, k) /\ q[k + 1][3] \in exts
        BY <2>1, <3>0
      <4> QED BY <4>1, <2>1, <1>2
    <3>2. Append(SubSeq(q, 1, k), q[k + 1]) = SubSeq(q, 1, k + 1)
      <4>1. /\ SubSeq(q, 1, k) \in Seq(T) /\ Len(SubSeq(q, 1, k)) = k
            /\ \A i \in 1..k : SubSeq(q, 1, k)[i] = q[i]
            /\ SubSeq(q, 1, k + 1) \in Seq(T) /\ Len(SubSeq(q, 1, k + 1)) = k + 1
            /\ \A i \in 1..(k + 1) : SubSeq(q, 1, k + 1)[i] = q[i]
        BY <1>1, <2>1
      <4> DEFINE a == SubSeq(q, 1, k)
                 c == SubSeq(q, 1, k + 1)
      <4> HIDE DEF a, c
      <4>2. /\ a \in Seq(T) /\ Len(a) = k /\ \A i \in 1..k : a[i] = q[i]
            /\ c \in Seq(T) /\ Len(c) = k + 1 /\ \A i \in 1..(k + 1) : c[i] = q[i]
        BY <4>1 DEF a, c
      <4>3. q[k + 1] \in T
        BY <1>1, <2>1
      <4>4. Append(a, q[k + 1]) \in Seq(T) /\ Len(Append(a, q[k + 1])) = k + 1
        BY <4>2, <4>3
      <4>5. \A i \in 1..(k + 1) : Append(a, q[k + 1])[i] = c[i]
        BY <4>2, <4>3
      <4>6. Append(a, q[k + 1]) = c
        BY <4>2, <4>4, <4>5, SeqEqual
      <4> QED BY <4>6 DEF a, c
    <3> QED BY <3>1, <3>2, <2>2
  <2>3. CASE k + 1 > n
    <3>1. r[k + 1] = r[k]
      <4>1. k + 1 \in (n + 1)..m
        BY <2>1, <2>3, <1>1
      <4> QED BY <4>1, <2>1, <1>2
    <3>2. (IF k <= n THEN k ELSE n) = n
      BY <2>3, <1>1
    <3>3. ~(k + 1 <= n)
      BY <2>3, <1>1
    <3> QED BY <3>1, <3>2, <3>3, <2>1
  <2> QED BY <2>2, <2>3, <1>1
<1>5. m \in S
  <2>1. 0..m \subseteq S
    <3> HIDE DEF S
    <3> QED BY <1>1, <1>3, <1>4, Induction
  <2> QED BY <2>1, <1>1
<1>6. (IF m <= n THEN m ELSE n) = n
  BY <1>1
<1> QED BY <1>2, <1>5, <1>6

TotalBy(r, q) ==
    /\ r[0] = 0 /\ Total(q) = r[Len(q)]
    /\ \A k \in 1..Len(q) : r[k] = r[k - 1] + q[k]

LEMMA TotalSteps ==
    ASSUME NEW q \in Seq(Nat)
    PROVE  \E r : TotalBy(r, q) /\ \A k \in 0..Len(q) : r[k] \in Nat
<1> DEFINE n == Len(q)
           V == Nat
           E(v, p) == v + p
           F(it) == [s \in SUBSET (1..n) |-> IF s = {} THEN 0 ELSE E(it[s \ {Max(s)}], q[Max(s)])]
           iter == CHOOSE it : it = F(it)
           g == [x \in V \X (1..n) |-> E(x[1], q[x[2]])]
<1>1. n \in Nat /\ DOMAIN q = 1..n /\ 0 \in V /\ \A k \in 1..n : q[k] \in Nat
  OBVIOUS
<1>2. Total(q) = iter[DOMAIN q]
  BY <1>1 DEF Total, FoldLeft, MapThenFoldSet
<1>3. \A v \in V : \A k \in 1..n : E(v, q[k]) \in V
  BY <1>1
<1> HIDE DEF n, E, V
<1>4. /\ g \in [V \X (1..n) -> V]
      /\ \A v \in V : \A k \in 1..n : g[<<v, k>>] = E(v, q[k])
  BY <1>3
<1> HIDE DEF g
<1>5. iter = F(iter)
  <2>1. PICK it : Folds(it, n, V, 0, g)
    BY <1>1, <1>4, FoldExists
  <2>2. ASSUME NEW s \in SUBSET (1..n), s # {}
        PROVE  it[s] = E(it[s \ {Max(s)}], q[Max(s)])
    <3>1. Max(s) \in 1..n
      BY <1>1, <2>2, GreatestOf
    <3>2. s \ {Max(s)} \in SUBSET (1..n)
      OBVIOUS
    <3>3. it[s \ {Max(s)}] \in V
      BY <2>1, <3>2 DEF Folds
    <3> QED BY <3>1, <3>3, <1>4, <2>1, <2>2 DEF Folds
  <2>3. it = F(it)
    BY <2>1, <2>2 DEF Folds
  <2> HIDE DEF F
  <2> QED BY <2>3
<1>6. \A s \in SUBSET (1..n) : iter[s] = IF s = {} THEN 0 ELSE E(iter[s \ {Max(s)}], q[Max(s)])
  <2> HIDE DEF iter
  <2> QED BY <1>5
<1> HIDE DEF iter
<1> DEFINE r == [k \in 0..n |-> iter[1..k]]
<1>7. /\ r[0] = 0 /\ r[n] = iter[1..n]
      /\ \A k \in 1..n : r[k] = E(r[k - 1], q[k])
  <2>1. 1..0 = {} /\ {} \in SUBSET (1..n)
    OBVIOUS
  <2>3. \A k \in 1..n : iter[1..k] = E(iter[1..(k - 1)], q[k])
    BY <1>1, <1>6, GreatestUpTo
  <2>4. iter[{}] = 0
    BY <1>6, <2>1
  <2> QED BY <1>1, <2>1, <2>3, <2>4
<1> HIDE DEF r
<1>8. \A k \in 0..n : r[k] \in V
  <2>1. r[0] \in V /\ \A k \in 1..n : r[k - 1] \in V => r[k] \in V
    BY <1>1, <1>3, <1>7
  <2> QED BY <1>1, <2>1, StepsTyped
<1>9. TotalBy(r, q)
  BY <1>1, <1>2, <1>7 DEF n, E, TotalBy
<1> QED BY <1>8, <1>9 DEF n, V

LEMMA TotalIsNat == ASSUME NEW q \in Seq(Nat) PROVE Total(q) \in Nat
<1>1. PICK r : TotalBy(r, q) /\ \A k \in 0..Len(q) : r[k] \in Nat
  BY TotalSteps
<1>2. Len(q) \in 0..Len(q)
  OBVIOUS
<1> QED BY <1>1, <1>2 DEF TotalBy

LEMMA SizeIsNat ==
    ASSUME NEW modules, NEW n \in Nat, DOMAIN modules = 1..n,
           \A i \in 1..n : modules[i][2] \in Bases, NEW name
    PROVE  /\ SizeOf(modules, name) \in Nat
           /\ name = "program_end" => SizeOf(modules, name) = 0
<1> DEFINE q == [i \in DOMAIN modules |-> PartOf(modules[i], name)]
<1>1. \A i \in 1..n : PartOf(modules[i], name) \in Nat /\ (name = "program_end" => PartOf(modules[i], name) = 0)
  BY SizesAssumption DEF PartOf
<1>2. q \in Seq(Nat) /\ Len(q) = n /\ \A i \in 1..n : q[i] = PartOf(modules[i], name)
  BY <1>1
<1>3. SizeOf(modules, name) = Total(q)
  BY DEF SizeOf
<1> HIDE DEF q
<1>4. SizeOf(modules, name) \in Nat
  BY <1>2, <1>3, TotalIsNat
<1>5. ASSUME name = "program_end" PROVE Total(q) = 0
  <2>1. PICK r : TotalBy(r, q)
    BY <1>2, TotalSteps
  <2> DEFINE V == {0}
  <2>2. r[0] \in V /\ \A k \in 1..n : r[k - 1] \in V => r[k] \in V
    <3>1. \A k \in 1..n : r[k] = r[k - 1] + 0
      BY <2>1, <1>1, <1>2, <1>5 DEF TotalBy
    <3> QED BY <2>1, <3>1 DEF TotalBy
  <2> HIDE DEF V
  <2>3. \A k \in 0..n : r[k] \in V
    BY <2>2, StepsTyped
  <2>4. n \in 0..n
    OBVIOUS
  <2> QED BY <2>1, <2>3, <2>4, <1>2 DEF TotalBy, V
<1> QED BY <1>3, <1>4, <1>5

ExtentsBy(r, q, modules) ==
    /\ r[0] = <<>> /\ Extents(q, modules) = r[Len(q)]
    /\ \A k \in 1..Len(q) : r[k] = Laid(modules, r[k - 1], q[k])

ExtentsOf(N) == Seq([name : N, start : Int, end : Int])

LEMMA LaidTyped ==
    ASSUME NEW N, NEW es \in ExtentsOf(N), NEW s \in [name : N, load : Int], NEW modules,
           SizeOf(modules, s.name) \in Nat
    PROVE  Laid(modules, es, s) \in ExtentsOf(N)
<1> DEFINE R == [name : N, start : Int, end : Int]
           start == StartOf(s, IF es = <<>> THEN 0 ELSE es[Len(es)].end)
           e == [name |-> s.name, start |-> start, end |-> start + SizeOf(modules, s.name)]
<1>1. es \in Seq(R)
  BY DEF ExtentsOf
<1>2. es # <<>> => es[Len(es)] \in R
  <2> HIDE DEF R
  <2> QED BY <1>1
<1>3. start \in Int
  BY <1>2 DEF StartOf
<1>4. e \in R
  BY <1>3
<1>5. Append(es, e) \in Seq(R)
  <2> HIDE DEF R, e
  <2> QED BY <1>1, <1>4
<1> QED BY <1>5 DEF Laid, ExtentsOf

LEMMA ExtentsSteps ==
    ASSUME NEW N, NEW q \in Seq([name : N, load : Int]), NEW modules,
           \A name \in N : SizeOf(modules, name) \in Nat
    PROVE  \E r : ExtentsBy(r, q, modules) /\ \A k \in 0..Len(q) : r[k] \in ExtentsOf(N)
<1> DEFINE n == Len(q)
           V == ExtentsOf(N)
           b == <<>>
           E(v, s) == Laid(modules, v, s)
           F(it) == [s \in SUBSET (1..n) |-> IF s = {} THEN b ELSE E(it[s \ {Max(s)}], q[Max(s)])]
           iter == CHOOSE it : it = F(it)
           g == [x \in V \X (1..n) |-> E(x[1], q[x[2]])]
<1>1. n \in Nat /\ DOMAIN q = 1..n /\ b \in V /\ \A k \in 1..n : q[k] \in [name : N, load : Int]
  <2> DEFINE T == [name : N, load : Int]
             R == [name : N, start : Int, end : Int]
  <2>1. q \in Seq(T) /\ V = Seq(R)
    BY DEF ExtentsOf
  <2> HIDE DEF T, R
  <2>2. n \in Nat /\ DOMAIN q = 1..n /\ b \in V /\ \A k \in 1..n : q[k] \in T
    BY <2>1
  <2> QED BY <2>2 DEF T
<1>2. Extents(q, modules) = iter[DOMAIN q]
  BY <1>1 DEF Extents, FoldLeft, MapThenFoldSet
<1>3. \A v \in V : \A k \in 1..n : E(v, q[k]) \in V
  BY <1>1, LaidTyped
<1> HIDE DEF n, E, V, b
<1>4. /\ g \in [V \X (1..n) -> V]
      /\ \A v \in V : \A k \in 1..n : g[<<v, k>>] = E(v, q[k])
  BY <1>3
<1> HIDE DEF g
<1>5. iter = F(iter)
  <2>1. PICK it : Folds(it, n, V, b, g)
    BY <1>1, <1>4, FoldExists
  <2>2. ASSUME NEW s \in SUBSET (1..n), s # {}
        PROVE  it[s] = E(it[s \ {Max(s)}], q[Max(s)])
    <3>1. Max(s) \in 1..n
      BY <1>1, <2>2, GreatestOf
    <3>2. s \ {Max(s)} \in SUBSET (1..n)
      OBVIOUS
    <3>3. it[s \ {Max(s)}] \in V
      BY <2>1, <3>2 DEF Folds
    <3> QED BY <3>1, <3>3, <1>4, <2>1, <2>2 DEF Folds
  <2>3. it = F(it)
    BY <2>1, <2>2 DEF Folds
  <2> HIDE DEF F
  <2> QED BY <2>3
<1>6. \A s \in SUBSET (1..n) : iter[s] = IF s = {} THEN b ELSE E(iter[s \ {Max(s)}], q[Max(s)])
  <2> HIDE DEF iter
  <2> QED BY <1>5
<1> HIDE DEF iter
<1> DEFINE r == [k \in 0..n |-> iter[1..k]]
<1>7. /\ r[0] = b /\ r[n] = iter[1..n]
      /\ \A k \in 1..n : r[k] = E(r[k - 1], q[k])
  <2>1. 1..0 = {} /\ {} \in SUBSET (1..n)
    OBVIOUS
  <2>3. \A k \in 1..n : iter[1..k] = E(iter[1..(k - 1)], q[k])
    BY <1>1, <1>6, GreatestUpTo
  <2>4. iter[{}] = b
    BY <1>6, <2>1
  <2> QED BY <1>1, <2>1, <2>3, <2>4
<1> HIDE DEF r
<1>8. \A k \in 0..n : r[k] \in V
  <2>1. r[0] \in V /\ \A k \in 1..n : r[k - 1] \in V => r[k] \in V
    BY <1>1, <1>3, <1>7
  <2> QED BY <1>1, <2>1, StepsTyped
<1>9. ExtentsBy(r, q, modules)
  BY <1>1, <1>2, <1>7 DEF n, b, E, ExtentsBy
<1> QED BY <1>8, <1>9 DEF n, V


\* Only the first section of a script has an address, and the last marks the end.
InARow(N, script, c) ==
    /\ script \in Seq([name : N, load : Int])
    /\ Len(script) > 1 /\ script[1].load = c
    /\ \A i \in 2..Len(script) : script[i].load = NoLoad
    /\ \A i \in 1..(Len(script) - 1) : script[i].name # "program_end"
    /\ script[Len(script)].name = "program_end"

SectionSizes(script, modules) == [i \in DOMAIN script |-> SizeOf(modules, script[i].name)]

\* The end of a program of such a script is behind as much as its sections are long,
\* where the section that marks it is empty.
LEMMA EndOfProgram ==
    ASSUME NEW N, NEW script, NEW modules, NEW c \in Nat, InARow(N, script, c),
           \A name \in N : SizeOf(modules, name) \in Nat, SizeOf(modules, "program_end") = 0
    PROVE  ProgramEnd(script, modules) = c + Total(SectionSizes(script, modules))
<1>0. /\ script \in Seq([name : N, load : Int])
      /\ Len(script) > 1 /\ script[1].load = c
      /\ \A i \in 2..Len(script) : script[i].load = NoLoad
      /\ \A i \in 1..(Len(script) - 1) : script[i].name # "program_end"
      /\ script[Len(script)].name = "program_end"
  BY DEF InARow
<1> DEFINE n == Len(script)
           q == [i \in DOMAIN script |-> SizeOf(modules, script[i].name)]
<1>1. /\ n \in Nat /\ n > 1 /\ DOMAIN script = 1..n
      /\ \A i \in 1..n : script[i] \in [name : N, load : Int]
  <2> DEFINE T == [name : N, load : Int]
  <2>1. script \in Seq(T)
    BY <1>0
  <2> HIDE DEF T
  <2>2. n \in Nat /\ DOMAIN script = 1..n /\ \A i \in 1..n : script[i] \in T
    BY <2>1
  <2> QED BY <1>0, <2>2 DEF T
<1>2. \A i \in 1..n : script[i].name \in N /\ SizeOf(modules, script[i].name) \in Nat
  BY <1>1
<1>3. q \in Seq(Nat) /\ Len(q) = n /\ \A i \in 1..n : q[i] = SizeOf(modules, script[i].name)
  BY <1>1, <1>2
<1> HIDE DEF q
<1>4. PICK t : TotalBy(t, q) /\ \A k \in 0..n : t[k] \in Nat
  BY <1>3, TotalSteps
<1>5. PICK r : ExtentsBy(r, script, modules) /\ \A k \in 0..n : r[k] \in ExtentsOf(N)
  BY <1>0, ExtentsSteps
<1> HIDE DEF n
<1> DEFINE Upto(k) ==
             /\ Len(r[k]) = k /\ \A i \in 1..k : r[k][i].name = script[i].name
             /\ k > 0 => r[k][k].start = c + t[k - 1] /\ r[k][k].end = c + t[k]
           S == {k \in Nat : k <= n => Upto(k)}
<1>6. 0 \in S /\ S \subseteq Nat
  BY <1>5 DEF ExtentsBy
<1>7. ASSUME NEW k \in 0..(n - 1), k \in S PROVE k + 1 \in S
  <2> DEFINE es == r[k]
             s == script[k + 1]
             start == StartOf(s, IF es = <<>> THEN 0 ELSE es[Len(es)].end)
             e == [name |-> s.name, start |-> start, end |-> start + SizeOf(modules, s.name)]
  <2>0. k + 1 \in 1..n /\ k \in 0..n /\ (k + 1) - 1 = k /\ k \in Nat /\ k <= n
    BY <1>1
  <2>u. Upto(k)
    <3> HIDE DEF Upto
    <3> QED BY <1>7, <2>0
  <2>1. Upto(k) /\ k + 1 \in 1..n /\ k \in 0..n /\ (k + 1) - 1 = k /\ k \in Nat
    BY <2>0, <2>u, Zenon
  <2>2. r[k + 1] = Append(es, e)
    BY <2>1, <1>5 DEF ExtentsBy, Laid, n
  <2>3. es \in Seq([name : N, start : Int, end : Int]) /\ Len(es) = k
    BY <2>1, <1>5 DEF ExtentsOf
  <2>4. start = c + t[k]
    <3>1. CASE k = 0
      <4>1. s.load = c /\ c # NoLoad /\ t[k] = 0
        BY <3>1, <1>0, <1>4 DEF TotalBy, NoLoad
      <4> QED BY <4>1 DEF StartOf
    <3>2. CASE k # 0
      <4>1. s.load = NoLoad
        <5>1. k + 1 \in 2..Len(script)
          BY <3>2, <2>1 DEF n
        <5> QED BY <5>1, <1>0
      <4>2. es # <<>> /\ es[Len(es)].end = c + t[k]
        BY <3>2, <2>1, <2>3
      <4> QED BY <4>1, <4>2 DEF StartOf
    <3> QED BY <3>1, <3>2
  <2>5. t[k + 1] = t[k] + SizeOf(modules, s.name) /\ t[k] \in Nat /\ SizeOf(modules, s.name) \in Nat
    BY <2>1, <1>2, <1>3, <1>4 DEF TotalBy
  <2>6. e.name = s.name /\ e.start = c + t[k] /\ e.end = c + t[k + 1]
    <3>1. e.end = start + SizeOf(modules, s.name) /\ e.start = start /\ e.name = s.name
      OBVIOUS
    <3> HIDE DEF start, e
    <3> QED BY <3>1, <2>4, <2>5
  <2>6a. e \in [name : N, start : Int, end : Int]
    <3>1. s.name \in N /\ c + t[k] \in Int /\ c + t[k + 1] \in Int
      BY <2>0, <1>2, <1>4
    <3>2. start \in Int /\ start + SizeOf(modules, s.name) \in Int
      <4> HIDE DEF start
      <4> QED BY <3>1, <2>4, <2>5
    <3> HIDE DEF start
    <3> QED BY <3>1, <3>2
  <2> HIDE DEF e, es, start
  <2>7. /\ Len(Append(es, e)) = k + 1 /\ Append(es, e)[k + 1] = e
        /\ \A i \in 1..k : Append(es, e)[i] = es[i]
    <3> DEFINE T == [name : N, start : Int, end : Int]
    <3>1. es \in Seq(T) /\ e \in T
      BY <2>3, <2>6a
    <3> HIDE DEF T
    <3> QED BY <3>1, <2>0, <2>3
  <2>8. /\ Len(r[k + 1]) = k + 1 /\ r[k + 1][k + 1] = e
        /\ \A i \in 1..k : r[k + 1][i] = es[i]
    BY <2>2, <2>7
  <2>9. \A i \in 1..(k + 1) : r[k + 1][i].name = script[i].name
    <3>1. \A i \in 1..k : es[i].name = script[i].name
      BY <2>1 DEF es
    <3>2. \A i \in 1..(k + 1) : i \in 1..k \/ i = k + 1
      BY <2>1
    <3> QED BY <3>1, <3>2, <2>6, <2>8
  <2>10. /\ Len(r[k + 1]) = k + 1
         /\ r[k + 1][k + 1].start = c + t[(k + 1) - 1] /\ r[k + 1][k + 1].end = c + t[k + 1]
    BY <2>0, <2>6, <2>8
  <2>11. Upto(k + 1)
    BY <2>9, <2>10
  <2> HIDE DEF Upto
  <2> QED BY <2>0, <2>11
<1>8. Upto(n)
  <2>1. 0..n \subseteq S
    <3> HIDE DEF S
    <3> QED BY <1>1, <1>6, <1>7, Induction
  <2>2. n \in S
    BY <2>1, <1>1
  <2> HIDE DEF Upto
  <2> QED BY <2>2, <1>1
<1>9. DOMAIN r[n] = 1..n
  <2> DEFINE T == [name : N, start : Int, end : Int]
  <2>0. n \in 0..n
    BY <1>1
  <2>1. r[n] \in Seq(T)
    BY <2>0, <1>5 DEF ExtentsOf
  <2> HIDE DEF T
  <2> QED BY <2>1, <1>8
<1>10. (CHOOSE i \in DOMAIN r[n] : r[n][i].name = "program_end") = n
  <2>1. n \in DOMAIN r[n] /\ r[n][n].name = "program_end"
    <3>1. n \in 1..n /\ script[n].name = "program_end"
      BY <1>0, <1>1 DEF n
    <3> QED BY <3>1, <1>8, <1>9
  <2>2. \A i \in DOMAIN r[n] : r[n][i].name = "program_end" => i = n
    <3>1. \A i \in 1..n : i \in 1..(n - 1) \/ i = n
      BY <1>1
    <3> QED BY <3>1, <1>0, <1>8, <1>9 DEF n
  <2> HIDE DEF Upto, S
  <2> QED BY <2>1, <2>2
<1>11. t[n] = t[n - 1]
  <2>1. n \in 1..n /\ n - 1 \in 0..n
    BY <1>1
  <2>2. t[n] = t[n - 1] + q[n] /\ t[n - 1] \in Nat
    BY <2>1, <1>3, <1>4 DEF TotalBy
  <2>3. q[n] = 0
    BY <2>1, <1>0, <1>3 DEF n
  <2> QED BY <2>2, <2>3
<1>12. ProgramEnd(script, modules) = r[n][n].start
  <2>1. Extents(script, modules) = r[n]
    BY <1>5 DEF ExtentsBy, n
  <2> HIDE DEF Upto, S
  <2> QED BY <2>1, <1>10 DEF ProgramEnd
<1>13. r[n][n].start = c + t[n - 1]
  BY <1>1, <1>8
<1>14. Total(q) = t[n]
  BY <1>3, <1>4 DEF TotalBy
<1> HIDE DEF Upto, S
<1> QED BY <1>11, <1>12, <1>13, <1>14 DEF q, SectionSizes

-----------------------------------------------------------------------------
(* The one block of a DragonDOS file. *)

Bytes == 0..255
IsBlock(b) == b.address \in Nat /\ b.contents \in Seq(Bytes) /\ Len(b.contents) \in Nat
AreBlocks(bs, n) ==
    /\ n \in Nat /\ Len(bs) = n /\ DOMAIN bs = 1..n
    /\ \A i \in 1..n : IsBlock(bs[i])

LEMMA CoveredByte ==
    ASSUME NEW b, IsBlock(b), NEW a \in Nat, Covers(b, a)
    PROVE  ByteOf(b, a) \in Bytes
<1> DEFINE c == b.contents
           d == a - b.address
<1>1. c \in Seq(Bytes) /\ Len(c) \in Nat /\ d \in Int /\ d \in 0..(Len(c) - 1)
  BY DEF Covers, IsBlock
<1> HIDE DEF c, d
<1>2. d + 1 \in 1..Len(c)
  BY <1>1
<1>3. c[d + 1] \in Bytes
  BY <1>1, <1>2
<1> QED BY <1>3 DEF ByteOf, c, d

\* What loading the blocks leaves at an address, block by block.
LoadedBy(r, bs, a) ==
    /\ r[0] = 0 /\ LoadedAt(bs, a, 0) = r[Len(bs)]
    /\ \A k \in 1..Len(bs) : r[k] = IF Covers(bs[k], a) THEN ByteOf(bs[k], a) ELSE r[k - 1]

LEMMA LoadedSteps ==
    ASSUME NEW n, NEW q, AreBlocks(q, n), NEW a \in Nat
    PROVE  \E r : LoadedBy(r, q, a) /\ \A k \in 0..n : r[k] \in Bytes
<1> DEFINE V == Bytes
           E(v, p) == IF Covers(p, a) THEN ByteOf(p, a) ELSE v
           F(it) == [s \in SUBSET (1..n) |-> IF s = {} THEN 0 ELSE E(it[s \ {Max(s)}], q[Max(s)])]
           iter == CHOOSE it : it = F(it)
           g == [x \in V \X (1..n) |-> E(x[1], q[x[2]])]
<1>1. /\ n \in Nat /\ DOMAIN q = 1..n /\ 0 \in V /\ Len(q) = n
      /\ \A k \in 1..n : IsBlock(q[k])
  BY DEF AreBlocks, Bytes
<1>2. LoadedAt(q, a, 0) = iter[DOMAIN q]
  BY <1>1 DEF LoadedAt, FoldLeft, MapThenFoldSet
<1>3. \A v \in V : \A k \in 1..n : E(v, q[k]) \in V
  BY <1>1, CoveredByte
<1> HIDE DEF E, V
<1>4. /\ g \in [V \X (1..n) -> V]
      /\ \A v \in V : \A k \in 1..n : g[<<v, k>>] = E(v, q[k])
  BY <1>3
<1> HIDE DEF g
<1>5. iter = F(iter)
  <2>1. PICK it : Folds(it, n, V, 0, g)
    BY <1>1, <1>4, FoldExists
  <2>2. ASSUME NEW s \in SUBSET (1..n), s # {}
        PROVE  it[s] = E(it[s \ {Max(s)}], q[Max(s)])
    <3>1. Max(s) \in 1..n
      BY <1>1, <2>2, GreatestOf
    <3>2. s \ {Max(s)} \in SUBSET (1..n)
      OBVIOUS
    <3>3. it[s \ {Max(s)}] \in V
      BY <2>1, <3>2 DEF Folds
    <3> QED BY <3>1, <3>3, <1>4, <2>1, <2>2 DEF Folds
  <2>3. it = F(it)
    BY <2>1, <2>2 DEF Folds
  <2> HIDE DEF F
  <2> QED BY <2>3
<1>6. \A s \in SUBSET (1..n) : iter[s] = IF s = {} THEN 0 ELSE E(iter[s \ {Max(s)}], q[Max(s)])
  <2> HIDE DEF iter
  <2> QED BY <1>5
<1> HIDE DEF iter
<1> DEFINE r == [k \in 0..n |-> iter[1..k]]
<1>7. /\ r[0] = 0 /\ r[n] = iter[1..n]
      /\ \A k \in 1..n : r[k] = E(r[k - 1], q[k])
  <2>1. 1..0 = {} /\ {} \in SUBSET (1..n)
    OBVIOUS
  <2>3. \A k \in 1..n : iter[1..k] = E(iter[1..(k - 1)], q[k])
    BY <1>1, <1>6, GreatestUpTo
  <2>4. iter[{}] = 0
    BY <1>6, <2>1
  <2> QED BY <1>1, <2>1, <2>3, <2>4
<1> HIDE DEF r
<1>8. \A k \in 0..n : r[k] \in V
  <2>1. r[0] \in V /\ \A k \in 1..n : r[k - 1] \in V => r[k] \in V
    BY <1>1, <1>3, <1>7
  <2> QED BY <1>1, <2>1, StepsTyped
<1>9. LoadedBy(r, q, a)
  BY <1>1, <1>2, <1>7 DEF E, LoadedBy
<1> QED BY <1>8, <1>9 DEF V

\* The contents take the place of as many bytes.
LEMMA Spliced ==
    ASSUME NEW buffer \in Seq(Bytes), NEW at \in Nat, NEW contents \in Seq(Bytes),
           at + Len(contents) <= Len(buffer)
    PROVE  /\ Splice(buffer, at, contents) \in Seq(Bytes)
           /\ Len(Splice(buffer, at, contents)) = Len(buffer)
           /\ \A j \in 1..Len(buffer) :
                 Splice(buffer, at, contents)[j] =
                    IF j - at \in 1..Len(contents) THEN contents[j - at] ELSE buffer[j]
<1> DEFINE x == SubSeq(buffer, 1, at)
           y == SubSeq(buffer, at + Len(contents) + 1, Len(buffer))
           m == at + Len(contents)
<1>0. Len(buffer) \in Nat /\ Len(contents) \in Nat /\ m \in Nat /\ at <= Len(buffer)
  OBVIOUS
<1>1. /\ x \in Seq(Bytes) /\ Len(x) = at /\ \A j \in 1..at : x[j] = buffer[j]
  BY <1>0
<1>2. /\ y \in Seq(Bytes) /\ Len(y) = Len(buffer) - m
      /\ \A j \in 1..(Len(buffer) - m) : y[j] = buffer[m + j]
  <2>1. \A j \in (m + 1)..Len(buffer) : buffer[j] \in Bytes
    BY <1>0
  <2> QED BY <1>0, <2>1
<1> HIDE DEF x, y
<1>3. /\ x \o contents \in Seq(Bytes) /\ Len(x \o contents) = m
      /\ \A j \in 1..m : (x \o contents)[j] = IF j <= at THEN x[j] ELSE contents[j - at]
  BY <1>0, <1>1
<1> DEFINE z == x \o contents
<1> HIDE DEF z
<1>4. z \in Seq(Bytes) /\ Len(z) = m /\ \A j \in 1..m : z[j] = IF j <= at THEN x[j] ELSE contents[j - at]
  BY <1>3 DEF z
<1> HIDE DEF m
<1>5. /\ z \o y \in Seq(Bytes) /\ Len(z \o y) = Len(buffer)
      /\ \A j \in 1..Len(buffer) : (z \o y)[j] = IF j <= m THEN z[j] ELSE y[j - m]
  BY <1>0, <1>2, <1>4
<1>6. Splice(buffer, at, contents) = z \o y
  BY DEF Splice, z, x, y
<1>7. ASSUME NEW j \in 1..Len(buffer)
      PROVE  (z \o y)[j] = IF j - at \in 1..Len(contents) THEN contents[j - at] ELSE buffer[j]
  <2>1. CASE j <= at
    <3>1. j \in 1..m /\ j \in 1..at /\ ~(j - at \in 1..Len(contents)) /\ j <= m
      BY <2>1, <1>0 DEF m
    <3> QED BY <3>1, <2>1, <1>1, <1>4, <1>5
  <2>2. CASE j > at /\ j <= m
    <3>1. j \in 1..m /\ ~(j <= at) /\ j - at \in 1..Len(contents) /\ j <= m
      BY <2>2, <1>0 DEF m
    <3>2. (z \o y)[j] = z[j] /\ z[j] = contents[j - at]
      BY <3>1, <1>4, <1>5
    <3> QED BY <3>1, <3>2
  <2>3. CASE j > m
    <3>1. j - m \in 1..(Len(buffer) - m) /\ ~(j <= m) /\ ~(j - at \in 1..Len(contents)) /\ m + (j - m) = j
      BY <2>3, <1>0 DEF m
    <3>2. (z \o y)[j] = y[j - m]
      BY <3>1, <1>5
    <3>3. y[j - m] = buffer[m + (j - m)]
      BY <3>1, <1>2
    <3>4. (z \o y)[j] = buffer[j]
      BY <3>1, <3>2, <3>3
    <3> QED BY <3>1, <3>4
  <2>4. m \in Nat /\ (j <= at \/ (j > at /\ j <= m) \/ j > m)
    BY <1>0 DEF m
  <2> QED BY <2>1, <2>2, <2>3, <2>4
<1> QED BY <1>5, <1>6, <1>7

\* The buffer of the one block, block by block.
FilledBy(r, bs, start, zeros) ==
    /\ r[0] = zeros
    /\ FoldLeft(LAMBDA buffer, b : Splice(buffer, b.address - start, b.contents), zeros, bs) = r[Len(bs)]
    /\ \A k \in 1..Len(bs) : r[k] = Splice(r[k - 1], bs[k].address - start, bs[k].contents)
    /\ \A k \in 0..Len(bs) : r[k] \in Seq(Bytes) /\ Len(r[k]) = Len(zeros)

LEMMA FilledSteps ==
    ASSUME NEW n, NEW q, AreBlocks(q, n), NEW start \in Nat, NEW zeros \in Seq(Bytes),
           \A k \in 1..n : /\ start <= q[k].address
                           /\ q[k].address + Len(q[k].contents) <= start + Len(zeros)
    PROVE  \E r : FilledBy(r, q, start, zeros)
<1> DEFINE V == {v \in Seq(Bytes) : Len(v) = Len(zeros)}
           E(v, p) == Splice(v, p.address - start, p.contents)
           F(it) == [s \in SUBSET (1..n) |-> IF s = {} THEN zeros ELSE E(it[s \ {Max(s)}], q[Max(s)])]
           iter == CHOOSE it : it = F(it)
           g == [x \in V \X (1..n) |-> E(x[1], q[x[2]])]
<1>1. /\ n \in Nat /\ DOMAIN q = 1..n /\ zeros \in V /\ Len(q) = n
      /\ \A k \in 1..n : IsBlock(q[k])
  BY DEF AreBlocks
<1>2. FoldLeft(LAMBDA buffer, b : Splice(buffer, b.address - start, b.contents), zeros, q) = iter[DOMAIN q]
  BY <1>1 DEF FoldLeft, MapThenFoldSet
<1>3. ASSUME NEW v \in V, NEW k \in 1..n PROVE E(v, q[k]) \in V
  <2>1. /\ q[k].address - start \in Nat /\ q[k].contents \in Seq(Bytes)
        /\ q[k].address - start + Len(q[k].contents) <= Len(v)
        /\ v \in Seq(Bytes) /\ Len(v) = Len(zeros)
    BY <1>1 DEF IsBlock
  <2> QED BY <2>1, Spliced
<1> HIDE DEF E, V
<1>4. /\ g \in [V \X (1..n) -> V]
      /\ \A v \in V : \A k \in 1..n : g[<<v, k>>] = E(v, q[k])
  BY <1>3
<1> HIDE DEF g
<1>5. iter = F(iter)
  <2>1. PICK it : Folds(it, n, V, zeros, g)
    BY <1>1, <1>4, FoldExists
  <2>2. ASSUME NEW s \in SUBSET (1..n), s # {}
        PROVE  it[s] = E(it[s \ {Max(s)}], q[Max(s)])
    <3>1. Max(s) \in 1..n
      BY <1>1, <2>2, GreatestOf
    <3>2. s \ {Max(s)} \in SUBSET (1..n)
      OBVIOUS
    <3>3. it[s \ {Max(s)}] \in V
      BY <2>1, <3>2 DEF Folds
    <3> QED BY <3>1, <3>3, <1>4, <2>1, <2>2 DEF Folds
  <2>3. it = F(it)
    BY <2>1, <2>2 DEF Folds
  <2> HIDE DEF F
  <2> QED BY <2>3
<1>6. \A s \in SUBSET (1..n) : iter[s] = IF s = {} THEN zeros ELSE E(iter[s \ {Max(s)}], q[Max(s)])
  <2> HIDE DEF iter
  <2> QED BY <1>5
<1> HIDE DEF iter
<1> DEFINE r == [k \in 0..n |-> iter[1..k]]
<1>7. /\ r[0] = zeros /\ r[n] = iter[1..n]
      /\ \A k \in 1..n : r[k] = E(r[k - 1], q[k])
  <2>1. 1..0 = {} /\ {} \in SUBSET (1..n)
    OBVIOUS
  <2>3. \A k \in 1..n : iter[1..k] = E(iter[1..(k - 1)], q[k])
    BY <1>1, <1>6, GreatestUpTo
  <2>4. iter[{}] = zeros
    BY <1>6, <2>1
  <2> QED BY <1>1, <2>1, <2>3, <2>4
<1> HIDE DEF r
<1>8. \A k \in 0..n : r[k] \in V
  <2>1. r[0] \in V /\ \A k \in 1..n : r[k - 1] \in V => r[k] \in V
    BY <1>1, <1>3, <1>7
  <2> QED BY <1>1, <2>1, StepsTyped
<1>9. FilledBy(r, q, start, zeros)
  BY <1>1, <1>2, <1>7, <1>8 DEF E, FilledBy, V
<1> QED BY <1>9

LEMMA Within == ASSUME NEW n \in Nat, NEW e \in Nat, e < n PROVE e % n = e
<1> DEFINE q == e \div n
           r == e % n
<1>1. n * q + r = e /\ 0 <= r /\ r < n /\ q \in Int /\ r \in Int
  OBVIOUS
<1> HIDE DEF q, r
<1>2. ~(q >= 1)
  <2>1. q >= 1 => n * q >= n
    BY <1>1
  <2> QED BY <1>1, <2>1
<1>3. ~(q <= -1)
  <2>1. q <= -1 => n * q <= 0 - n
    BY <1>1
  <2> QED BY <1>1, <2>1
<1>4. q = 0
  BY <1>1, <1>2, <1>3
<1> QED BY <1>1, <1>4 DEF r

\* Where the one block starts and ends: it has room for all blocks.
LEMMA Room ==
    ASSUME NEW n, NEW bs, AreBlocks(bs, n), n > 0,
           \A i \in 1..n : bs[i].address + Len(bs[i].contents) < AddressSpace
    PROVE  /\ StartAddr(bs) \in Nat /\ EndAddr(bs) \in Nat /\ EndAddr(bs) >= StartAddr(bs)
           /\ \A i \in 1..n : /\ StartAddr(bs) <= bs[i].address
                              /\ bs[i].address + Len(bs[i].contents) <= EndAddr(bs)
<1> DEFINE S == {b.address : b \in {bs[i] : i \in DOMAIN bs}} \cup {AddressSpace - 1}
           U == {EndOf(bs[i]) : i \in DOMAIN bs} \cup {0}
<1>0. AddressSpace \in Nat /\ AddressSpace > 0
  BY AddressAssumption
<1>1. /\ n \in Nat /\ DOMAIN bs = 1..n
      /\ \A i \in 1..n : bs[i].address \in Nat /\ Len(bs[i].contents) \in Nat
  BY DEF AreBlocks, IsBlock
<1>2. \A i \in 1..n : EndOf(bs[i]) = bs[i].address + Len(bs[i].contents)
  <2> SUFFICES ASSUME NEW i \in 1..n PROVE EndOf(bs[i]) = bs[i].address + Len(bs[i].contents)
    OBVIOUS
  <2> DEFINE e == bs[i].address + Len(bs[i].contents)
  <2>1. e \in Nat /\ e < AddressSpace
    BY <1>1
  <2> HIDE DEF e
  <2>2. e % AddressSpace = e
    BY <2>1, <1>0, Within
  <2> QED BY <2>2 DEF EndOf, e
<1>3. S \subseteq Nat /\ S # {}
  BY <1>0, <1>1
<1>4. StartAddr(bs) \in S /\ \A y \in S : StartAddr(bs) <= y
  <2>1. StartAddr(bs) = Min(S)
    BY DEF StartAddr
  <2> HIDE DEF S
  <2>2. \E x \in S : \A y \in S : x <= y
    BY <1>3, LeastNumber
  <2> QED BY <2>1, <2>2 DEF Min
<1>5. U \subseteq 0..AddressSpace /\ U # {}
  BY <1>0, <1>1, <1>2
<1>6. EndAddr(bs) \in U /\ \A y \in U : EndAddr(bs) >= y
  <2>1. EndAddr(bs) = Max(U)
    BY DEF EndAddr
  <2> HIDE DEF U
  <2> QED BY <2>1, <1>0, <1>5, GreatestNumber
<1>7. \A i \in 1..n : bs[i].address \in S /\ EndOf(bs[i]) \in U
  BY <1>1
<1> HIDE DEF S, U
<1>8. StartAddr(bs) \in Nat /\ EndAddr(bs) \in Nat
  <2>1. StartAddr(bs) \in Nat
    BY <1>3, <1>4
  <2>2. EndAddr(bs) \in 0..AddressSpace
    BY <1>5, <1>6
  <2> QED BY <2>1, <2>2
<1>9. \A i \in 1..n : /\ StartAddr(bs) <= bs[i].address
                      /\ bs[i].address + Len(bs[i].contents) <= EndAddr(bs)
  <2> SUFFICES ASSUME NEW i \in 1..n
               PROVE  /\ StartAddr(bs) <= bs[i].address
                      /\ bs[i].address + Len(bs[i].contents) <= EndAddr(bs)
    OBVIOUS
  <2>1. StartAddr(bs) <= bs[i].address /\ EndAddr(bs) >= EndOf(bs[i])
    BY <1>4, <1>6, <1>7
  <2> QED BY <2>1, <1>1, <1>2, <1>8
<1>10. EndAddr(bs) >= StartAddr(bs)
  <2>1. 1 \in 1..n
    BY <1>1
  <2> QED BY <2>1, <1>1, <1>8, <1>9
<1> QED BY <1>8, <1>9, <1>10

\* Loading the one block leaves the bytes that loading the blocks does.
LEMMA SingleBlockLoads ==
    ASSUME NEW n, NEW bs, AreBlocks(bs, n),
           \A i \in 1..n : bs[i].address + Len(bs[i].contents) < AddressSpace,
           NEW a \in Covered(bs)
    PROVE  LoadedAt(<<SingleBlock(bs)>>, a, 0) = LoadedAt(bs, a, 0)
<1> DEFINE start == StartAddr(bs)
           length == EndAddr(bs) - start
           zeros == [m \in 1..length |-> 0]
           j == a - start + 1
<1>1. n \in Nat /\ DOMAIN bs = 1..n /\ Len(bs) = n /\ \A i \in 1..n : IsBlock(bs[i])
  BY DEF AreBlocks
<1>2. PICK i \in 1..n : Covers(bs[i], a)
  BY <1>1 DEF Covered
<1>3. a \in Nat /\ bs # <<>> /\ n > 0
  <2>1. a \in 0..(AddressSpace - 1) /\ AddressSpace \in Nat
    BY AddressAssumption DEF Covered
  <2>2. n > 0
    BY <1>1, <1>2
  <2> QED BY <2>1, <2>2, <1>1
<1>4. /\ start \in Nat /\ length \in Nat /\ EndAddr(bs) = start + length
      /\ \A k \in 1..n : /\ start <= bs[k].address
                         /\ bs[k].address + Len(bs[k].contents) <= start + length
  <2> DEFINE e == EndAddr(bs)
  <2>1. /\ start \in Nat /\ e \in Nat /\ e >= start
        /\ \A k \in 1..n : start <= bs[k].address /\ bs[k].address + Len(bs[k].contents) <= e
    BY <1>3, Room
  <2> HIDE DEF start, e
  <2>2. e - start \in Nat /\ start + (e - start) = e
    BY <2>1
  <2> QED BY <2>1, <2>2 DEF e
<1>5. j \in 1..length /\ a = start + j - 1
  <2>1. bs[i].address \in Nat /\ Len(bs[i].contents) \in Nat
    BY <1>1, <1>2 DEF IsBlock
  <2>2. a - bs[i].address \in 0..(Len(bs[i].contents) - 1)
    BY <1>2 DEF Covers
  <2>3. start <= bs[i].address /\ bs[i].address + Len(bs[i].contents) <= start + length
    BY <1>2, <1>4
  <2>4. start \in Nat /\ length \in Nat /\ a \in Nat
    BY <1>3, <1>4
  <2> DEFINE x == bs[i].address
             y == Len(bs[i].contents)
  <2> HIDE DEF start, length, x, y
  <2>5. x \in Nat /\ y \in Nat /\ a - x \in 0..(y - 1) /\ start <= x /\ x + y <= start + length
    BY <2>1, <2>2, <2>3 DEF x, y
  <2>6. a - x >= 0 /\ a - x <= y - 1 /\ a - x \in Int
    BY <2>4, <2>5
  <2>7. a - start + 1 >= 1 /\ a - start + 1 <= length /\ a - start + 1 \in Int
    BY <2>4, <2>5, <2>6
  <2> QED BY <2>4, <2>7
<1>6. zeros \in Seq(Bytes) /\ Len(zeros) = length /\ \A m \in 1..length : zeros[m] = 0
  <2> HIDE DEF length
  <2> QED BY <1>4 DEF Bytes
<1>7. SingleBlock(bs) = Block(start, FoldLeft(LAMBDA buffer, b : Splice(buffer, b.address - start, b.contents), zeros, bs))
  <2>1. ~(length < 0)
    BY <1>4
  <2> QED BY <2>1, <1>3 DEF SingleBlock
<1> HIDE DEF zeros, length, start
<1>8. PICK f : FilledBy(f, bs, start, zeros)
  <2>1. \A k \in 1..n : /\ start <= bs[k].address
                        /\ bs[k].address + Len(bs[k].contents) <= start + Len(zeros)
    BY <1>4, <1>6
  <2>2. start \in Nat /\ zeros \in Seq(Bytes)
    BY <1>4, <1>6
  <2> QED BY <2>1, <2>2, FilledSteps
<1>9. PICK t : LoadedBy(t, bs, a)
  BY <1>3, LoadedSteps
<1>10. /\ f[0] = zeros /\ SingleBlock(bs) = Block(start, f[n])
       /\ \A k \in 1..n : f[k] = Splice(f[k - 1], bs[k].address - start, bs[k].contents)
       /\ \A k \in 0..n : f[k] \in Seq(Bytes) /\ Len(f[k]) = length
  BY <1>1, <1>6, <1>7, <1>8 DEF FilledBy
<1>11. /\ t[0] = 0 /\ LoadedAt(bs, a, 0) = t[n]
       /\ \A k \in 1..n : t[k] = IF Covers(bs[k], a) THEN ByteOf(bs[k], a) ELSE t[k - 1]
  BY <1>1, <1>9 DEF LoadedBy
<1>j. j \in Int /\ j = a - start + 1
  BY <1>3, <1>4
<1> HIDE DEF j
<1> DEFINE S == {k \in Nat : k <= n => f[k][j] = t[k]}
<1>12. 0 \in S /\ S \subseteq Nat
  BY <1>5, <1>6, <1>10, <1>11
<1>13. ASSUME NEW k \in 0..(n - 1), k \in S PROVE k + 1 \in S
  <2> DEFINE b == bs[k + 1]
             at == b.address - start
  <2>1. k + 1 \in 1..n /\ k \in 0..n /\ (k + 1) - 1 = k /\ k \in Nat /\ k <= n
    BY <1>1
  <2>2. f[k][j] = t[k]
    BY <1>13, <2>1
  <2>3. f[k + 1] = Splice(f[k], at, b.contents) /\ f[k] \in Seq(Bytes) /\ Len(f[k]) = length
    BY <2>1, <1>10
  <2>4. /\ b.address \in Nat /\ b.contents \in Seq(Bytes) /\ Len(b.contents) \in Nat
        /\ start <= b.address /\ b.address + Len(b.contents) <= start + length
    BY <2>1, <1>1, <1>4 DEF IsBlock
  <2>7. t[k + 1] = IF Covers(b, a) THEN ByteOf(b, a) ELSE t[k]
    BY <2>1, <1>11
  <2> HIDE DEF b
  <2>5. at \in Nat /\ at + Len(b.contents) <= length
    BY <2>4, <1>4
  <2>8. j - at = a - b.address + 1 /\ a - b.address \in Int
    BY <2>4, <1>3, <1>4, <1>j
  <2>9. Covers(b, a) <=> j - at \in 1..Len(b.contents)
    BY <2>4, <2>8 DEF Covers
  <2> HIDE DEF at
  <2>6. f[k + 1][j] = IF j - at \in 1..Len(b.contents) THEN b.contents[j - at] ELSE f[k][j]
    <3> DEFINE v == f[k]
               c == b.contents
    <3>1. v \in Seq(Bytes) /\ c \in Seq(Bytes) /\ at \in Nat /\ at + Len(c) <= Len(v) /\ j \in 1..Len(v)
      BY <2>3, <2>4, <2>5, <1>5
    <3> HIDE DEF v, c
    <3>2. Splice(v, at, c)[j] = IF j - at \in 1..Len(c) THEN c[j - at] ELSE v[j]
      BY <3>1, Spliced
    <3> QED BY <3>2, <2>3 DEF v, c
  <2>10. f[k + 1][j] = t[k + 1]
    BY <2>2, <2>6, <2>7, <2>8, <2>9 DEF ByteOf
  <2> QED BY <2>1, <2>10
<1>14. f[n][j] = t[n]
  <2>1. 0..n \subseteq S
    <3> HIDE DEF S
    <3> QED BY <1>1, <1>12, <1>13, Induction
  <2>2. n \in 0..n
    BY <1>1
  <2> QED BY <1>1, <2>1, <2>2
<1>15. LoadedAt(<<SingleBlock(bs)>>, a, 0) = f[n][j]
  <2> DEFINE b == Block(start, f[n])
             one == <<b>>
  <2>1. f[n] \in Seq(Bytes) /\ Len(f[n]) = length
    BY <1>1, <1>10
  <2>2. b.address = start /\ b.contents = f[n] /\ IsBlock(b)
    BY <2>1, <1>4 DEF Block, IsBlock
  <2> HIDE DEF b
  <2>3. AreBlocks(one, 1) /\ one[1] = b /\ Len(one) = 1
    BY <2>2 DEF AreBlocks
  <2> HIDE DEF one
  <2>4. PICK u : LoadedBy(u, one, a)
    BY <2>3, <1>3, LoadedSteps
  <2>5. LoadedAt(one, a, 0) = IF Covers(b, a) THEN ByteOf(b, a) ELSE 0
    <3>1. 1 \in 1..Len(one) /\ 1 - 1 = 0
      BY <2>3
    <3> QED BY <3>1, <2>3, <2>4 DEF LoadedBy
  <2>6. a - start = j - 1 /\ j - 1 \in 0..(length - 1) /\ a - start + 1 = j
    BY <1>3, <1>4, <1>5, <1>j
  <2>7. Covers(b, a) /\ ByteOf(b, a) = f[n][j]
    BY <2>1, <2>2, <2>6 DEF Covers, ByteOf
  <2> QED BY <2>5, <2>7, <1>10 DEF one, b
<1> QED BY <1>11, <1>14, <1>15

-----------------------------------------------------------------------------
(* What the steps write. *)

\* What a step may have made of a file.
Wrote(p) ==
    \/ fs'[p] = fs[p] \/ fs'[p] \in {Absent, Torn}
    \/ pc = "emit" /\ p = EmittedFile /\ fs'[p] = File(EmittedKind, <<Input>>)
    \/ pc = "dependencies" /\ p = DependenciesOf(Input) /\ fs'[p] = File("other", <<Input>>)
    \/ InvokeAssembler /\ p = CompilationOutput(Input) /\ fs'[p] = File("obj", fs[Assembled].of)
    \/ InvokeAssembler /\ p = ListingOf(Input) /\ fs'[p] = File("other", fs[Assembled].of)
    \/ CreateLinkScript /\ p = LinkScriptFile /\ fs'[p].kind = "script"
    \/ Lwlink /\ p = Executable /\ fs'[p].kind = "exe"
         /\ fs'[p].blocks \in IF command.platform = "DRAGON" THEN BlockLists ELSE {<<>>}
    \/ Lwlink /\ p = MapFile /\ fs'[p].kind = "map"
    \/ Overwrite /\ p = Executable /\ fs'[p].kind = "dragon" /\ fs'[p].of = fs[p].of
         /\ fs'[p].blocks = <<SingleBlock(blocks)>>

LEMMA OneWrote ==
    ASSUME DOMAIN fs = Paths, NEW q, NEW f, fs' = [fs EXCEPT ![q] = f],
           NEW p \in Paths
    PROVE  fs'[p] = IF p = q THEN f ELSE fs[p]
OBVIOUS

LEMMA StepWrote ==
    ASSUME DOMAIN fs = Paths, \A p \in Paths : IsFile(fs[p]), [Next]_vars, NEW p \in Paths
    PROVE  Wrote(p)
<1>1. CASE CreateAssemblyLanguageFile \/ EmissionFails \/ WarningsAreErrors
  <2>1. /\ pc = "emit"
        /\ \/ fs' = [fs EXCEPT ![EmittedFile] = File(EmittedKind, <<Input>>)]
           \/ \E f \in {fs[EmittedFile], Torn} : fs' = [fs EXCEPT ![EmittedFile] = f]
    BY <1>1 DEF CreateAssemblyLanguageFile, EmissionFails, WarningsAreErrors, Written, NotWritten
  <2>2. CASE fs' = [fs EXCEPT ![EmittedFile] = File(EmittedKind, <<Input>>)]
    BY <2>1, <2>2, OneWrote DEF Wrote
  <2>3. ASSUME NEW f \in {fs[EmittedFile], Torn}, fs' = [fs EXCEPT ![EmittedFile] = f]
        PROVE  Wrote(p)
    BY <2>3, OneWrote DEF Wrote
  <2> QED BY <2>1, <2>2, <2>3
<1>2. CASE WritePrerequisites
  <2>1. pc = "dependencies" /\ fs' = [fs EXCEPT ![DependenciesOf(Input)] = File("other", <<Input>>)]
    BY <1>2 DEF WritePrerequisites, Written
  <2> QED BY <2>1, OneWrote DEF Wrote
<1>3. CASE InvokeAssembler
  <2>1. fs'[p] = IF p = CompilationOutput(Input) THEN File("obj", fs[Assembled].of)
                 ELSE IF kept /\ p = ListingOf(Input) THEN File("other", fs[Assembled].of)
                 ELSE fs[p]
    BY <1>3 DEF InvokeAssembler
  <2> QED BY <2>1, <1>3 DEF Wrote
<1>4. CASE AssemblerFails
  <2>1. PICK f \in Spoiled(CompilationOutput(Input)) : fs' = [fs EXCEPT ![CompilationOutput(Input)] = f]
    BY <1>4 DEF AssemblerFails
  <2> QED BY <2>1, OneWrote DEF Wrote, Spoiled
<1>5. CASE RemoveFile
  <2>1. fs' = fs \/ fs' = [fs EXCEPT ![Head(toRemove)] = Absent]
    BY <1>5 DEF RemoveFile
  <2> QED BY <2>1, OneWrote DEF Wrote
<1>6. CASE CreateLinkScript
  <2> DEFINE f == [File("script", <<>>) EXCEPT
                    !.sections = LinkScript(command.platform, address.code, address.data)]
  <2>1. fs' = [fs EXCEPT ![LinkScriptFile] = f]
    BY <1>6 DEF CreateLinkScript, Written
  <2>2. f.kind = "script"
    BY DEF File
  <2> HIDE DEF f
  <2> QED BY <1>6, <2>1, <2>2, OneWrote DEF Wrote
<1>7. CASE CreateLinkScriptFails
  <2>1. PICK f \in {fs[LinkScriptFile], Torn} : fs' = [fs EXCEPT ![LinkScriptFile] = f]
    BY <1>7 DEF CreateLinkScriptFails, NotWritten
  <2> QED BY <2>1, OneWrote DEF Wrote
<1>8. CASE Lwlink
  <2> DEFINE X(bs) == [File("exe", Modules \o libraryFilenames) EXCEPT !.blocks = bs]
             m == [File("map", Modules) EXCEPT
                     !.end = ProgramEnd(fs[LinkScriptFile].sections, Modules)]
  <2>1. PICK bs \in IF command.platform = "DRAGON" THEN BlockLists ELSE {<<>>} :
               fs' = [fs EXCEPT ![Executable] = X(bs), ![MapFile] = m]
    BY <1>8 DEF Lwlink
  <2>2. X(bs).kind = "exe" /\ X(bs).blocks = bs /\ m.kind = "map"
    BY DEF File
  <2> HIDE DEF X, m
  <2>3. fs'[p] = IF p = MapFile THEN m ELSE IF p = Executable THEN X(bs) ELSE fs[p]
    BY <2>1
  <2> QED BY <1>8, <2>1, <2>2, <2>3 DEF Wrote
<1>9. CASE LwlinkFails
  <2>1. PICK e \in Spoiled(Executable), m \in Spoiled(MapFile) :
               fs' = [fs EXCEPT ![Executable] = e, ![MapFile] = m]
    BY <1>9 DEF LwlinkFails
  <2>2. fs'[p] = IF p = MapFile THEN m ELSE IF p = Executable THEN e ELSE fs[p]
    BY <2>1
  <2> QED BY <2>1, <2>2 DEF Wrote, Spoiled
<1>10. CASE Overwrite
  <2> DEFINE f == [fs[Executable] EXCEPT !.kind = "dragon", !.blocks = <<SingleBlock(blocks)>>]
  <2>1. fs' = [fs EXCEPT ![Executable] = f]
    BY <1>10 DEF Overwrite, Written
  <2>2. p = Executable => f.kind = "dragon" /\ f.of = fs[p].of /\ f.blocks = <<SingleBlock(blocks)>>
    BY DEF IsFile
  <2> HIDE DEF f
  <2> QED BY <1>10, <2>1, <2>2, OneWrote DEF Wrote
<1>11. CASE OverwriteFails
  <2>1. PICK f \in {fs[Executable], Torn} : fs' = [fs EXCEPT ![Executable] = f]
    BY <1>11 DEF OverwriteFails, NotWritten
  <2> QED BY <2>1, OneWrote DEF Wrote
<1>12. CASE \/ AllInputsTaken \/ InputRefused \/ TakeObject \/ TakeLibrary \/ TakeC \/ TakeAsm
           \/ PreprocessorFails \/ PreprocessOnly \/ Preprocess \/ ErrorsFound \/ Compile
           \/ PrerequisitesFail \/ Compiled \/ RefuseToRemove \/ Removed
           \/ CheckLinkingMap \/ MapUnreadable \/ ReadBlocks \/ BlocksUnreadable
           \/ UNCHANGED vars
  <2>1. fs' = fs
    BY <1>12 DEF AllInputsTaken, InputRefused, TakeObject, TakeLibrary, TakeC, TakeAsm,
                PreprocessorFails, PreprocessOnly, Preprocess, ErrorsFound, Compile,
                PrerequisitesFail, Compiled, RefuseToRemove, Removed, CheckLinkingMap,
                MapUnreadable, ReadBlocks, BlocksUnreadable, Keep, vars
  <2> QED BY <2>1 DEF Wrote
<1> QED BY <1>1, <1>2, <1>3, <1>4, <1>5, <1>6, <1>7, <1>8, <1>9, <1>10, <1>11, <1>12 DEF Next

\* Nothing of the command line changes.
LEMMA CommandStays == [Next]_vars => command' = command /\ given' = given
BY DEF Next, AllInputsTaken, InputRefused, TakeObject, TakeLibrary, TakeC, TakeAsm,
       PreprocessorFails, PreprocessOnly, Preprocess, ErrorsFound, Compile,
       CreateAssemblyLanguageFile, EmissionFails, WarningsAreErrors, WritePrerequisites,
       PrerequisitesFail, Compiled, InvokeAssembler, AssemblerFails, RemoveFile,
       RefuseToRemove, Removed, CreateLinkScript, CreateLinkScriptFails, Lwlink, LwlinkFails,
       CheckLinkingMap, MapUnreadable, ReadBlocks, BlocksUnreadable, Overwrite,
       OverwriteFails, Keep, vars

-----------------------------------------------------------------------------
(* The file of DragonDOS. *)

\* The executable has blocks that the linker made, these are read from it, and the
\* file has one block made of them where the command ends with success.
Loading ==
    command.platform = "DRAGON" =>
        /\ \A p \in Paths : fs[p].kind = "exe" => fs[p].blocks \in BlockLists
        /\ pc = "overwrite" => blocks \in BlockLists
        /\ pc = "done" /\ status = "success" /\ ~compileOnly =>
              blocks \in BlockLists /\ fs[Executable].blocks = <<SingleBlock(blocks)>>

LEMMA LoadingStep == IInv /\ Typed /\ Loading /\ [Next]_vars => Loading'
<1> SUFFICES ASSUME IInv, Typed, Loading, [Next]_vars, command.platform = "DRAGON"
             PROVE  Loading'
  BY CommandStays DEF Loading
<1>a. command' = command /\ DOMAIN fs = Paths /\ Executable \in Paths /\ command \in Commands
  BY CommandStays, ExecutableName DEF IInv, Control, Untouched
<1>b. Executable' = Executable /\ compileOnly' = compileOnly
  BY <1>a DEF Executable, ExecutableExtension, compileOnly
<1>c. /\ \A p \in Paths : fs[p].kind = "exe" => fs[p].blocks \in BlockLists
      /\ pc = "overwrite" => blocks \in BlockLists
      /\ pc = "done" /\ status = "success" /\ ~compileOnly =>
            blocks \in BlockLists /\ fs[Executable].blocks = <<SingleBlock(blocks)>>
  BY DEF Loading
<1>1. ASSUME NEW p \in Paths, fs'[p].kind = "exe" PROVE fs'[p].blocks \in BlockLists
  <2>1. Wrote(p)
    BY <1>a, StepWrote DEF Typed
  <2>2. Absent.kind # "exe" /\ Torn.kind # "exe" /\ EmittedKind # "exe"
    BY DEF Absent, Torn, File, EmittedKind
  <2>3. \A k, of : File(k, of).kind = k
    BY DEF File
  <2> QED BY <2>1, <2>2, <2>3, <1>1, <1>c DEF Wrote
<1>2. pc' = "overwrite" => blocks' \in BlockLists
  <2>1. pc' = "overwrite" => ReadBlocks \/ (blocks' = blocks /\ pc = "overwrite")
    BY DEF Next, AllInputsTaken, InputRefused, TakeObject, TakeLibrary, TakeC, TakeAsm,
       PreprocessorFails, PreprocessOnly, Preprocess, ErrorsFound, Compile,
       CreateAssemblyLanguageFile, EmissionFails, WarningsAreErrors, WritePrerequisites,
       PrerequisitesFail, Compiled, InvokeAssembler, AssemblerFails, RemoveFile, Removing,
       RefuseToRemove, Removed, CreateLinkScript, CreateLinkScriptFails, Lwlink, LwlinkFails,
       CheckLinkingMap, MapUnreadable, BlocksUnreadable, Overwrite,
       OverwriteFails, Keep, vars, ReturnFromC, ReturnFromAsm, ReturnFromAssembler, CompilationFails,
       NextInput, EndInputs, AfterClean, AfterUnlink, BeginUnlink, Finish
  <2>2. ReadBlocks => blocks' \in BlockLists
    BY <1>a, <1>c DEF ReadBlocks
  <2> QED BY <2>1, <2>2, <1>c
<1>3. ASSUME pc' = "done", status' = "success", ~compileOnly
      PROVE  blocks' \in BlockLists /\ fs'[Executable].blocks = <<SingleBlock(blocks')>>
  <2>1. Overwrite \/ UNCHANGED vars
    BY <1>3 DEF Next, AllInputsTaken, InputRefused, TakeObject, TakeLibrary, TakeC, TakeAsm,
       PreprocessorFails, PreprocessOnly, Preprocess, ErrorsFound, Compile,
       CreateAssemblyLanguageFile, EmissionFails, WarningsAreErrors, WritePrerequisites,
       PrerequisitesFail, Compiled, InvokeAssembler, AssemblerFails, RemoveFile, Removing,
       RefuseToRemove, Removed, CreateLinkScript, CreateLinkScriptFails, Lwlink, LwlinkFails,
       CheckLinkingMap, MapUnreadable, ReadBlocks, BlocksUnreadable,
       OverwriteFails, Keep, ReturnFromC, ReturnFromAsm, ReturnFromAssembler, CompilationFails,
       NextInput, EndInputs, AfterClean, AfterUnlink, BeginUnlink, Finish
  <2>2. CASE UNCHANGED vars
    BY <1>3, <1>c, <2>2 DEF vars
  <2>3. CASE Overwrite
    <3> DEFINE f == [fs[Executable] EXCEPT !.kind = "dragon", !.blocks = <<SingleBlock(blocks)>>]
    <3>1. fs' = [fs EXCEPT ![Executable] = f] /\ blocks' = blocks /\ pc = "overwrite"
      BY <2>3 DEF Overwrite, Written, Keep
    <3>2. f.blocks = <<SingleBlock(blocks)>>
      BY <1>a DEF Typed, IsFile
    <3> HIDE DEF f
    <3> QED BY <3>1, <3>2, <1>a, <1>c
  <2> QED BY <2>1, <2>2, <2>3
<1> QED BY <1>1, <1>2, <1>3, <1>a, <1>b DEF Loading

\* A block of 16-bit addresses and of bytes.
LEMMA BlocksAre ==
    ASSUME NEW bs \in BlockLists
    PROVE  AreBlocks(bs, Len(bs))
<1> DEFINE T == [address : 0..(AddressSpace - 1), contents : Seq(Bytes)]
<1>1. bs \in Seq(T)
  BY BlocksAssumption DEF Bytes
<1>2. \A b \in T : IsBlock(b)
  <2> SUFFICES ASSUME NEW b \in T PROVE IsBlock(b)
    OBVIOUS
  <2>1. b.address \in 0..(AddressSpace - 1) /\ b.contents \in Seq(Bytes)
    OBVIOUS
  <2>2. b.address \in Nat
    BY <2>1, AddressAssumption
  <2> QED BY <2>1, <2>2 DEF IsBlock
<1> HIDE DEF T
<1> QED BY <1>1, <1>2 DEF AreBlocks

LEMMA InitFiles ==
    ASSUME Init
    PROVE  DOMAIN fs = Paths /\ \A p \in Paths : fs[p].kind \in {"absent", "c", "asm", "obj", "other"}
<1>1. \A stale, p : Before(command, stale, p).kind \in {"absent", "c", "asm", "obj", "other"}
  BY DEF Before, Absent, File, SourceKind
<1>2. fs = given /\ \E stale \in Stale : given = [p \in Paths |-> Before(command, stale, p)]
  BY DEF Init
<1> QED BY <1>1, <1>2

\* The file that a command makes for DragonDOS loads the bytes that the blocks of the
\* executable would, at the addresses where they would: for any list of blocks that
\* the linker makes, in any order and overlapping or not, that end before the last
\* address (src/cmoc/src/main.cpp, formSingleBlock() and convertBinToDragonFormat()).
THEOREM DragonFileLoadsTheSame ==
    ASSUME BlocksEndInside
    PROVE  Spec => []DragonLoadsTheSame
<1>1. Init => Loading
  <2> SUFFICES ASSUME Init PROVE Loading
    OBVIOUS
  <2>1. \A p \in Paths : fs[p].kind # "exe"
    BY InitFiles
  <2> QED BY <2>1 DEF Init, Loading
<1>2. IInv /\ Typed /\ Loading /\ [Next]_vars => Loading'
  BY LoadingStep
<1>3. Loading => DragonLoadsTheSame
  <2> SUFFICES ASSUME Loading, Done, status = "success", ~compileOnly, command.platform = "DRAGON",
                      NEW a \in Covered(blocks)
               PROVE  LoadedAt(fs[Executable].blocks, a, 0) = LoadedAt(blocks, a, 0)
    BY DEF DragonLoadsTheSame
  <2>1. blocks \in BlockLists /\ fs[Executable].blocks = <<SingleBlock(blocks)>>
    BY DEF Loading, Done
  <2>2. AreBlocks(blocks, Len(blocks))
    BY <2>1, BlocksAre
  <2>3. \A i \in 1..Len(blocks) : blocks[i].address + Len(blocks[i].contents) < AddressSpace
    BY <2>1, <2>2 DEF BlocksEndInside, AreBlocks
  <2> QED BY <2>1, <2>2, <2>3, SingleBlockLoads
<1>4. Spec => []Loading
  BY <1>1, <1>2, Invariance, AlwaysTyped, PTL DEF Spec
<1> QED BY <1>3, <1>4, PTL

-----------------------------------------------------------------------------
(* The script that lays out a program, and its end. *)

\* Sections that are not placed and are not the end.
Inner(N) == {s \in [name : N, load : Int] : s.load = NoLoad /\ s.name # "program_end"}

\* The first section has an address, and the others go behind the ones before.
Growing(q, N, c) ==
    /\ q \in Seq([name : N, load : Int]) /\ Len(q) > 0 /\ q[1].load = c
    /\ q[1].name # "program_end" /\ \A i \in 2..Len(q) : q[i] \in Inner(N)

LEMMA Extending ==
    ASSUME NEW N, NEW c, NEW q, Growing(q, N, c), NEW r \in Seq(Inner(N))
    PROVE  Growing(q \o r, N, c)
<1> DEFINE T == [name : N, load : Int]
           S == Inner(N)
           t == q \o r
<1>1. S \subseteq T
  BY DEF Inner
<1>2. q \in Seq(T) /\ Len(q) > 0 /\ \A i \in 2..Len(q) : q[i] \in S
  BY DEF Growing
<1> HIDE DEF T, S
<1>3. /\ t \in Seq(T) /\ Len(t) = Len(q) + Len(r) /\ Len(q) \in Nat /\ Len(r) \in Nat
      /\ \A i \in 1..Len(q) : t[i] = q[i]
      /\ \A i \in 1..Len(r) : t[Len(q) + i] = r[i] /\ r[i] \in S
  <2>1. r \in Seq(S) /\ r \in Seq(T)
    BY <1>1 DEF S
  <2> QED BY <1>2, <2>1
<1> HIDE DEF t
<1>4. ASSUME NEW i \in 2..Len(t) PROVE t[i] \in S
  <2>1. CASE i <= Len(q)
    BY <2>1, <1>2, <1>3
  <2>2. CASE i > Len(q)
    <3>1. i - Len(q) \in 1..Len(r) /\ Len(q) + (i - Len(q)) = i
      BY <2>2, <1>3
    <3> QED BY <3>1, <1>3
  <2> QED BY <2>1, <2>2, <1>3
<1>5. t[1] = q[1] /\ Len(t) > 0
  BY <1>2, <1>3
<1>6. t \in Seq(T) /\ Len(t) > 0 /\ t[1] = q[1] /\ \A i \in 2..Len(t) : t[i] \in S
  BY <1>3, <1>4, <1>5
<1>7. q[1].load = c /\ q[1].name # "program_end"
  BY DEF Growing
<1> QED BY <1>6, <1>7 DEF Growing, T, S, t

SectionNames ==
    {"start", "code", "constructors_start", "constructors", "constructors_end",
     "destructors_start", "destructors", "destructors_end", "initgl_start", "initgl",
     "initgl_end", "rodata", "rwdata", "bss", "program_end"}

LEMMA InnerSections ==
    \A name \in SectionNames \ {"program_end"} : After(name) \in Inner(SectionNames)
BY DEF After, Placed, Inner, NoLoad

\* Where the data have no address, and no platform places them.
LEMMA ContiguousScript ==
    ASSUME NEW platform, platform # "OS9", NEW code \in Nat
    PROVE  \E q : /\ Growing(q, SectionNames, code)
                  /\ LinkScript(platform, code, NoAddress) = q \o <<After("program_end")>>
<1> DEFINE N == SectionNames
           a == <<Placed("start", code), After("code")>>
           w == <<After("rwdata"), After("bss")>>
           q == ((((a \o ConstructorSections) \o DestructorSections) \o InitGLSections)
                   \o <<After("rodata")>>)
           e == <<After("program_end")>>
<1>1. Growing(a, N, code)
  <2> DEFINE T == [name : N, load : Int]
             x == Placed("start", code)
             y == After("code")
  <2>1. x \in T /\ y \in T /\ y \in Inner(N) /\ x.load = code /\ x.name # "program_end"
    BY InnerSections DEF Placed, After, NoLoad, SectionNames
  <2> HIDE DEF T, x, y, N
  <2>2. <<x, y>> \in Seq(T) /\ Len(<<x, y>>) = 2 /\ <<x, y>>[1] = x /\ <<x, y>>[2] = y
    BY <2>1
  <2>3. \A i \in 2..2 : i = 2
    OBVIOUS
  <2> QED BY <2>1, <2>2, <2>3 DEF Growing, T, x, y
<1>2. /\ ConstructorSections \in Seq(Inner(N)) /\ DestructorSections \in Seq(Inner(N))
      /\ InitGLSections \in Seq(Inner(N)) /\ <<After("rodata")>> \in Seq(Inner(N))
      /\ w \in Seq(Inner(N))
  <2> DEFINE S == Inner(N)
             A(name) == After(name)
  <2>1. \A name \in N \ {"program_end"} : A(name) \in S
    BY InnerSections
  <2> HIDE DEF S, A
  <2>2. /\ <<A("constructors_start"), A("constructors"), A("constructors_end")>> \in Seq(S)
        /\ <<A("destructors_start"), A("destructors"), A("destructors_end")>> \in Seq(S)
        /\ <<A("initgl_start"), A("initgl"), A("initgl_end")>> \in Seq(S)
        /\ <<A("rodata")>> \in Seq(S) /\ <<A("rwdata"), A("bss")>> \in Seq(S)
    BY <2>1 DEF SectionNames
  <2> QED BY <2>2 DEF A, S, ConstructorSections, DestructorSections, InitGLSections
<1>3. LinkScript(platform, code, NoAddress) = q \o (w \o e)
  BY DEF LinkScript, Data
<1> HIDE DEF N, a, w, e
<1>4. Growing(q, N, code)
  BY <1>1, <1>2, Extending
<1> HIDE DEF q
<1>5. Growing(q \o w, N, code)
  BY <1>2, <1>4, Extending
<1>6. q \o (w \o e) = (q \o w) \o e
  <2> DEFINE T == [name : N, load : Int]
  <2>1. q \in Seq(T)
    BY <1>4 DEF Growing
  <2>2. w \in Seq(T) /\ e \in Seq(T)
    <3>1. After("rwdata") \in T /\ After("bss") \in T /\ After("program_end") \in T
      BY DEF After, Placed, NoLoad, N, SectionNames
    <3> HIDE DEF T
    <3> QED BY <3>1 DEF w, e
  <2> HIDE DEF T
  <2> QED BY <2>1, <2>2, ConcatAssociative
<1> QED BY <1>3, <1>5, <1>6 DEF N, e

\* The end of a program without an address for its data is behind all its sections.
LEMMA EndOfContiguous ==
    ASSUME NEW platform, platform # "OS9", NEW code \in Nat,
           NEW modules, NEW n \in Nat, DOMAIN modules = 1..n,
           \A i \in 1..n : modules[i][2] \in Bases
    PROVE  LET script == LinkScript(platform, code, NoAddress)
           IN  ProgramEnd(script, modules) = code + Total(SectionSizes(script, modules))
<1> DEFINE N == SectionNames
           script == LinkScript(platform, code, NoAddress)
           e == After("program_end")
           T == [name : N, load : Int]
<1>1. PICK q : Growing(q, N, code) /\ script = q \o <<e>>
  BY ContiguousScript
<1>2. e \in T /\ e.name = "program_end" /\ e.load = NoLoad
  BY DEF After, Placed, NoLoad, SectionNames
<1>3. /\ q \in Seq(T) /\ Len(q) > 0 /\ q[1].load = code /\ q[1].name # "program_end"
      /\ \A i \in 2..Len(q) : q[i] \in Inner(N)
  BY <1>1 DEF Growing
<1> HIDE DEF T, e, script
<1>4. /\ script \in Seq(T) /\ Len(script) = Len(q) + 1 /\ Len(q) \in Nat
      /\ script[Len(q) + 1] = e
      /\ \A i \in 1..Len(q) : script[i] = q[i]
  BY <1>1, <1>2, <1>3
<1>5. \A i \in 1..Len(q) : i = 1 \/ i \in 2..Len(q)
  BY <1>4
<1>6. \A i \in 1..(Len(script) - 1) : script[i].name # "program_end"
  <2>1. \A i \in 1..Len(q) : q[i].name # "program_end"
    BY <1>3, <1>5 DEF Inner
  <2>2. Len(script) - 1 = Len(q)
    BY <1>4
  <2> QED BY <2>1, <2>2, <1>4
<1>7. \A i \in 2..Len(script) : script[i].load = NoLoad
  <2>1. \A i \in 2..Len(script) : i \in 2..Len(q) \/ i = Len(q) + 1
    BY <1>4
  <2>2. \A i \in 2..Len(q) : script[i] = q[i] /\ q[i].load = NoLoad
    BY <1>3, <1>4 DEF Inner
  <2> QED BY <2>1, <2>2, <1>2, <1>4
<1>8. Len(script) > 1 /\ script[1].load = code /\ script[Len(script)].name = "program_end"
  BY <1>2, <1>3, <1>4
<1>9. \A name \in N : SizeOf(modules, name) \in Nat
  BY SizeIsNat
<1>10. SizeOf(modules, "program_end") = 0
  BY SizeIsNat
<1>11. script \in Seq([name : N, load : Int])
  BY <1>4 DEF T
<1> HIDE DEF N
<1>12. InARow(N, script, code)
  BY <1>6, <1>7, <1>8, <1>11 DEF InARow
<1>13. ProgramEnd(script, modules) = code + Total(SectionSizes(script, modules))
  BY <1>9, <1>10, <1>12, EndOfProgram
<1> QED BY <1>13 DEF script

-----------------------------------------------------------------------------
(* The modules of a program. *)

IsModule(m) == m[2] \in Bases /\ m[3] \in ModuleExtensions

\* What is assembly language or an object file was made of a module, and so are the
\* files that are linked.
Objects == {p \in Paths : p[2] \in Bases}
LibraryNames == {p \in Paths : p[3] \in {".a", "-l"}}
MadeOfModules ==
    /\ \A p \in Objects : fs[p].kind \in {"asm", "obj"} => IsModule(fs[p].of[1])
    /\ objectFilenames \in Seq(Objects) /\ libraryFilenames \in Seq(LibraryNames)

\* The input in hand is a module.
LEMMA ModuleInHand ==
    ASSUME Control, pc \in CStages \cup {"assemble"}
    PROVE  /\ Input \in Objects /\ IsModule(Input) /\ Assembled \in Objects
           /\ ModuleFile(Input, ".o") \in Objects
<1>1. /\ argi \in DOMAIN command.inputs /\ IsTranslated(Input) /\ command \in Commands
      /\ pc = "assemble" /\ IsCFile(Input) => asmFilename = AsmOf(argi)
      /\ pc \in CStages => asmFilename = AsmOf(argi)
  BY DEF Control, AtC
<1>2. Input \in Paths /\ Input[2] \in Bases /\ command.intdir \in Directories
  <2>1. command.inputs \in Seq(Directories \X Bases \X Extensions)
    BY <1>1, NamesAssumption
  <2> DEFINE N == Directories \X Bases \X Extensions
  <2>2. Input \in N
    <3> HIDE DEF N
    <3> QED BY <1>1, <2>1 DEF Input, N
  <2> QED BY <2>2, <1>1, Inputs DEF Paths
<1>3. IsModule(Input)
  BY <1>1, <1>2 DEF IsModule, ModuleExtensions, IsTranslated, IsCFile, IsAsmFile
<1>4. AsmOf(argi) \in Paths /\ AsmOf(argi)[2] = Input[2]
  <2> DEFINE s == ".s"
  <2>1. s \in Extensions
    BY Literals
  <2>2. AsmOf(argi) = UseIntDir(command.intdir, ModuleFile(Input, s))
    BY DEF AsmOf, Input
  <2> HIDE DEF s
  <2> QED BY <2>1, <2>2, <1>2, ReplacedAndPrefixed
<1>5. ModuleFile(Input, ".o") \in Paths /\ ModuleFile(Input, ".o")[2] = Input[2]
  <2> DEFINE s == ".o"
  <2>1. s \in Extensions
    BY Literals
  <2> HIDE DEF s
  <2>2. ModuleFile(Input, s) \in Paths /\ ModuleFile(Input, s)[2] = Input[2]
    BY <2>1, <1>2, Replaced
  <2> QED BY <2>2 DEF s
<1>6. Assembled \in {Input, AsmOf(argi)}
  <2>1. IsCFile(Input) => asmFilename = AsmOf(argi)
    BY <1>1
  <2> QED BY <2>1 DEF Assembled
<1> QED BY <1>2, <1>3, <1>4, <1>5, <1>6 DEF Objects

LEMMA ModulesStep == IInv /\ Typed /\ MadeOfModules /\ [Next]_vars => MadeOfModules'
<1> SUFFICES ASSUME Control, Untouched, Typed, MadeOfModules, [Next]_vars PROVE MadeOfModules'
  BY DEF IInv
<1>a. command' = command /\ DOMAIN fs = Paths /\ command \in Commands
  BY CommandStays DEF Control, Untouched
<1>b. \A k, of : File(k, of).kind = k /\ File(k, of).of = of
  BY DEF File
<1>1. ASSUME NEW p \in Objects, fs'[p].kind \in {"asm", "obj"} PROVE IsModule(fs'[p].of[1])
  <2>1. Wrote(p) /\ p \in Paths
    BY <1>a, <1>1, StepWrote DEF Typed, Objects
  <2>2. Absent.kind = "absent" /\ Torn.kind = "torn"
    BY DEF Absent, Torn, File
  <2>3. CASE fs'[p] = fs[p]
    BY <2>3, <1>1 DEF MadeOfModules
  <2>4. CASE pc = "emit" /\ fs'[p] = File(EmittedKind, <<Input>>)
    <3>1. IsModule(Input)
      BY <2>4, ModuleInHand DEF CStages
    <3> QED BY <3>1, <2>4, <1>b
  <2>5. CASE InvokeAssembler /\ fs'[p] = File("obj", fs[Assembled].of)
    <3>1. pc = "assemble" /\ fs[Assembled].kind = "asm" /\ Assembled \in Objects
      BY <2>5, ModuleInHand DEF InvokeAssembler
    <3>2. IsModule(fs[Assembled].of[1])
      BY <3>1 DEF MadeOfModules
    <3> QED BY <3>2, <2>5, <1>b
  <2>6. CASE fs'[p].kind \in {"absent", "torn", "other", "script", "exe", "map", "dragon"}
    BY <2>6, <1>1
  <2> QED BY <2>1, <2>2, <2>3, <2>4, <2>5, <2>6, <1>b DEF Wrote
<1>2. objectFilenames' \in Seq(Objects) /\ libraryFilenames' \in Seq(LibraryNames)
  <2>0. objectFilenames \in Seq(Objects) /\ libraryFilenames \in Seq(LibraryNames)
    BY DEF MadeOfModules
  <2>1. CASE TakeObject \/ TakeLibrary
    <3>1. argi \in DOMAIN command.inputs
      BY <2>1, <1>a, Inputs DEF TakeObject, TakeLibrary, AtInput, Control
    <3>2. Input \in Objects
      <4> DEFINE N == Directories \X Bases \X Extensions
      <4>1. command.inputs \in Seq(N)
        BY <1>a, NamesAssumption
      <4>2. Input \in N
        <5> HIDE DEF N
        <5> QED BY <4>1, <3>1 DEF Input
      <4>3. Input \in Paths
        BY <3>1, <1>a, Inputs DEF Input
      <4> QED BY <4>2, <4>3 DEF Objects
    <3>3. TakeLibrary => Input \in LibraryNames
      BY <3>2 DEF TakeLibrary, IsLibraryOption, LibraryNames, Objects
    <3>4. /\ objectFilenames' \in {objectFilenames, Append(objectFilenames, Input)}
          /\ libraryFilenames' = libraryFilenames \/ (TakeLibrary /\ libraryFilenames' = Append(libraryFilenames, Input))
      BY <2>1 DEF TakeObject, TakeLibrary, Keep
    <3>5. Append(objectFilenames, Input) \in Seq(Objects)
      BY <2>0, <3>2, Appending
    <3>6. TakeLibrary => Append(libraryFilenames, Input) \in Seq(LibraryNames)
      BY <2>0, <3>3, Appending
    <3> QED BY <2>0, <3>4, <3>5, <3>6
  <2>2. CASE \/ PreprocessorFails \/ PreprocessOnly \/ ErrorsFound \/ EmissionFails
             \/ WarningsAreErrors \/ PrerequisitesFail \/ Compiled
             \/ InvokeAssembler \/ AssemblerFails
    <3>1. pc \in CStages \cup {"assemble"}
      BY <2>2 DEF PreprocessorFails, PreprocessOnly, ErrorsFound, EmissionFails,
                  WarningsAreErrors, PrerequisitesFail, Compiled, InvokeAssembler,
                  AssemblerFails, CStages
    <3>2. PICK ok \in BOOLEAN : ReturnFromC(ok) \/ ReturnFromAsm(ok)
      BY <2>2, Returns
    <3> DEFINE m == ModuleFile(Input, ".o")
    <3>3. /\ objectFilenames' \in {objectFilenames, Append(objectFilenames, m)}
          /\ libraryFilenames' = libraryFilenames
      BY <3>2 DEF ReturnFromC, ReturnFromAsm
    <3>4. m \in Objects
      BY <3>1, ModuleInHand
    <3> HIDE DEF m
    <3>5. Append(objectFilenames, m) \in Seq(Objects)
      BY <2>0, <3>4, Appending
    <3> QED BY <2>0, <3>3, <3>5
  <2>3. CASE \/ AllInputsTaken \/ InputRefused \/ TakeC \/ TakeAsm \/ Preprocess \/ Compile
             \/ CreateAssemblyLanguageFile \/ WritePrerequisites
             \/ RemoveFile \/ RefuseToRemove \/ Removed
             \/ CreateLinkScript \/ CreateLinkScriptFails \/ Lwlink \/ LwlinkFails
             \/ CheckLinkingMap \/ MapUnreadable
             \/ ReadBlocks \/ BlocksUnreadable \/ Overwrite \/ OverwriteFails
             \/ UNCHANGED vars
    <3>1. objectFilenames' = objectFilenames /\ libraryFilenames' = libraryFilenames
      BY <2>3 DEF AllInputsTaken, InputRefused, TakeC, TakeAsm, Preprocess, Compile,
           CreateAssemblyLanguageFile, WritePrerequisites, RemoveFile,
           RefuseToRemove, Removed, CreateLinkScript, CreateLinkScriptFails, Lwlink, LwlinkFails,
           CheckLinkingMap, MapUnreadable, ReadBlocks, BlocksUnreadable, Overwrite,
           OverwriteFails, Keep, lists, vars
    <3> QED BY <3>1, <2>0
  <2> QED BY <2>1, <2>2, <2>3 DEF Next
<1> QED BY <1>1, <1>2 DEF MadeOfModules

\* The modules that the linker is told to link are modules, and libraries are none.
LEMMA ModulesLinked ==
    ASSUME Control, MadeOfModules, Lwlink
    PROVE  /\ DOMAIN Modules = 1..Len(objectFilenames) /\ Len(objectFilenames) \in Nat
           /\ \A i \in DOMAIN Modules : IsModule(Modules[i])
           /\ OfExtensions(Modules \o libraryFilenames, ModuleExtensions) = Modules
<1> DEFINE n == Len(objectFilenames)
           os == objectFilenames
           L == libraryFilenames
           M == Modules
           X == ModuleExtensions
           T == {M[i] : i \in 1..n} \cup LibraryNames
<1>1. /\ n \in Nat /\ DOMAIN os = 1..n /\ \A i \in 1..n : os[i] \in Objects
      /\ L \in Seq(LibraryNames)
  BY DEF MadeOfModules
<1>2. DOMAIN M = 1..n /\ \A i \in 1..n : M[i] = fs[ObjectsToLink[i]].of[1]
  BY <1>1 DEF Modules
<1>3. ASSUME NEW i \in 1..n PROVE IsModule(M[i])
  <2> DEFINE o == UseIntDir(command.intdir, os[i])
  <2>1. command.intdir \in Directories /\ os[i] \in Paths /\ os[i][2] \in Bases
    BY <1>1, Inputs DEF Control, Objects
  <2>2. o \in Paths /\ o[2] = os[i][2]
    BY <2>1, Prefixed
  <2>3. ObjectsToLink[i] = o
    BY <1>1 DEF ObjectsToLink
  <2>4. fs[ObjectsToLink[i]].kind = "obj"
    BY <1>1 DEF Lwlink
  <2> HIDE DEF o
  <2> QED BY <2>1, <2>2, <2>3, <2>4, <1>2 DEF MadeOfModules, Objects
<1>4. M \in Seq(T) /\ Len(M) = n /\ L \in Seq(T)
  <2>1. M = [i \in 1..n |-> M[i]]
    BY <1>1 DEF Modules
  <2> HIDE DEF M
  <2>2. M \in Seq(T) /\ Len(M) = n
    BY <2>1, <1>1
  <2>3. L \in Seq(T)
    BY <1>1
  <2> QED BY <2>2, <2>3
<1> DEFINE c == M \o L
<1> HIDE DEF T, M, n
<1>5. /\ c \in Seq(T) /\ Len(c) = n + Len(L) /\ Len(L) \in Nat
      /\ \A i \in 1..n : c[i] = M[i]
      /\ \A i \in 1..Len(L) : c[n + i] = L[i]
  BY <1>1, <1>4
<1>6. SubSeq(c, 1, n) = M
  BY <1>1, <1>4
<1> HIDE DEF c
<1>7. \A k \in 1..n : c[k][3] \in X
  BY <1>3, <1>5 DEF IsModule
<1>8. ASSUME NEW k \in (n + 1)..Len(c) PROVE c[k][3] \notin X
  <2>1. PICK j \in 1..Len(L) : k = n + j
    <3>1. k - n \in 1..Len(L) /\ n + (k - n) = k
      BY <1>1, <1>5
    <3> QED BY <3>1
  <2>2. c[k] = L[j] /\ L[j] \in LibraryNames
    BY <2>1, <1>1, <1>5
  <2> QED BY <2>2 DEF LibraryNames, ModuleExtensions
<1> HIDE DEF X
<1>9. n \in 0..Len(c)
  BY <1>1, <1>5
<1>10. OfExtensions(c, X) = SubSeq(c, 1, n)
  BY <1>5, <1>7, <1>8, <1>9, ChosenFirst
<1> QED BY <1>1, <1>2, <1>3, <1>6, <1>10 DEF c, M, X, n

-----------------------------------------------------------------------------
(* What is left of a program that is refused. *)

HasProgram == fs[Executable].kind \in {"exe", "dragon"}
GoodProgram ==
    /\ DefinedTwice(ProgramModules) = {}
    /\ Contiguous => ~ExceedsLimit(address.limit, address.code + WholeSize)
Script == LinkScript(command.platform, address.code, address.data)

\* The map is that of the program.
AsLinked ==
    /\ fs[MapFile].of = ProgramModules /\ fs[MapFile].end = ProgramEnd(Script, ProgramModules)
    /\ DOMAIN ProgramModules = 1..Len(objectFilenames) /\ Len(objectFilenames) \in Nat
    /\ \A i \in DOMAIN ProgramModules : IsModule(ProgramModules[i])

\* No program is there before it is linked, its map is checked, one that is refused is
\* removed or it is said that it was not, and one that is not refused stays as it is.
Checked ==
    /\ InLoop \/ pc \in {"clean", "script", "link"} =>
          \A p \in Paths : fs[p].kind \notin {"exe", "dragon"}
    /\ pc = "link" => fs[LinkScriptFile].sections = Script
    /\ pc = "check_map" /\ HasProgram => AsLinked
    /\ pc = "drop" =>
          toRemove = <<Executable>> \/ (toRemove = <<>> /\ (~warned => ~HasProgram))
    /\ pc = "overwrite" => HasProgram
    /\ pc \in {"unlink", "read_blocks", "overwrite", "done"} /\ ~compileOnly /\ ~warned /\ HasProgram =>
          GoodProgram

\* A program whose map is good is good: checkLinkingMap() excuses a name that a static
\* symbol has, and the end of the program is behind all its sections.
LEMMA GoodMap ==
    ASSUME StaticsHideNothing, Typed, AsLinked, MapIsGood
    PROVE  GoodProgram
<1> DEFINE P == ProgramModules
           n == Len(objectFilenames)
<1>1. /\ DOMAIN P = 1..n /\ n \in Nat /\ \A i \in 1..n : P[i][2] \in Bases
      /\ fs[MapFile].of = P /\ fs[MapFile].end = ProgramEnd(Script, P)
      /\ MultipleDefinitions(P) = {} /\ ~ExceedsLimit(address.limit, ProgramEnd(Script, P))
  BY DEF AsLinked, MapIsGood, IsModule
<1> HIDE DEF P, n
<1>2. ASSUME NEW sym \in DefinedTwice(P) PROVE FALSE
  <2>1. PICK i \in DOMAIN P : sym \in Defines[P[i][2]]
    BY DEF DefinedTwice
  <2>2. \A j \in DOMAIN P : sym \notin Statics[P[j][2]]
    BY <2>1, <1>1 DEF StaticsHideNothing
  <2>3. sym \in MultipleDefinitions(P)
    BY <2>2 DEF MultipleDefinitions
  <2> QED BY <2>3, <1>1
<1>3. ASSUME Contiguous PROVE ProgramEnd(Script, P) = address.code + WholeSize
  <2> DEFINE k == address.code
  <2>1. k \in Nat /\ command.platform # "OS9" /\ Script = LinkScript(command.platform, k, NoAddress)
    <3>1. k \in 0..NoAddress
      BY DEF Typed, Addresses
    <3>2. address.data = NoAddress /\ command.platform # "OS9"
      BY <1>3 DEF Contiguous
    <3> HIDE DEF k
    <3>3. Script = LinkScript(command.platform, k, NoAddress)
      BY <3>2 DEF Script, k
    <3> QED BY <3>1, <3>2, <3>3 DEF NoAddress
  <2> HIDE DEF k
  <2>2. ProgramEnd(LinkScript(command.platform, k, NoAddress), P)
          = k + Total(SectionSizes(LinkScript(command.platform, k, NoAddress), P))
    BY <2>1, <1>1, EndOfContiguous
  <2>3. WholeSize = Total(SectionSizes(Script, P))
    BY DEF WholeSize, SectionSizes, Script, P
  <2> QED BY <2>1, <2>2, <2>3 DEF k
<1> QED BY <1>1, <1>2, <1>3 DEF GoodProgram, P


LEMMA CheckedStep ==
    ASSUME StaticsHideNothing, IInv, Typed, Noting, MadeOfModules, Checked, [Next]_vars
    PROVE  Checked'
<1>a. /\ command' = command /\ DOMAIN fs = Paths /\ Executable \in Paths /\ command \in Commands
      /\ Executable' = Executable /\ MapFile' = MapFile /\ LinkScriptFile' = LinkScriptFile
      /\ compileOnly' = compileOnly
  <2>1. command' = command
    BY CommandStays
  <2> QED BY <2>1, ProductsStay, ExecutableName DEF IInv, Control, Untouched, Executable, ExecutableExtension
<1>b. \A k, of : File(k, of).kind = k
  BY DEF File
<1>c. ASSUME fs' = fs, address' = address, objectFilenames' = objectFilenames
      PROVE  /\ HasProgram' = HasProgram /\ GoodProgram' = GoodProgram /\ AsLinked' = AsLinked
             /\ Script' = Script
  BY <1>a, <1>c DEF HasProgram, GoodProgram, AsLinked, Script, ProgramModules, Contiguous, WholeSize
<1>d. ASSUME fs'[Executable].of = fs[Executable].of, address' = address
      PROVE  GoodProgram' = GoodProgram
  BY <1>a, <1>d DEF GoodProgram, ProgramModules, Contiguous, WholeSize
\* The loop, and what comes before the linker.
<1>1. ASSUME InLoop \/ pc = "clean", ~RefuseToRemove PROVE Checked'
  <2>1. \A p \in Paths : fs[p].kind \notin {"exe", "dragon"}
    BY <1>1 DEF Checked
  <2>2. \A p \in Paths : fs'[p].kind \notin {"exe", "dragon"}
    <3> SUFFICES ASSUME NEW p \in Paths PROVE fs'[p].kind \notin {"exe", "dragon"}
      OBVIOUS
    <3>1. Wrote(p)
      BY <1>a, StepWrote DEF Typed
    <3>2. Absent.kind = "absent" /\ Torn.kind = "torn" /\ EmittedKind \in {"json", "asm"}
      BY <1>b DEF Absent, Torn, EmittedKind
    <3>3. ~Lwlink /\ ~Overwrite
      BY <1>1 DEF InLoop, CStages, Lwlink, Overwrite
    <3> QED BY <3>1, <3>2, <3>3, <2>1, <1>b DEF Wrote
  <2>3. pc' \in CStages \cup {"input", "assemble", "clean", "script", "done"}
    BY <1>1 DEF InLoop, CStages, Next, AllInputsTaken, InputRefused, TakeObject, TakeLibrary, TakeC, TakeAsm,
       PreprocessorFails, PreprocessOnly, Preprocess, ErrorsFound, Compile,
       CreateAssemblyLanguageFile, EmissionFails, WarningsAreErrors, WritePrerequisites,
       PrerequisitesFail, Compiled, InvokeAssembler, AssemblerFails, RemoveFile,
       Removed, CreateLinkScript, CreateLinkScriptFails, Lwlink, LwlinkFails,
       CheckLinkingMap, MapUnreadable, ReadBlocks, BlocksUnreadable, Overwrite,
       OverwriteFails, Keep, vars, ReturnFromC, ReturnFromAsm, ReturnFromAssembler, CompilationFails,
       NextInput, EndInputs, AfterClean
  <2>4. ~HasProgram'
    BY <2>2, <1>a DEF HasProgram
  <2> QED BY <2>2, <2>3, <2>4 DEF Checked, CStages
\* The linker.
<1>2. CASE CreateLinkScript \/ CreateLinkScriptFails \/ LwlinkFails
  <2>0. pc \in {"script", "link"} /\ \A p \in Paths : fs[p].kind \notin {"exe", "dragon"}
    BY <1>2 DEF CreateLinkScript, CreateLinkScriptFails, LwlinkFails, Checked
  <2>1. \A p \in Paths : fs'[p].kind \notin {"exe", "dragon"}
    <3> SUFFICES ASSUME NEW p \in Paths PROVE fs'[p].kind \notin {"exe", "dragon"}
      OBVIOUS
    <3>1. Wrote(p)
      BY <1>a, StepWrote DEF Typed
    <3>2. Absent.kind = "absent" /\ Torn.kind = "torn" /\ EmittedKind \in {"json", "asm"}
      BY <1>b DEF Absent, Torn, EmittedKind
    <3>3. ~Overwrite
      BY <2>0 DEF Overwrite
    <3>4. ~Lwlink
      BY <1>2 DEF Lwlink, CreateLinkScript, CreateLinkScriptFails, LwlinkFails, BeginUnlink
    <3> QED BY <3>1, <3>2, <3>3, <3>4, <2>0, <1>b DEF Wrote
  <2>2. ~HasProgram'
    BY <2>1, <1>a DEF HasProgram
  <2>3. pc' = "link" => fs'[LinkScriptFile].sections = Script'
    <3> SUFFICES ASSUME CreateLinkScript PROVE fs'[LinkScriptFile].sections = Script'
      BY <1>2 DEF CreateLinkScriptFails, LwlinkFails, BeginUnlink
    <3>1. fs' = [fs EXCEPT ![LinkScriptFile] = [File("script", <<>>) EXCEPT !.sections = Script]]
      BY DEF CreateLinkScript, Written, Script
    <3>2. address' = address
      BY DEF CreateLinkScript, Keep
    <3>3. Script' = Script
      BY <3>2, <1>a DEF Script
    <3>4. [File("script", <<>>) EXCEPT !.sections = Script].sections = Script
      BY DEF File
    <3>5. LinkScriptFile \in Paths
      BY <2>0, LinkedFiles DEF IInv, Control, LinkStages, Mine
    <3> QED BY <3>1, <3>3, <3>4, <3>5, <1>a
  <2>4. pc' \in {"link", "unlink"}
    BY <1>2 DEF CreateLinkScript, CreateLinkScriptFails, LwlinkFails, BeginUnlink
  <2> QED BY <2>1, <2>2, <2>3, <2>4, <1>a DEF Checked
<1>3. CASE Lwlink
  <2> DEFINE M == Modules
             X(bs) == [File("exe", M \o libraryFilenames) EXCEPT !.blocks = bs]
             m == [File("map", M) EXCEPT !.end = ProgramEnd(fs[LinkScriptFile].sections, M)]
  <2>1. PICK bs \in IF command.platform = "DRAGON" THEN BlockLists ELSE {<<>>} :
               fs' = [fs EXCEPT ![Executable] = X(bs), ![MapFile] = m]
    BY <1>3 DEF Lwlink
  <2>2. /\ X(bs).of = M \o libraryFilenames /\ m.of = M /\ m.kind = "map"
        /\ m.end = ProgramEnd(fs[LinkScriptFile].sections, M)
    BY DEF File
  <2> HIDE DEF X, m
  <2>3. pc = "link" /\ pc' = "check_map" /\ address' = address /\ objectFilenames' = objectFilenames
    BY <1>3 DEF Lwlink, Keep, lists
  <2>4. fs[LinkScriptFile].sections = Script /\ Script' = Script
    BY <2>3, <1>a DEF Checked, Script
  <2>5. MapFile \in Paths
    BY <2>3, LinkedFiles DEF IInv, Control, LinkStages, Mine
  <2>6. fs'[MapFile] = m /\ (Executable # MapFile => fs'[Executable] = X(bs))
    BY <2>1, <2>5, <1>a
  <2>7. ASSUME HasProgram' PROVE AsLinked'
    <3>1. Executable # MapFile
      BY <2>7, <2>6, <2>2, <1>a DEF HasProgram
    <3>2. ProgramModules' = M
      BY <3>1, <2>2, <2>6, <1>3, <1>a, ModulesLinked DEF ProgramModules, IInv
    <3>3. fs'[MapFile].of = M /\ fs'[MapFile].end = ProgramEnd(Script, M)
      BY <2>2, <2>4, <2>6
    <3>4. /\ DOMAIN M = 1..Len(objectFilenames) /\ Len(objectFilenames) \in Nat
          /\ \A i \in DOMAIN M : IsModule(M[i])
      BY <1>3, ModulesLinked DEF IInv
    <3> HIDE DEF M
    <3> QED BY <3>2, <3>3, <3>4, <2>3, <2>4, <1>a DEF AsLinked
  <2> QED BY <2>3, <2>7 DEF Checked, InLoop, CStages
<1>4. CASE CheckLinkingMap \/ MapUnreadable
  <2>1. pc = "check_map" /\ fs' = fs /\ address' = address /\ objectFilenames' = objectFilenames
    BY <1>4 DEF CheckLinkingMap, MapUnreadable, Keep, lists
  <2>2. HasProgram /\ MapIsGood => GoodProgram
    BY <2>1, GoodMap DEF Checked
  <2>3. \/ pc' = "unlink" /\ warned'
        \/ pc' = "unlink" /\ MapIsGood
        \/ pc' = "drop" /\ toRemove' = <<Executable>>
    BY <1>4 DEF CheckLinkingMap, MapUnreadable, BeginUnlink, RefusedRemoved, Keep
  <2> QED BY <2>1, <2>2, <2>3, <1>a, <1>c DEF Checked, InLoop, CStages
\* After it.
<1>5. CASE RemoveFile
  <2> DEFINE h == Head(toRemove)
  <2>1. /\ pc' = pc /\ address' = address /\ toRemove' = Tail(toRemove) /\ toRemove # <<>>
        /\ pc \in {"clean", "drop", "unlink"}
        /\ \/ fs' = [fs EXCEPT ![h] = Absent] /\ warned' = warned
           \/ fs' = fs /\ warned' = TRUE
    BY <1>5 DEF RemoveFile, Removing, Keep
  <2>2. CASE pc = "clean"
    BY <2>2, <1>1, <1>5 DEF RemoveFile, RefuseToRemove
  <2>3. CASE pc = "drop"
    <3>1. toRemove = <<Executable>> /\ toRemove' = <<>> /\ h = Executable
      BY <2>1, <2>3 DEF Checked
    <3>2. ~warned' => ~HasProgram'
      <4>1. Absent.kind = "absent"
        BY <1>b DEF Absent
      <4> HIDE DEF h
      <4> QED BY <2>1, <3>1, <4>1, <1>a DEF HasProgram
    <3> QED BY <2>1, <2>3, <3>1, <3>2 DEF Checked, InLoop, CStages
  <2>4. CASE pc = "unlink"
    <3>1. ASSUME ~warned', HasProgram' PROVE HasProgram /\ ~warned /\ fs'[Executable] = fs[Executable]
      <4>1. Absent.kind = "absent"
        BY <1>b DEF Absent
      <4> HIDE DEF h
      <4> QED BY <2>1, <3>1, <4>1, <1>a DEF HasProgram
    <3>2. ASSUME ~warned', HasProgram', ~compileOnly PROVE GoodProgram'
      BY <3>1, <3>2, <2>1, <2>4, <1>d DEF Checked
    <3> QED BY <2>1, <2>4, <3>2, <1>a DEF Checked, InLoop, CStages
  <2> QED BY <2>1, <2>2, <2>3, <2>4
<1>6. CASE RefuseToRemove
  <2>1. pc' = "done" /\ warned'
    BY <1>6 DEF RefuseToRemove
  <2> QED BY <2>1 DEF Checked, InLoop, CStages
<1>7. CASE Removed /\ pc # "clean"
  <2>1. /\ fs' = fs /\ address' = address /\ objectFilenames' = objectFilenames /\ warned' = warned
        /\ toRemove = <<>>
        /\ \/ pc = "drop" /\ pc' = "unlink"
           \/ pc = "unlink" /\ pc' \in {"read_blocks", "done"}
    BY <1>7 DEF Removed, Removing, BeginUnlink, AfterUnlink, Keep, lists
  <2>2. pc = "drop" /\ ~warned => ~HasProgram
    BY <2>1 DEF Checked
  <2> QED BY <2>1, <2>2, <1>a, <1>c DEF Checked, InLoop, CStages
<1>8. CASE ReadBlocks \/ BlocksUnreadable
  <2>1. /\ fs' = fs /\ address' = address /\ objectFilenames' = objectFilenames /\ warned' = warned
        /\ pc = "read_blocks"
        /\ pc' = "done" \/ (pc' = "overwrite" /\ HasProgram)
    BY <1>8 DEF ReadBlocks, BlocksUnreadable, Finish, Keep, lists, HasProgram
  <2> QED BY <2>1, <1>a, <1>c DEF Checked, InLoop, CStages
<1>9. CASE Overwrite \/ OverwriteFails
  <2>1. pc = "overwrite" /\ pc' = "done" /\ address' = address /\ warned' = warned
    BY <1>9 DEF Overwrite, OverwriteFails, Finish, Keep
  <2>2. fs'[Executable].of = fs[Executable].of \/ ~HasProgram'
    <3>1. CASE Overwrite
      <4> DEFINE f == [fs[Executable] EXCEPT !.kind = "dragon", !.blocks = <<SingleBlock(blocks)>>]
      <4>1. fs' = [fs EXCEPT ![Executable] = f]
        BY <3>1 DEF Overwrite, Written
      <4>2. f.of = fs[Executable].of
        BY <1>a DEF Typed, IsFile
      <4> HIDE DEF f
      <4> QED BY <4>1, <4>2, <1>a
    <3>2. CASE OverwriteFails
      <4>1. PICK f \in {fs[Executable], Torn} : fs' = [fs EXCEPT ![Executable] = f]
        BY <3>2 DEF OverwriteFails, NotWritten
      <4>2. Torn.kind = "torn"
        BY <1>b DEF Torn
      <4> QED BY <4>1, <4>2, <1>a DEF HasProgram
    <3> QED BY <1>9, <3>1, <3>2
  <2> QED BY <2>1, <2>2, <1>a, <1>d DEF Checked, InLoop, CStages
<1>10. CASE UNCHANGED vars
  <2>1. /\ fs' = fs /\ address' = address /\ objectFilenames' = objectFilenames /\ warned' = warned
        /\ pc' = pc /\ toRemove' = toRemove
    BY <1>10 DEF vars, lists
  <2> QED BY <2>1, <1>a, <1>c DEF Checked, InLoop, CStages
<1>11. CASE \/ AllInputsTaken \/ InputRefused \/ TakeObject \/ TakeLibrary \/ TakeC \/ TakeAsm
            \/ PreprocessorFails \/ PreprocessOnly \/ Preprocess \/ ErrorsFound \/ Compile
            \/ CreateAssemblyLanguageFile \/ EmissionFails \/ WarningsAreErrors
            \/ WritePrerequisites \/ PrerequisitesFail \/ Compiled
            \/ InvokeAssembler \/ AssemblerFails \/ (Removed /\ pc = "clean")
  <2>1. InLoop \/ pc = "clean"
    BY <1>11 DEF InLoop, CStages, AllInputsTaken, InputRefused, TakeObject, TakeLibrary, TakeC, TakeAsm,
       PreprocessorFails, PreprocessOnly, Preprocess, ErrorsFound, Compile, AtInput,
       CreateAssemblyLanguageFile, EmissionFails, WarningsAreErrors, WritePrerequisites,
       PrerequisitesFail, Compiled, InvokeAssembler, AssemblerFails
  <2> QED BY <2>1, <1>1, <1>6
<1> QED BY <1>2, <1>3, <1>4, <1>5, <1>6, <1>7, <1>8, <1>9, <1>10, <1>11 DEF Next

LEMMA InitMadeOfModules == Init => MadeOfModules
<1> SUFFICES ASSUME Init PROVE MadeOfModules
  OBVIOUS
<1>1. /\ objectFilenames = <<>> /\ libraryFilenames = <<>> /\ fs = given
      /\ \E stale \in Stale : given = [p \in Paths |-> Before(command, stale, p)]
  BY DEF Init
<1>2. PICK stale : \A p \in Paths : fs[p] = Before(command, stale, p)
  BY <1>1
<1>3. ASSUME NEW p \in Objects, fs[p].kind \in {"asm", "obj"} PROVE IsModule(fs[p].of[1])
  <2>1. p \in Paths /\ p[2] \in Bases /\ fs[p] = Before(command, stale, p)
    BY <1>2 DEF Objects
  <2> DEFINE old == <<"old", p[2], p[3]>>
  <2>2. /\ fs[p] \in {Absent, File(SourceKind(p[3]), <<p>>), File(SourceKind(p[3]), <<old>>)}
        /\ old[2] = p[2] /\ old[3] = p[3]
    BY <2>1 DEF Before
  <2> HIDE DEF old
  <2>3. \A k, q : File(k, <<q>>).kind = k /\ File(k, <<q>>).of[1] = q
    BY DEF File
  <2>4. Absent.kind = "absent"
    BY DEF Absent, File
  <2>5. SourceKind(p[3]) \in {"asm", "obj"} => p[3] \in ModuleExtensions
    BY DEF SourceKind, ModuleExtensions
  <2> QED BY <2>1, <2>2, <2>3, <2>4, <2>5, <1>3 DEF IsModule
<1> QED BY <1>1, <1>3 DEF MadeOfModules

\* No command leaves a program that it refused, where its map could be read and it could
\* be removed, and none that goes beyond the limit or defines a name twice is not refused:
\* for any modules, sizes, addresses and pragmas, where no static symbol of one module has
\* the name of a symbol with external linkage, which checkLinkingMap() would excuse.
THEOREM BadExecutablesAreNotLeft ==
    ASSUME StaticsHideNothing
    PROVE  Spec => []NoBadExecutable
<1>1. Init => Checked /\ Noting /\ MadeOfModules
  <2> SUFFICES ASSUME Init PROVE Checked /\ Noting /\ MadeOfModules
    OBVIOUS
  <2>1. \A p \in Paths : fs[p].kind \notin {"exe", "dragon"}
    BY InitFiles
  <2>2. pc = "input" /\ intermediateObjectFiles = <<>> /\ status = "success"
    BY DEF Init
  <2>3. Checked
    BY <2>1, <2>2 DEF Checked
  <2>4. Noting
    BY <2>2, RangeOfFew DEF Noting, LinkStages
  <2> QED BY <2>3, <2>4, InitMadeOfModules
<1>2. IInv /\ Typed /\ Noting /\ MadeOfModules /\ Checked /\ [Next]_vars
        => Noting' /\ MadeOfModules' /\ Checked'
  BY NotingStep, ModulesStep, CheckedStep
<1>3. Checked => NoBadExecutable
  BY DEF Checked, NoBadExecutable, Done, HasProgram, GoodProgram
<1>4. Spec => [](Noting /\ MadeOfModules /\ Checked)
  BY <1>1, <1>2, Invariance, AlwaysTyped, PTL DEF Spec
<1> QED BY <1>3, <1>4, PTL

-----------------------------------------------------------------------------
(* What is made of each input, where no two of them make the same file. *)

AsmFile(p) == UseIntDir(command.intdir, ModuleFile(p, ".s"))
Represented == command.platform = "INTERM_REP"

\* What is asked for of an input.
Results(p) == {CompilationOutput(p), AsmFile(p)}
\* What its translation writes.
Writes(p) == {CompilationOutput(p), AsmFile(p), DependenciesOf(p), ListingOf(p)}

LEMMA OutputNames ==
    ASSUME command \in Commands, PlainNames,
           NEW i \in DOMAIN command.inputs, IsTranslated(command.inputs[i])
    PROVE  LET p == command.inputs[i]
               o == CompilationOutput(p)
               d == DependenciesOf(p)
           IN  /\ Writes(p) \subseteq Paths
               /\ AsmFile(p)[2] = p[2] /\ AsmFile(p)[3] = ".s"
               /\ ListingOf(p)[2] = p[2] /\ ListingOf(p)[3] = ".lst"
               /\ o[3] \notin {".s", ".lst", ".d"} /\ d[3] = ".d"
               /\ ~compileOnly => o[3] = ".o" /\ o = UseIntDir(command.intdir, ModuleFile(p, ".o"))
               /\ ~(compileOnly /\ command.output # NoOutput) => o[2] = p[2] /\ d[2] = p[2]
<1> DEFINE p == command.inputs[i]
           o == CompilationOutput(p)
           d == DependenciesOf(p)
           a == AsmFile(p)
           l == ListingOf(p)
<1>1. p \in Paths /\ command.intdir \in Directories
  BY Inputs
<1>2. a \in Paths /\ a[2] = p[2] /\ a[3] = ".s"
  <2> DEFINE e == ".s"
  <2>1. e \in Extensions /\ a = UseIntDir(command.intdir, ModuleFile(p, e))
    BY Literals DEF AsmFile
  <2> HIDE DEF e, a, p
  <2>2. a \in Paths /\ a[2] = p[2] /\ a[3] = e
    BY <1>1, <2>1, ReplacedAndPrefixed
  <2> QED BY <2>2 DEF e
<1>3. l \in Paths /\ l[2] = p[2] /\ l[3] = ".lst"
  <2> DEFINE e == ".lst"
  <2>1. e \in Extensions /\ l = UseIntDir(command.intdir, ModuleFile(p, e))
    BY Literals DEF ListingOf
  <2> HIDE DEF e, l, p
  <2>2. l \in Paths /\ l[2] = p[2] /\ l[3] = e
    BY <1>1, <2>1, ReplacedAndPrefixed
  <2> QED BY <2>2 DEF e
<1>4. o \in Paths /\ d \in Paths /\ d[3] = ".d" /\ d[2] = o[2]
  <2>1. o \in Paths
    BY OutputsOfInput DEF Mine
  <2> DEFINE e == ".d"
  <2>2. e \in Extensions /\ d = ReplaceExtension(o, e)
    BY Literals DEF DependenciesOf
  <2> HIDE DEF e, d, o
  <2>3. d \in Paths /\ d[3] = e /\ d[2] = o[2]
    BY <2>1, <2>2, Replaced
  <2> QED BY <2>1, <2>3 DEF e
<1>5. ASSUME compileOnly, command.output # NoOutput PROVE o[3] \notin {".s", ".lst", ".d"}
  BY <1>5 DEF CompilationOutput, PlainNames
<1>6. ASSUME ~(compileOnly /\ command.output # NoOutput)
      PROVE  /\ o[3] \in {".o", ".json"} /\ o[2] = p[2]
             /\ ~Represented => o[3] = ".o" /\ o = UseIntDir(command.intdir, ModuleFile(p, ".o"))
  <2> DEFINE e == IF Represented THEN ".json" ELSE ".o"
  <2>1. e \in Extensions /\ e \in {".json", ".o"} /\ (~Represented => e = ".o")
    BY Literals
  <2>2. o = UseIntDir(command.intdir, ModuleFile(p, e))
    BY <1>6 DEF CompilationOutput, Represented
  <2> HIDE DEF e, o, p
  <2>3. o \in Paths /\ o[2] = p[2] /\ o[3] = e
    BY <1>1, <2>1, <2>2, ReplacedAndPrefixed
  <2> QED BY <2>1, <2>2, <2>3
<1>7. ~compileOnly => ~Represented
  BY DEF compileOnly, Represented
<1>8. Writes(p) \subseteq Paths
  BY <1>2, <1>3, <1>4 DEF Writes
<1> HIDE DEF p, o, d, a, l
<1> QED BY <1>2, <1>3, <1>4, <1>5, <1>6, <1>7, <1>8 DEF p, o, d, a, l

\* The translation of one input writes nothing that is asked for of another.
LEMMA Apart ==
    ASSUME command \in Commands, PlainNames,
           NEW i \in DOMAIN command.inputs, IsTranslated(command.inputs[i]),
           NEW j \in DOMAIN command.inputs, IsTranslated(command.inputs[j]), i # j
    PROVE  Writes(command.inputs[i]) \cap Results(command.inputs[j]) = {}
<1> DEFINE p == command.inputs[i]
           q == command.inputs[j]
<1>1. p[2] # q[2]
  <2>1. ~SharesBase(i)
    BY DEF PlainNames
  <2> QED BY <2>1 DEF SharesBase
<1>2. ~(compileOnly /\ command.output # NoOutput)
  <2>1. Len(command.inputs) # 1
    BY Inputs
  <2> QED BY <2>1 DEF PlainNames
<1>3. \A w \in Writes(p) : w[2] = p[2]
  BY <1>2, OutputNames DEF Writes
<1>4. \A w \in Results(q) : w[2] = q[2]
  BY <1>2, OutputNames DEF Results
<1> QED BY <1>1, <1>3, <1>4

\* What the steps of the loop that do not fail write.
LEMMA LoopWrites ==
    ASSUME Control, DOMAIN fs = Paths, InLoop, [Next]_vars, status' = "success", NEW f \in Paths
    PROVE  \/ fs'[f] = fs[f]
           \/ pc \in CStages \cup {"assemble"} /\ f \in Writes(Input)
<1>a. pc \in CStages => asmFilename = AsmFile(Input)
  BY DEF Control, AtC, AsmOf, AsmFile, Input
<1>1. CASE CreateAssemblyLanguageFile \/ WritePrerequisites
  <2> DEFINE q == IF pc = "emit" THEN EmittedFile ELSE DependenciesOf(Input)
             g == IF pc = "emit" THEN File(EmittedKind, <<Input>>) ELSE File("other", <<Input>>)
  <2>1. pc \in {"emit", "dependencies"} /\ fs' = [fs EXCEPT ![q] = g]
    BY <1>1 DEF CreateAssemblyLanguageFile, WritePrerequisites, Written
  <2>2. q \in Writes(Input)
    BY <2>1, <1>a DEF Writes, EmittedFile, CStages
  <2> HIDE DEF q, g
  <2> QED BY <2>1, <2>2, OneWrote DEF CStages
<1>2. CASE InvokeAssembler
  <2>1. fs'[f] = IF f = CompilationOutput(Input) THEN File("obj", fs[Assembled].of)
                 ELSE IF kept /\ f = ListingOf(Input) THEN File("other", fs[Assembled].of)
                 ELSE fs[f]
    BY <1>2 DEF InvokeAssembler
  <2>2. pc = "assemble"
    BY <1>2 DEF InvokeAssembler
  <2> QED BY <2>1, <2>2 DEF Writes
<1>3. CASE EmissionFails \/ WarningsAreErrors \/ AssemblerFails
  <2>1. status' = "failure"
    BY <1>3 DEF EmissionFails, WarningsAreErrors, AssemblerFails, CompilationFails, ReturnFromC,
                ReturnFromAsm, ReturnFromAssembler, EndInputs
  <2> QED BY <2>1
<1>4. CASE \/ RemoveFile \/ RefuseToRemove \/ Removed
           \/ CreateLinkScript \/ CreateLinkScriptFails \/ Lwlink \/ LwlinkFails
           \/ CheckLinkingMap \/ MapUnreadable
           \/ ReadBlocks \/ BlocksUnreadable \/ Overwrite \/ OverwriteFails
  BY <1>4 DEF RemoveFile, RefuseToRemove, Removed, Removing, CreateLinkScript, CreateLinkScriptFails,
              Lwlink, LwlinkFails, CheckLinkingMap, MapUnreadable, ReadBlocks, BlocksUnreadable,
              Overwrite, OverwriteFails, InLoop, CStages
<1>5. CASE \/ AllInputsTaken \/ InputRefused \/ TakeObject \/ TakeLibrary \/ TakeC \/ TakeAsm
           \/ PreprocessorFails \/ PreprocessOnly \/ Preprocess \/ ErrorsFound \/ Compile
           \/ PrerequisitesFail \/ Compiled \/ UNCHANGED vars
  BY <1>5 DEF AllInputsTaken, InputRefused, TakeObject, TakeLibrary, TakeC, TakeAsm,
              PreprocessorFails, PreprocessOnly, Preprocess, ErrorsFound, Compile,
              PrerequisitesFail, Compiled, Keep, vars
<1> QED BY <1>1, <1>2, <1>3, <1>4, <1>5 DEF Next

\* While nothing has failed: which stages come for which options.
Staged ==
    status = "success" =>
        /\ pc \in {"clean", "script", "link"} \/ (pc = "done" /\ compileOnly) =>
              argi = Len(command.inputs) + 1
        /\ pc \in {"compile", "emit"} => ~depsOnly /\ command.mode # "preprocess"
        /\ pc \in {"dependencies", "compiled"} =>
              command.mode # "preprocess" /\ (pc = "compiled" => genAsmOnly \/ depsOnly)
        /\ pc = "assemble" /\ IsCFile(Input) => ~genAsmOnly /\ ~depsOnly /\ command.mode # "preprocess"
        /\ pc # "drop"
        /\ pc \in {"read_blocks", "overwrite"} => command.platform = "DRAGON"

LEMMA StagedStep == IInv /\ Typed /\ Noting /\ Staged /\ [Next]_vars => Staged'
<1> SUFFICES ASSUME Control, Typed, Noting, Staged, [Next]_vars, status' = "success" PROVE Staged'
  BY DEF Staged, IInv
<1>a. /\ command' = command /\ command \in Commands
      /\ compileOnly' = compileOnly /\ depsOnly' = depsOnly /\ genAsmOnly' = genAsmOnly
  BY CommandStays DEF Control, compileOnly, depsOnly, genAsmOnly
<1>b. argi' = argi => Input' = Input
  BY <1>a DEF Input
<1>c. /\ argi \in Nat /\ Len(command.inputs) \in Nat /\ argi <= Len(command.inputs) + 1
      /\ pc \in LinkStages => ~compileOnly
      /\ pc \in CStages => IsCFile(Input)
  BY <1>a, Inputs DEF Control, Typed, Noting, AtC
<1> USE DEF Staged
<1>1. CASE AllInputsTaken
  BY <1>1, <1>a, <1>c DEF AllInputsTaken, EndInputs
<1>2. CASE InputRefused \/ RefuseToRemove \/ CreateLinkScriptFails \/ LwlinkFails \/ MapUnreadable
        \/ BlocksUnreadable \/ OverwriteFails
  BY <1>2 DEF InputRefused, EndInputs, RefuseToRemove, CreateLinkScriptFails, LwlinkFails,
              MapUnreadable, BlocksUnreadable, OverwriteFails
<1>3. CASE TakeObject \/ TakeLibrary \/ TakeC
  BY <1>3 DEF TakeObject, TakeLibrary, TakeC, NextInput
<1>4. CASE TakeAsm
  <2>1. argi' = argi /\ pc' = "assemble" /\ ~IsCFile(Input)
    BY <1>4 DEF TakeAsm, Keep, IsCFile, IsAsmFile
  <2> QED BY <2>1, <1>b DEF IsCFile
<1>5. CASE \/ PreprocessorFails \/ PreprocessOnly \/ ErrorsFound \/ EmissionFails
           \/ WarningsAreErrors \/ PrerequisitesFail \/ Compiled
           \/ InvokeAssembler \/ AssemblerFails
  <2>1. PICK ok \in BOOLEAN : ReturnFromC(ok) \/ ReturnFromAsm(ok)
    BY <1>5, Returns
  <2>2. pc' = "input"
    BY <2>1 DEF ReturnFromC, ReturnFromAsm, NextInput, EndInputs
  <2> QED BY <2>2
<1>6. CASE Preprocess
  BY <1>6, <1>a DEF Preprocess, depsOnly
<1>7. CASE Compile \/ CreateAssemblyLanguageFile \/ WritePrerequisites
  <2>1. status' = status /\ argi' = argi /\ pc \in CStages
    BY <1>7 DEF Compile, CreateAssemblyLanguageFile, WritePrerequisites, Keep, CStages
  <2>2. \/ pc = "compile" /\ pc' = "emit"
        \/ pc = "emit" /\ pc' \in {"dependencies", "compiled", "assemble"}
             /\ (pc' = "compiled" => genAsmOnly) /\ (pc' = "assemble" => ~genAsmOnly /\ ~depsOnly)
        \/ pc = "dependencies" /\ pc' \in {"compiled", "assemble"}
             /\ (pc' = "compiled" => genAsmOnly \/ depsOnly)
             /\ (pc' = "assemble" => ~genAsmOnly /\ ~depsOnly)
    BY <1>7 DEF Compile, CreateAssemblyLanguageFile, WritePrerequisites
  <2> QED BY <2>1, <2>2, <1>a, <1>b
<1>8. CASE RemoveFile
  <2>1. status' = status /\ argi' = argi /\ pc' = pc
    BY <1>8 DEF RemoveFile, Keep
  <2> QED BY <2>1, <1>a, <1>b
<1>9. CASE Removed
  <2>1. /\ status' = status /\ argi' = argi
        /\ \/ pc = "clean" /\ pc' \in {"done", "script"}
           \/ pc = "unlink" /\ pc' \in {"done", "read_blocks"}
                /\ (pc' = "read_blocks" => command.platform = "DRAGON")
    BY <1>9 DEF Removed, Removing, AfterClean, AfterUnlink, BeginUnlink, Keep
  <2>2. pc = "unlink" => ~compileOnly
    BY <1>c DEF LinkStages
  <2> QED BY <2>1, <2>2, <1>a
<1>10. CASE CreateLinkScript \/ Lwlink
  <2>1. /\ status' = status /\ argi' = argi
        /\ \/ pc = "script" /\ pc' = "link"
           \/ pc' = "check_map"
    BY <1>10 DEF CreateLinkScript, Lwlink, Keep
  <2> QED BY <2>1, <1>a
<1>11. CASE CheckLinkingMap
  <2>1. pc' = "unlink"
    BY <1>11 DEF CheckLinkingMap, BeginUnlink
  <2> QED BY <2>1
<1>12. CASE ReadBlocks \/ Overwrite
  <2>1. /\ status' = status /\ pc \in {"read_blocks", "overwrite"} /\ ~compileOnly
        /\ pc' \in {"overwrite", "done"}
    BY <1>12, <1>c DEF ReadBlocks, Overwrite, Finish, Keep, LinkStages
  <2> QED BY <2>1, <1>a
<1>13. CASE UNCHANGED vars
  <2>1. status' = status /\ argi' = argi /\ pc' = pc
    BY <1>13 DEF vars
  <2> QED BY <2>1, <1>a, <1>b
<1> QED BY <1>1, <1>2, <1>3, <1>4, <1>5, <1>6, <1>7, <1>8, <1>9, <1>10, <1>11, <1>12, <1>13 DEF Next

-----------------------------------------------------------------------------
(* The modules and libraries that are noted for the linker. *)

BeforeLinker == InLoop \/ pc \in {"clean", "script", "link"}
LibraryExtensions == {".a", "-l"}
ObjectOf(p) == IF p[3] = ".o" THEN p ELSE ModuleFile(p, ".o")
TakenOf(exts) == OfExtensions(SubSeq(command.inputs, 1, argi - 1), exts)

\* One file is noted for each of the modules, which are inputs that were taken.
NotedFor(q, files) ==
    /\ Len(files) = Len(q)
    /\ \A k \in 1..Len(q) :
          /\ files[k] = ObjectOf(q[k]) /\ q[k][3] \in ModuleExtensions
          /\ \E i \in DOMAIN command.inputs : i < argi /\ q[k] = command.inputs[i]

Listed ==
    status = "success" /\ BeforeLinker =>
        /\ NotedFor(TakenOf(ModuleExtensions), objectFilenames)
        /\ libraryFilenames = TakenOf(LibraryExtensions)

LEMMA NothingChosen == \A exts : OfExtensions(<<>>, exts) = <<>>
<1> SUFFICES ASSUME NEW exts PROVE OfExtensions(<<>>, exts) = <<>>
  OBVIOUS
<1> DEFINE e == <<>>
<1>1. e \in Seq({}) /\ Len(e) = 0
  OBVIOUS
<1> HIDE DEF e
<1>2. PICK r : ChosenBy(r, e, exts)
  BY <1>1, ChosenSteps
<1> QED BY <1>1, <1>2 DEF ChosenBy, e

LEMMA OneMore ==
    ASSUME NEW T, NEW q \in Seq(T), NEW n \in DOMAIN q
    PROVE  /\ SubSeq(q, 1, n - 1) \in Seq(T)
           /\ SubSeq(q, 1, (n + 1) - 1) = Append(SubSeq(q, 1, n - 1), q[n])
<1>1. n \in Nat /\ n > 0 /\ n <= Len(q) /\ Len(q) \in Nat /\ (n + 1) - 1 = n /\ q[n] \in T
      /\ \A i \in 1..Len(q) : q[i] \in T
  OBVIOUS
<1> DEFINE a == SubSeq(q, 1, n - 1)
           b == SubSeq(q, 1, n)
<1>2. a \in Seq(T) /\ Len(a) = n - 1 /\ \A i \in 1..(n - 1) : a[i] = q[i]
  BY <1>1
<1>3. b \in Seq(T) /\ Len(b) = n /\ \A i \in 1..n : b[i] = q[i]
  BY <1>1
<1> HIDE DEF a, b
<1>4. /\ Append(a, q[n]) \in Seq(T) /\ Len(Append(a, q[n])) = n
      /\ Append(a, q[n])[n] = q[n] /\ \A i \in 1..(n - 1) : Append(a, q[n])[i] = a[i]
  BY <1>1, <1>2
<1>5. \A i \in 1..n : Append(a, q[n])[i] = b[i]
  <2>1. \A i \in 1..n : i = n \/ i \in 1..(n - 1)
    BY <1>1
  <2> QED BY <2>1, <1>2, <1>3, <1>4
<1>6. Append(a, q[n]) = b
  BY <1>3, <1>4, <1>5
<1> QED BY <1>1, <1>2, <1>6 DEF a, b

\* A module or a library is taken.
LEMMA OneTaken ==
    ASSUME command \in Commands, argi \in DOMAIN command.inputs, objectFilenames \in Seq(Paths),
           NotedFor(TakenOf(ModuleExtensions), objectFilenames),
           libraryFilenames = TakenOf(LibraryExtensions),
           command' = command, argi' = argi + 1,
           \/ /\ Input[3] \in ModuleExtensions
              /\ objectFilenames' = Append(objectFilenames, ObjectOf(Input))
              /\ ObjectOf(Input) \in Paths
              /\ libraryFilenames' = libraryFilenames
           \/ /\ Input[3] \in LibraryExtensions
              /\ objectFilenames' = objectFilenames
              /\ libraryFilenames' = Append(libraryFilenames, Input)
    PROVE  /\ NotedFor(TakenOf(ModuleExtensions), objectFilenames)'
           /\ libraryFilenames' = TakenOf(LibraryExtensions)'
<1> DEFINE N == Directories \X Bases \X Extensions
           s == SubSeq(command.inputs, 1, argi - 1)
           q == OfExtensions(s, ModuleExtensions)
           os == objectFilenames
<1>1. command.inputs \in Seq(N) /\ Input = command.inputs[argi] /\ Input \in N
  <2>1. command.inputs \in Seq(N)
    BY NamesAssumption
  <2> HIDE DEF N
  <2> QED BY <2>1 DEF Input
<1>2. s \in Seq(N) /\ SubSeq(command.inputs, 1, (argi + 1) - 1) = Append(s, Input)
  <2> HIDE DEF N
  <2> QED BY <1>1, OneMore
<1>3. \A exts : TakenOf(exts) = OfExtensions(s, exts)
             /\ TakenOf(exts)' = OfExtensions(Append(s, Input), exts)
  <2>1. SubSeq(command'.inputs, 1, argi' - 1) = Append(s, Input)
    BY <1>2
  <2> HIDE DEF N
  <2>2. ASSUME NEW exts PROVE TakenOf(exts)' = OfExtensions(Append(s, Input), exts)
    BY <2>1 DEF TakenOf
  <2>3. ASSUME NEW exts PROVE TakenOf(exts) = OfExtensions(s, exts)
    BY DEF TakenOf
  <2> HIDE DEF s
  <2> QED BY <2>2, <2>3, Zenon
<1>4. \A exts : OfExtensions(Append(s, Input), exts)
                  = IF Input[3] \in exts THEN Append(OfExtensions(s, exts), Input) ELSE OfExtensions(s, exts)
  <2>1. s \in Seq(N) /\ Input \in N
    BY <1>1, <1>2
  <2> HIDE DEF N, s, q
  <2>2. ASSUME NEW exts
        PROVE  OfExtensions(Append(s, Input), exts)
                 = IF Input[3] \in exts THEN Append(OfExtensions(s, exts), Input) ELSE OfExtensions(s, exts)
    BY <2>1, ChosenAppend
  <2> QED BY <2>2
<1>5. q \in Seq(N)
  <2> HIDE DEF N, s
  <2>1. PICK r : ChosenBy(r, s, ModuleExtensions) /\ \A k \in 0..Len(s) : r[k] \in Seq(N)
    BY <1>2, ChosenSteps
  <2>2. Len(s) \in 0..Len(s)
    BY <1>2
  <2> QED BY <2>1, <2>2 DEF ChosenBy
<1>6. \A e : ~(e \in ModuleExtensions /\ e \in LibraryExtensions)
  BY DEF ModuleExtensions, LibraryExtensions
<1> HIDE DEF s, N, q
<1>7. /\ Len(os) = Len(q) /\ Len(q) \in Nat
      /\ \A k \in 1..Len(q) :
            /\ os[k] = ObjectOf(q[k]) /\ q[k][3] \in ModuleExtensions
            /\ \E i \in DOMAIN command.inputs : i < argi + 1 /\ q[k] = command.inputs[i]
  <2>1. \A i \in DOMAIN command.inputs : i < argi => i < argi + 1
    BY Inputs
  <2> QED BY <2>1, <1>3, <1>5 DEF NotedFor, q
<1>8. \A p, f, n : /\ ObjectOf(p)' = ObjectOf(p)
                   /\ command'.inputs = command.inputs
  BY DEF ObjectOf, ModuleFile
<1>9. CASE Input[3] \in ModuleExtensions
  <2> DEFINE p == Append(q, Input)
             ps == Append(os, ObjectOf(Input))
             n == Len(q)
  <2>1. TakenOf(ModuleExtensions)' = p /\ objectFilenames' = ps
        /\ TakenOf(LibraryExtensions)' = TakenOf(LibraryExtensions) /\ libraryFilenames' = libraryFilenames
        /\ ObjectOf(Input) \in Paths
    BY <1>3, <1>4, <1>6, <1>9 DEF q
  <2>2. n \in Nat /\ Len(p) = n + 1 /\ p[n + 1] = Input /\ \A k \in 1..n : p[k] = q[k]
    BY <1>1, <1>5
  <2>3. Len(ps) = n + 1 /\ ps[n + 1] = ObjectOf(Input) /\ \A k \in 1..n : ps[k] = os[k]
    BY <2>1, <1>7
  <2> HIDE DEF p, ps, n
  <2>4. ASSUME NEW k \in 1..(n + 1)
        PROVE  /\ ps[k] = ObjectOf(p[k]) /\ p[k][3] \in ModuleExtensions
               /\ \E i \in DOMAIN command.inputs : i < argi + 1 /\ p[k] = command.inputs[i]
    <3>1. CASE k = n + 1
      <4>1. argi < argi + 1
        BY Inputs
      <4> QED BY <3>1, <4>1, <2>2, <2>3, <1>1, <1>9
    <3>2. CASE k \in 1..n
      <4>1. ps[k] = os[k] /\ p[k] = q[k]
        BY <3>2, <2>2, <2>3
      <4> QED BY <3>2, <4>1, <1>7 DEF n
    <3> QED BY <3>1, <3>2, <2>2
  <2>5. NotedFor(TakenOf(ModuleExtensions), objectFilenames)'
    BY <2>1, <2>2, <2>3, <2>4, <1>8 DEF NotedFor
  <2> QED BY <2>1, <2>5
<1>10. CASE Input[3] \in LibraryExtensions
  <2>1. /\ TakenOf(ModuleExtensions)' = q /\ objectFilenames' = os
        /\ TakenOf(LibraryExtensions)' = Append(TakenOf(LibraryExtensions), Input)
        /\ libraryFilenames' = Append(libraryFilenames, Input)
    BY <1>3, <1>4, <1>6, <1>10 DEF q
  <2>2. NotedFor(TakenOf(ModuleExtensions), objectFilenames)'
    BY <2>1, <1>7, <1>8 DEF NotedFor
  <2> QED BY <2>1, <2>2
<1> QED BY <1>9, <1>10

LEMMA ListedStep == IInv /\ Typed /\ Noting /\ Listed /\ [Next]_vars => Listed'
<1> SUFFICES ASSUME Control, Typed, Noting, Listed, [Next]_vars, status' = "success", BeforeLinker' PROVE Listed'
  BY DEF Listed, IInv
<1>a. command' = command /\ command \in Commands
  BY CommandStays DEF Control
<1>b. ASSUME argi' = argi, objectFilenames' = objectFilenames, libraryFilenames' = libraryFilenames,
             status' = status, BeforeLinker
      PROVE  Listed'
  <2>1. TakenOf(ModuleExtensions)' = TakenOf(ModuleExtensions)
        /\ TakenOf(LibraryExtensions)' = TakenOf(LibraryExtensions)
    BY <1>a, <1>b DEF TakenOf
  <2> QED BY <2>1, <1>a, <1>b DEF Listed, NotedFor, ObjectOf, ModuleFile
<1>c. ASSUME argi \in DOMAIN command.inputs, InLoop, argi' = argi + 1,
             \/ /\ Input[3] \in ModuleExtensions
                /\ objectFilenames' = Append(objectFilenames, ObjectOf(Input))
                /\ ObjectOf(Input) \in Paths
                /\ libraryFilenames' = libraryFilenames
             \/ /\ Input[3] \in LibraryExtensions
                /\ objectFilenames' = objectFilenames
                /\ libraryFilenames' = Append(libraryFilenames, Input)
      PROVE  Listed'
  <2>1. NotedFor(TakenOf(ModuleExtensions), objectFilenames) /\ libraryFilenames = TakenOf(LibraryExtensions)
    BY <1>c DEF Listed, Noting, BeforeLinker
  <2> QED BY <2>1, <1>a, <1>c, OneTaken DEF Listed, Typed
<1>1. CASE TakeObject \/ TakeLibrary
  <2>1. argi \in DOMAIN command.inputs /\ argi' = argi + 1 /\ InLoop /\ Input \in Paths
    BY <1>1, <1>a, Inputs DEF TakeObject, TakeLibrary, AtInput, NextInput, InLoop, Control, Input
  <2>2. \/ /\ Input[3] \in ModuleExtensions
           /\ objectFilenames' = Append(objectFilenames, ObjectOf(Input))
           /\ ObjectOf(Input) = Input
           /\ libraryFilenames' = libraryFilenames
        \/ /\ Input[3] \in LibraryExtensions
           /\ objectFilenames' = objectFilenames
           /\ libraryFilenames' = Append(libraryFilenames, Input)
    BY <1>1 DEF TakeObject, TakeLibrary, Keep, ModuleExtensions, LibraryExtensions, ObjectOf, IsLibraryOption
  <2> QED BY <2>1, <2>2, <1>c
<1>2. CASE \/ PreprocessorFails \/ PreprocessOnly \/ ErrorsFound \/ EmissionFails
           \/ WarningsAreErrors \/ PrerequisitesFail \/ Compiled
           \/ InvokeAssembler \/ AssemblerFails
  <2>1. PICK ok \in BOOLEAN : ReturnFromC(ok) \/ ReturnFromAsm(ok)
    BY <1>2, Returns
  <2>2. /\ argi \in DOMAIN command.inputs /\ IsTranslated(Input) /\ InLoop
        /\ pc \in CStages \cup {"assemble"}
    BY <1>2, Returns DEF PreprocessorFails, PreprocessOnly, ErrorsFound, EmissionFails,
                  WarningsAreErrors, PrerequisitesFail, Compiled, InvokeAssembler,
                  AssemblerFails, CStages, InLoop
  <2>3. /\ argi' = argi + 1 /\ libraryFilenames' = libraryFilenames
        /\ objectFilenames' = Append(objectFilenames, ModuleFile(Input, ".o"))
    BY <2>1 DEF ReturnFromC, ReturnFromAsm, NextInput, EndInputs
  <2>4. Input[3] \in ModuleExtensions /\ ObjectOf(Input) = ModuleFile(Input, ".o")
    BY <2>2 DEF IsTranslated, IsCFile, IsAsmFile, ModuleExtensions, ObjectOf
  <2>5. ModuleFile(Input, ".o") \in Paths
    BY <2>2, ModuleInHand DEF Objects
  <2> QED BY <2>2, <2>3, <2>4, <2>5, <1>c
<1>3. CASE \/ TakeC \/ TakeAsm \/ Preprocess \/ Compile
           \/ CreateAssemblyLanguageFile \/ WritePrerequisites \/ CreateLinkScript
           \/ RemoveFile \/ Removed \/ AllInputsTaken \/ UNCHANGED vars
  <2>1. /\ argi' = argi /\ objectFilenames' = objectFilenames /\ libraryFilenames' = libraryFilenames
        /\ status' = status
    BY <1>3 DEF TakeC, TakeAsm, Preprocess, Compile, CreateAssemblyLanguageFile, AllInputsTaken,
                WritePrerequisites, CreateLinkScript, RemoveFile, Removed, Keep, lists, vars, EndInputs
  <2>2. pc' = pc \/ pc \in CStages \cup {"input", "clean", "script"} \/ pc' \in {"unlink", "read_blocks", "done"}
    <3>1. CASE TakeC \/ TakeAsm \/ AllInputsTaken
      BY <3>1 DEF TakeC, TakeAsm, AllInputsTaken, AtInput
    <3>2. CASE Preprocess \/ Compile \/ CreateAssemblyLanguageFile \/ WritePrerequisites
      BY <3>2 DEF Preprocess, Compile, CreateAssemblyLanguageFile, WritePrerequisites, CStages
    <3>3. CASE CreateLinkScript \/ RemoveFile \/ UNCHANGED vars
      BY <3>3 DEF CreateLinkScript, RemoveFile, Keep, vars
    <3>4. CASE Removed
      BY <3>4 DEF Removed, BeginUnlink, AfterUnlink
    <3> QED BY <1>3, <3>1, <3>2, <3>3, <3>4
  <2>3. BeforeLinker
    BY <2>2 DEF BeforeLinker, InLoop, CStages
  <2> QED BY <2>1, <2>3, <1>b
<1>4. CASE \/ InputRefused \/ RefuseToRemove \/ CreateLinkScriptFails \/ Lwlink \/ LwlinkFails
           \/ CheckLinkingMap \/ MapUnreadable
           \/ ReadBlocks \/ BlocksUnreadable \/ Overwrite \/ OverwriteFails
  <2>1. status' = "failure" \/ pc' \in {"check_map", "unlink", "drop", "overwrite", "done"}
    BY <1>4 DEF InputRefused, EndInputs, RefuseToRemove, CreateLinkScriptFails, Lwlink, LwlinkFails,
                CheckLinkingMap, MapUnreadable, ReadBlocks, BlocksUnreadable, Overwrite, OverwriteFails,
                BeginUnlink, Finish
  <2> QED BY <2>1 DEF BeforeLinker, InLoop, CStages
<1> QED BY <1>1, <1>2, <1>3, <1>4 DEF Next

-----------------------------------------------------------------------------
(* What is removed while nothing fails. *)

\* Assembly language, unless it is asked for, and listings; then what the linker needed.
Temporaries == {p \in Paths : p[3] = ".lst" \/ (p[3] = ".s" /\ ~genAsmOnly)}
LinkTemporaries == {p \in Paths : p[3] \in {".link", ".map", ".o"}}

Sparing ==
    status = "success" =>
        /\ InLoop => intermediateCompilationFiles \in Seq(Temporaries)
        /\ pc = "clean" => toRemove \in Seq(Temporaries)
        /\ pc = "unlink" => toRemove \in Seq(LinkTemporaries)

LEMMA SuccessBefore == [Next]_vars /\ status' = "success" => status = "success"
<1> SUFFICES ASSUME [Next]_vars, status' = "success" PROVE status = "success"
  OBVIOUS
<1> QED
  BY DEF Next, AllInputsTaken, InputRefused, TakeObject, TakeLibrary, TakeC, TakeAsm,
         PreprocessorFails, PreprocessOnly, Preprocess, ErrorsFound, Compile,
         CreateAssemblyLanguageFile, EmissionFails, WarningsAreErrors, WritePrerequisites,
         PrerequisitesFail, Compiled, InvokeAssembler, AssemblerFails, RemoveFile,
         RefuseToRemove, Removed, CreateLinkScript, CreateLinkScriptFails, Lwlink, LwlinkFails,
         CheckLinkingMap, MapUnreadable, ReadBlocks, BlocksUnreadable, Overwrite,
         OverwriteFails, Keep, vars, CompilationFails, ReturnFromC, ReturnFromAsm,
         ReturnFromAssembler, NextInput, EndInputs

LEMMA LinkNames ==
    ASSUME command \in Commands, PlainNames, ~compileOnly, AllKnown
    PROVE  /\ Executable \in Paths /\ LinkScriptFile \in Paths /\ MapFile \in Paths
           /\ LinkScriptFile[3] = ".link" /\ MapFile[3] = ".map"
           /\ Executable[3] \notin {".link", ".map", ".o"}
<1>1. Executable \in Paths /\ LinkScriptFile \in Paths /\ MapFile \in Paths
  BY LinkedFiles DEF Mine
<1>2. command.intdir \in Directories
  BY Inputs
<1>3. LinkScriptFile[3] = ".link"
  <2> DEFINE e == ".link"
  <2>1. e \in Extensions /\ LinkScriptFile = UseIntDir(command.intdir, ReplaceExtension(Executable, e))
    BY Literals DEF LinkScriptFile
  <2> HIDE DEF e
  <2>2. LinkScriptFile[3] = e
    BY <1>1, <1>2, <2>1, ReplacedAndPrefixed
  <2> QED BY <2>2 DEF e
<1>4. MapFile[3] = ".map"
  <2> DEFINE e == ".map"
  <2>1. e \in Extensions /\ MapFile = UseIntDir(command.intdir, ReplaceExtension(Executable, e))
    BY Literals DEF MapFile
  <2> HIDE DEF e
  <2>2. MapFile[3] = e
    BY <1>1, <1>2, <2>1, ReplacedAndPrefixed
  <2> QED BY <2>2 DEF e
<1>5. CASE command.output # NoOutput
  BY <1>1, <1>3, <1>4, <1>5 DEF PlainNames, Executable
<1>6. CASE command.output = NoOutput
  <2> DEFINE e == ExecutableExtension
             p == command.inputs[1]
  <2>1. e \in Extensions /\ e \in {NoPart, ".bin"} /\ p \in Paths /\ Executable = ModuleFile(p, e)
    BY <1>6, Literals, Inputs DEF ExecutableExtension, Executable
  <2> HIDE DEF e, p
  <2>2. Executable[3] = e
    BY <2>1, Replaced
  <2>3. NoPart \notin {".link", ".map", ".o"}
    BY Zenon DEF NoPart
  <2> QED BY <1>1, <1>3, <1>4, <2>1, <2>2, <2>3
<1> QED BY <1>5, <1>6

LEMMA SparingStep ==
    ASSUME IInv, Noting, Staged, Sparing, PlainNames, [Next]_vars
    PROVE  Sparing'
<1> SUFFICES ASSUME status' = "success" PROVE Sparing'
  BY DEF Sparing
<1>a. /\ status = "success" /\ command' = command /\ command \in Commands
      /\ Temporaries' = Temporaries /\ LinkTemporaries' = LinkTemporaries
  BY CommandStays, SuccessBefore DEF IInv, Control, Temporaries, LinkTemporaries, genAsmOnly
<1> DEFINE ics == intermediateCompilationFiles
           T == Temporaries
           U == LinkTemporaries
<1>b. <<>> \in Seq(T) /\ <<>> \in Seq(U)
  OBVIOUS
<1>1. CASE AllInputsTaken
  <2>1. pc = "input" /\ pc' = "clean" /\ toRemove' \in {<<>>, ics}
    BY <1>1 DEF AllInputsTaken, EndInputs, ToRemove
  <2> QED BY <2>1, <1>a, <1>b DEF Sparing, InLoop, CStages
<1>2. CASE \/ PreprocessorFails \/ PreprocessOnly \/ ErrorsFound \/ EmissionFails
           \/ WarningsAreErrors \/ PrerequisitesFail \/ Compiled
           \/ InvokeAssembler \/ AssemblerFails
  <2>1. PICK ok \in BOOLEAN : (AtC /\ ReturnFromC(ok)) \/ (~AtC /\ ReturnFromAsm(ok))
    BY <1>2, Returns DEF IInv
  <2>2. InLoop
    BY <1>2 DEF PreprocessorFails, PreprocessOnly, ErrorsFound, EmissionFails,
                WarningsAreErrors, PrerequisitesFail, Compiled, InvokeAssembler,
                AssemblerFails, CStages, InLoop
  <2>3. pc' = "input"
    BY <2>1 DEF ReturnFromC, ReturnFromAsm, NextInput, EndInputs
  <2> DEFINE l == ReplaceExtension(asmFilename, ".lst")
             x == IF genAsmOnly THEN <<>> ELSE <<asmFilename>>
             y == IF kept THEN <<>> ELSE <<l>>
  <2>4. l \in T
    <3>1. l \in Paths
      BY AsmFiles DEF IInv, Mine
    <3>2. l[3] = ".lst"
      BY DEF ReplaceExtension
    <3> QED BY <3>1, <3>2 DEF Temporaries
  <2>5. ics \in Seq(T)
    BY <2>2, <1>a DEF Sparing
  <2>6. ASSUME AtC, ~genAsmOnly PROVE asmFilename \in T
    <3>1. asmFilename \in Paths /\ asmFilename = AsmOf(argi)
      BY <2>6, AsmFiles DEF IInv, Mine, Control
    <3>2. command.inputs[argi] \in Paths /\ command.intdir \in Directories
      BY <2>6, Inputs DEF IInv, Control, AtC
    <3> DEFINE e == ".s"
               p == command.inputs[argi]
    <3>3. e \in Extensions /\ AsmOf(argi) = UseIntDir(command.intdir, ModuleFile(p, e))
      BY Literals DEF AsmOf
    <3> HIDE DEF e, p
    <3>4. AsmOf(argi)[3] = e
      BY <3>2, <3>3, ReplacedAndPrefixed DEF p
    <3> QED BY <2>6, <3>1, <3>4 DEF Temporaries, e
  <2>7. CASE AtC /\ ReturnFromC(ok)
    <3>1. ics' = (ics \o x) \o y
      BY <2>7 DEF ReturnFromC, CompilationFiles
    <3>2. x \in Seq(T) /\ y \in Seq(T)
      <4> HIDE DEF l, T
      <4> QED BY <2>4, <2>6, <2>7, Appending DEF T
    <3> HIDE DEF x, y, T, ics
    <3>3. (ics \o x) \o y \in Seq(T)
      BY <2>5, <3>2
    <3> QED BY <2>3, <3>1, <3>3, <1>a DEF Sparing, ics, T
  <2>8. CASE ReturnFromAsm(ok)
    <3>1. ics' \in {ics, Append(ics, l)}
      BY <2>8 DEF ReturnFromAsm
    <3> HIDE DEF l
    <3>2. Append(ics, l) \in Seq(T)
      BY <2>4, <2>5, Appending
    <3> QED BY <2>3, <2>5, <3>1, <3>2, <1>a DEF Sparing
  <2> QED BY <2>1, <2>7, <2>8
<1>3. CASE RemoveFile
  <2>1. pc' = pc /\ ics' = ics /\ toRemove' = Tail(toRemove) /\ toRemove # <<>> /\ pc \in {"clean", "drop", "unlink"}
    BY <1>3 DEF RemoveFile, Removing, Keep, lists
  <2>2. \A S : toRemove \in Seq(S) => Tail(toRemove) \in Seq(S)
    BY <2>1
  <2> HIDE DEF T, U
  <2> QED BY <2>1, <2>2, <1>a DEF Sparing, InLoop, CStages
<1>4. CASE CheckLinkingMap
  <2>1. pc = "check_map" /\ pc' = "unlink" /\ toRemove' \in {<<>>, LinkingFiles}
    BY <1>4 DEF CheckLinkingMap, BeginUnlink, ToRemove
  <2>2. ~compileOnly /\ AllKnown
    BY <2>1 DEF Noting, IInv, Control, LinkStages
  <2> DEFINE os == intermediateObjectFiles
             w == <<LinkScriptFile, MapFile>>
  <2>3. w \in Seq(U)
    <3>1. LinkScriptFile \in U /\ MapFile \in U
      BY <1>a, <2>2, LinkNames DEF LinkTemporaries
    <3> HIDE DEF U
    <3> QED BY <3>1
  <2>4. os \in Seq(U)
    <3>1. os \in Seq(Mine) /\ DOMAIN os = 1..Len(os) /\ Len(os) \in Nat
      BY DEF IInv, Lists
    <3>2. ASSUME NEW k \in 1..Len(os) PROVE os[k] \in U
      <4>1. os[k] \in Range(os)
        BY <3>1 DEF Range
      <4>2. PICK p \in Translated : os[k] = CompilationOutput(p)
        BY <4>1 DEF Noting
      <4>3. PICK i \in DOMAIN command.inputs : p = command.inputs[i] /\ IsTranslated(p)
        BY DEF Translated
      <4>4. CompilationOutput(p) \in Writes(p)
        BY DEF Writes
      <4>5. CompilationOutput(p) \in Paths /\ CompilationOutput(p)[3] = ".o"
        BY <1>a, <2>2, <4>3, <4>4, OutputNames
      <4> QED BY <4>2, <4>5 DEF LinkTemporaries
    <3> HIDE DEF U, os
    <3> QED BY <3>1, <3>2
  <2>5. w \o os \in Seq(U)
    <3> HIDE DEF U, os, w
    <3> QED BY <2>3, <2>4
  <2>6. toRemove' \in Seq(U)
    BY <2>1, <2>5, <1>b DEF LinkingFiles
  <2> QED BY <2>1, <2>6, <1>a DEF Sparing, InLoop, CStages
<1>5. CASE Removed
  <2>1. pc # "drop"
    BY <1>a DEF Staged
  <2>2. pc' \in {"script", "done", "read_blocks"}
    BY <1>5, <2>1 DEF Removed, Removing, AfterClean, AfterUnlink
  <2> QED BY <2>2 DEF Sparing, InLoop, CStages
<1>6. CASE \/ TakeObject \/ TakeLibrary \/ TakeC \/ TakeAsm \/ Preprocess \/ Compile
           \/ CreateAssemblyLanguageFile \/ WritePrerequisites \/ UNCHANGED vars
  <2>1. ics' = ics /\ toRemove' = toRemove
    BY <1>6 DEF TakeObject, TakeLibrary, TakeC, TakeAsm, Preprocess, Compile, NextInput,
                CreateAssemblyLanguageFile, WritePrerequisites, Keep, lists, vars
  <2>2. pc' = pc \/ (InLoop /\ InLoop')
    BY <1>6 DEF TakeObject, TakeLibrary, TakeC, TakeAsm, AtInput, Preprocess, Compile, NextInput,
                CreateAssemblyLanguageFile, WritePrerequisites, vars, InLoop, CStages
  <2>3. (InLoop' => InLoop) /\ (pc' = pc \/ pc' \notin {"clean", "unlink"})
    BY <2>2 DEF InLoop, CStages
  <2> QED BY <2>1, <2>3, <1>a DEF Sparing
<1>7. CASE InputRefused \/ RefuseToRemove \/ CreateLinkScriptFails \/ LwlinkFails \/ MapUnreadable
        \/ BlocksUnreadable \/ OverwriteFails
  BY <1>7 DEF InputRefused, EndInputs, RefuseToRemove, CreateLinkScriptFails, LwlinkFails,
              MapUnreadable, BlocksUnreadable, OverwriteFails
<1>8. CASE CreateLinkScript \/ Lwlink \/ ReadBlocks \/ Overwrite
  <2>1. pc' \in {"link", "check_map", "overwrite", "done"}
    BY <1>8 DEF CreateLinkScript, Lwlink, ReadBlocks, Overwrite, Finish
  <2> QED BY <2>1 DEF Sparing, InLoop, CStages
<1> QED BY <1>1, <1>2, <1>3, <1>4, <1>5, <1>6, <1>7, <1>8 DEF Next

-----------------------------------------------------------------------------
(* What was made of the inputs that were taken. *)

\* The inputs that exist are what their names say.
GivenInputs ==
    \A i \in DOMAIN command.inputs :
        LET p == command.inputs[i]
        IN  given[p].kind # "absent" => given[p] = File(SourceKind(p[3]), <<p>>)

Made(i) ==
    LET p == command.inputs[i]
    IN  /\ p[3] = ".o" => fs[p] = File("obj", <<p>>)
        /\ IsAsmFile(p) \/ (IsCFile(p) /\ command.mode \in {"link", "compile"} /\ ~Represented)
              => fs[CompilationOutput(p)] = File("obj", <<p>>)
        /\ IsCFile(p) /\ command.mode = "asm" /\ ~Represented
              => fs[AsmFile(p)] = File("asm", <<p>>)
        /\ IsCFile(p) /\ Represented /\ command.mode \notin {"preprocess", "deps"}
              => fs[CompilationOutput(p)] = File("json", <<p>>)

\* What was emitted for the C file in hand is there until it is assembled.
Emitted ==
    pc \in {"dependencies", "compiled"} \/ (pc = "assemble" /\ IsCFile(Input)) =>
        depsOnly \/ fs[EmittedFile] = File(EmittedKind, <<Input>>)

AllMade ==
    status = "success" =>
        /\ BeforeLinker \/ (pc = "done" /\ compileOnly) =>
              \A i \in DOMAIN command.inputs : i < argi => Made(i)
        /\ Emitted

LEMMA MadeStays ==
    ASSUME NEW i, Made(i), command' = command,
           LET p == command.inputs[i]
           IN  /\ p[3] = ".o" => fs'[p] = fs[p]
               /\ IsTranslated(p) =>
                     /\ fs'[CompilationOutput(p)] = fs[CompilationOutput(p)]
                     /\ genAsmOnly => fs'[AsmFile(p)] = fs[AsmFile(p)]
    PROVE  Made(i)'
<1> DEFINE p == command.inputs[i]
           o == CompilationOutput(p)
           a == AsmFile(p)
<1>1. CompilationOutput(p)' = o /\ AsmFile(p)' = a /\ command'.inputs[i] = p
  BY DEF CompilationOutput, AsmFile, compileOnly
<1>2. /\ p[3] = ".o" => fs'[p] = fs[p]
      /\ IsTranslated(p) => fs'[o] = fs[o] /\ (genAsmOnly => fs'[a] = fs[a])
  OBVIOUS
<1>3. /\ p[3] = ".o" => fs[p] = File("obj", <<p>>)
      /\ IsAsmFile(p) \/ (IsCFile(p) /\ command.mode \in {"link", "compile"} /\ ~Represented)
            => fs[o] = File("obj", <<p>>)
      /\ IsCFile(p) /\ command.mode = "asm" /\ ~Represented
            => fs[a] = File("asm", <<p>>)
      /\ IsCFile(p) /\ Represented /\ command.mode \notin {"preprocess", "deps"}
            => fs[o] = File("json", <<p>>)
  BY DEF Made
<1> HIDE DEF p, o, a
<1>4. /\ p[3] = ".o" => fs'[p] = File("obj", <<p>>)
      /\ IsAsmFile(p) \/ (IsCFile(p) /\ command.mode \in {"link", "compile"} /\ ~Represented)
            => fs'[o] = File("obj", <<p>>)
      /\ IsCFile(p) /\ command.mode = "asm" /\ ~Represented
            => fs'[a] = File("asm", <<p>>)
      /\ IsCFile(p) /\ Represented /\ command.mode \notin {"preprocess", "deps"}
            => fs'[o] = File("json", <<p>>)
  <2>1. IsAsmFile(p) \/ IsCFile(p) => IsTranslated(p)
    BY DEF IsTranslated
  <2>2. command.mode = "asm" => genAsmOnly
    BY DEF genAsmOnly
  <2> QED BY <1>2, <1>3, <2>1, <2>2
<1>5. /\ IsAsmFile(p)' = IsAsmFile(p) /\ IsCFile(p)' = IsCFile(p) /\ Represented' = Represented
      /\ command'.mode = command.mode /\ p' = p /\ o' = o /\ a' = a
  BY <1>1 DEF IsAsmFile, IsCFile, Represented, p, o, a
<1> QED BY <1>4, <1>5 DEF Made, p, o, a

\* An object file that is given stays, and so does an input that is translated.
LEMMA InputsStay ==
    ASSUME IInv, PlainNames, NEW i \in DOMAIN command.inputs,
           IsTranslated(command.inputs[i]) \/ command.inputs[i][3] = ".o"
    PROVE  fs[command.inputs[i]] = given[command.inputs[i]] /\ command.inputs[i] \in Paths
<1>1. command.inputs[i] \in Paths
  BY Inputs DEF IInv, Control
<1>2. ~SharesBase(i)
  BY DEF PlainNames
<1>3. command.inputs[i] \notin Mine
  BY <1>2 DEF Mine, Ours
<1> QED BY <1>1, <1>3 DEF IInv, Untouched

\* What a step that does not fail makes of the input in hand.
LEMMA InputMade ==
    ASSUME IInv, PlainNames, GivenInputs, Noting, Staged, AllMade, Next, status' = "success",
           argi' = argi + 1, NEW n, n = argi
    PROVE  argi \in DOMAIN command.inputs /\ Made(n)'
<1>a. /\ command' = command /\ status = "success" /\ DOMAIN fs = Paths /\ Control
      /\ command \in Commands /\ argi \in Nat \ {0}
  BY CommandStays, SuccessBefore DEF IInv, Untouched, Control
<1> DEFINE p == command.inputs[n]
           o == CompilationOutput(p)
           a == AsmFile(p)
<1>b. p = Input /\ p' = p
  BY <1>a DEF Input
<1>c. ASSUME p[3] = ".o" => fs'[p] = File("obj", <<p>>),
             IsAsmFile(p) \/ (IsCFile(p) /\ command.mode \in {"link", "compile"} /\ ~Represented)
               => fs'[o] = File("obj", <<p>>),
             IsCFile(p) /\ command.mode = "asm" /\ ~Represented => fs'[a] = File("asm", <<p>>),
             IsCFile(p) /\ Represented /\ command.mode \notin {"preprocess", "deps"}
               => fs'[o] = File("json", <<p>>)
      PROVE  Made(n)'
  <2>1. /\ IsAsmFile(p)' = IsAsmFile(p) /\ IsCFile(p)' = IsCFile(p) /\ Represented' = Represented
        /\ o' = o /\ a' = a /\ command'.mode = command.mode
    <3>1. CompilationOutput(p)' = o /\ AsmFile(p)' = a
      BY <1>a DEF CompilationOutput, AsmFile, compileOnly
    <3>2. command'.inputs[n] = p /\ command'.mode = command.mode /\ Represented' = Represented
      BY <1>a DEF Represented
    <3>3. IsAsmFile(p)' = IsAsmFile(p) /\ IsCFile(p)' = IsCFile(p)
      BY <1>a DEF IsAsmFile, IsCFile
    <3> QED BY <3>1, <3>2, <3>3
  <2> HIDE DEF p, o, a
  <2>2. /\ p'[3] = ".o" => fs'[p'] = File("obj", <<p'>>)
        /\ IsAsmFile(p)' \/ (IsCFile(p)' /\ command'.mode \in {"link", "compile"} /\ ~Represented')
             => fs'[o'] = File("obj", <<p'>>)
        /\ IsCFile(p)' /\ command'.mode = "asm" /\ ~Represented' => fs'[a'] = File("asm", <<p'>>)
        /\ IsCFile(p)' /\ Represented' /\ command'.mode \notin {"preprocess", "deps"}
             => fs'[o'] = File("json", <<p'>>)
    BY <1>c, <1>b, <2>1
  <2> QED BY <2>2 DEF Made, p, o, a
<1>d. \A k, of : File(k, of).kind = k /\ File(k, of).of = of
  BY DEF File
<1>1. CASE TakeObject \/ TakeLibrary
  <2>1. argi \in DOMAIN command.inputs /\ fs' = fs
    BY <1>1, <1>a, Inputs DEF TakeObject, TakeLibrary, AtInput, Keep
  <2>2. p[3] \notin {".c", ".s", ".asm"} /\ (p[3] = ".o" => fs[p].kind # "absent")
    BY <1>1, <1>b DEF TakeObject, TakeLibrary, IsLibraryOption, Exists
  <2>3. p[3] = ".o" => fs[p] = File("obj", <<p>>)
    <3> SUFFICES ASSUME p[3] = ".o" PROVE fs[p] = File("obj", <<p>>)
      OBVIOUS
    <3>1. fs[p] = given[p]
      BY <2>1, InputsStay, <1>a
    <3>2. SourceKind(p[3]) = "obj"
      BY DEF SourceKind
    <3> QED BY <2>1, <2>2, <3>1, <3>2 DEF GivenInputs
  <2>4. ~IsAsmFile(p) /\ ~IsCFile(p)
    BY <2>2 DEF IsAsmFile, IsCFile
  <2> QED BY <2>1, <2>3, <2>4, <1>c
<1>2. CASE \/ PreprocessorFails \/ ErrorsFound \/ EmissionFails
           \/ WarningsAreErrors \/ PrerequisitesFail \/ AssemblerFails
           \/ AllInputsTaken \/ InputRefused
  <2>1. status' = "failure" \/ argi' = argi
    BY <1>2 DEF PreprocessorFails, ErrorsFound, EmissionFails, WarningsAreErrors, PrerequisitesFail,
                AssemblerFails, AllInputsTaken, InputRefused, CompilationFails, ReturnFromAssembler,
                ReturnFromC, ReturnFromAsm, EndInputs
  <2> QED BY <2>1, <1>a
<1>3. CASE PreprocessOnly \/ Compiled
  <2>1. /\ pc \in {"preprocess", "compiled"} /\ fs' = fs
        /\ pc = "preprocess" => command.mode = "preprocess"
    BY <1>3 DEF PreprocessOnly, Compiled, Keep
  <2>2. /\ argi \in DOMAIN command.inputs /\ IsCFile(p) /\ asmFilename = a
    BY <2>1, <1>a, <1>b DEF Control, AtC, CStages, AsmOf, AsmFile
  <2>3. pc = "compiled" => /\ command.mode # "preprocess" /\ (genAsmOnly \/ depsOnly)
                           /\ depsOnly \/ fs[EmittedFile] = File(EmittedKind, <<p>>)
    BY <1>a, <1>b DEF Staged, AllMade, Emitted
  <2>4. /\ p[3] # ".o" /\ ~IsAsmFile(p)
    BY <2>2 DEF IsCFile, IsAsmFile
  <2>5. ~(command.mode \in {"link", "compile"} /\ ~Represented)
    BY <2>1, <2>3 DEF genAsmOnly, depsOnly, Represented
  <2>6. command.mode = "asm" /\ ~Represented => fs[a] = File("asm", <<p>>)
    BY <2>1, <2>2, <2>3, <1>b DEF depsOnly, Represented, EmittedFile, EmittedKind
  <2>7. Represented /\ command.mode \notin {"preprocess", "deps"} => fs[o] = File("json", <<p>>)
    BY <2>1, <2>3, <1>b DEF depsOnly, Represented, EmittedFile, EmittedKind
  <2> QED BY <2>1, <2>2, <2>4, <2>5, <2>6, <2>7, <1>c
<1>4. CASE InvokeAssembler
  <2>1. /\ pc = "assemble" /\ fs[Assembled].kind = "asm"
        /\ fs' = [q \in Paths |->
                    IF q = CompilationOutput(Input) THEN File("obj", fs[Assembled].of)
                    ELSE IF kept /\ q = ListingOf(Input) THEN File("other", fs[Assembled].of)
                    ELSE fs[q]]
    BY <1>4 DEF InvokeAssembler
  <2>2. argi \in DOMAIN command.inputs /\ IsTranslated(p)
    BY <2>1, <1>a, <1>b DEF Control
  <2>3. o \in Paths
    <3>1. o \in Mine
      BY <2>2, <1>a, <1>b, OutputsOfInput DEF Input
    <3> QED BY <3>1 DEF Mine
  <2>4. fs[Assembled].of = <<p>>
    <3>1. CASE IsCFile(p)
      <4>1. Assembled = asmFilename /\ ~genAsmOnly /\ ~depsOnly
        BY <3>1, <2>1, <1>a, <1>b DEF Assembled, Staged
      <4>2. fs[EmittedFile] = File(EmittedKind, <<p>>)
        BY <3>1, <4>1, <2>1, <1>a, <1>b DEF AllMade, Emitted
      <4>3. EmittedFile = asmFilename
        BY <4>1 DEF EmittedFile, genAsmOnly
      <4> QED BY <4>1, <4>2, <4>3, <1>d
    <3>2. CASE ~IsCFile(p)
      <4>1. Assembled = p /\ IsAsmFile(p)
        BY <3>2, <2>2, <1>b DEF Assembled, IsTranslated
      <4>2. fs[p] = given[p]
        BY <2>2, <1>a, <1>b, InputsStay
      <4>3. given[p].kind # "absent"
        BY <2>1, <4>1, <4>2
      <4>4. given[p] = File(SourceKind(p[3]), <<p>>)
        BY <4>3, <2>2, <1>a DEF GivenInputs
      <4> QED BY <4>1, <4>2, <4>4, <1>d
    <3> QED BY <3>1, <3>2
  <2>5. fs'[o] = File("obj", <<p>>)
    BY <2>1, <2>3, <2>4, <1>b
  <2>6. IsCFile(p) => ~genAsmOnly /\ ~depsOnly /\ command.mode # "preprocess"
    BY <2>1, <1>a, <1>b DEF Staged
  <2>7. p[3] # ".o"
    BY <2>2 DEF IsTranslated, IsCFile, IsAsmFile
  <2>8. ~(IsCFile(p) /\ command.mode = "asm") /\ ~(IsCFile(p) /\ Represented)
    BY <2>6 DEF genAsmOnly, Represented
  <2> HIDE DEF p, o, a
  <2> QED BY <2>2, <2>5, <2>7, <2>8, <1>c
<1>5. CASE \/ TakeC \/ TakeAsm \/ Preprocess \/ Compile
           \/ CreateAssemblyLanguageFile \/ WritePrerequisites
           \/ RemoveFile \/ RefuseToRemove \/ Removed
           \/ CreateLinkScript \/ CreateLinkScriptFails \/ Lwlink \/ LwlinkFails
           \/ CheckLinkingMap \/ MapUnreadable
           \/ ReadBlocks \/ BlocksUnreadable \/ Overwrite \/ OverwriteFails
  <2>1. argi' = argi
    BY <1>5 DEF TakeC, TakeAsm, Preprocess, Compile, CreateAssemblyLanguageFile,
                WritePrerequisites, CreateLinkScript, RemoveFile, RefuseToRemove, Removed,
                CreateLinkScriptFails, Lwlink, LwlinkFails, CheckLinkingMap, MapUnreadable,
                ReadBlocks, BlocksUnreadable, Overwrite, OverwriteFails, Keep
  <2> QED BY <2>1, <1>a
<1> QED BY <1>1, <1>2, <1>3, <1>4, <1>5 DEF Next

\* The assembly language or the representation of a C file in hand is emitted, and
\* nothing writes over it before it is assembled.
LEMMA EmittedStep ==
    ASSUME IInv, Typed, PlainNames, Noting, Staged, AllMade, Emitted, [Next]_vars, status' = "success"
    PROVE  Emitted'
<1>a. /\ command' = command /\ status = "success" /\ DOMAIN fs = Paths /\ Control
      /\ command \in Commands
  BY CommandStays, SuccessBefore DEF IInv, Untouched, Control
<1>b. ASSUME argi' = argi, asmFilename' = asmFilename
      PROVE  Input' = Input /\ EmittedFile' = EmittedFile /\ EmittedKind' = EmittedKind /\ depsOnly' = depsOnly
  BY <1>a, <1>b DEF Input, EmittedFile, EmittedKind, depsOnly, CompilationOutput, compileOnly
<1>1. CASE CreateAssemblyLanguageFile
  <2> DEFINE f == File(EmittedKind, <<Input>>)
             e == EmittedFile
  <2>1. pc = "emit" /\ fs' = [fs EXCEPT ![e] = f] /\ argi' = argi /\ asmFilename' = asmFilename
    BY <1>1 DEF CreateAssemblyLanguageFile, Written, Keep, lists
  <2>2. e \in Paths
    <3>1. AtC /\ IsTranslated(Input) /\ argi \in DOMAIN command.inputs
      BY <2>1, <1>a DEF Control, AtC, CStages
    <3>2. e \in Mine
      BY <3>1, <1>a, AsmFiles, OutputsOfInput DEF EmittedFile, Input
    <3> QED BY <3>2 DEF Mine
  <2>3. fs'[e] = f
    <3> HIDE DEF e, f
    <3> QED BY <2>1, <2>2, <1>a
  <2>4. e' = e /\ f' = f
    BY <2>1, <1>b DEF File
  <2> HIDE DEF e, f
  <2> QED BY <2>3, <2>4 DEF Emitted, e, f
<1>2. CASE WritePrerequisites
  <2>1. /\ pc = "dependencies" /\ fs' = [fs EXCEPT ![DependenciesOf(Input)] = File("other", <<Input>>)]
        /\ argi' = argi /\ asmFilename' = asmFilename
    BY <1>2 DEF WritePrerequisites, Written, Keep, lists
  <2>2. /\ argi \in DOMAIN command.inputs /\ IsTranslated(Input) /\ asmFilename = AsmFile(Input)
    BY <2>1, <1>a DEF Control, AtC, CStages, AsmOf, AsmFile, Input
  <2>3. EmittedFile # DependenciesOf(Input)
    BY <2>2, <1>a, OutputNames DEF EmittedFile, Input
  <2>4. EmittedFile \in Paths
    <3>1. EmittedFile \in Writes(Input)
      BY <2>2 DEF EmittedFile, Writes
    <3> QED BY <3>1, <2>2, <1>a, OutputNames DEF Input
  <2>5. fs'[EmittedFile] = fs[EmittedFile]
    BY <2>1, <2>3, <2>4, <1>a
  <2>6. depsOnly \/ fs[EmittedFile] = File(EmittedKind, <<Input>>)
    BY <2>1 DEF Emitted
  <2>7. depsOnly' \/ fs'[EmittedFile'] = File(EmittedKind', <<Input'>>)
    BY <2>1, <2>5, <2>6, <1>b
  <2> QED BY <2>7 DEF Emitted
<1>3. CASE Preprocess
  <2>1. pc' = "dependencies" => depsOnly'
    BY <1>3, <1>a DEF Preprocess, depsOnly
  <2>2. pc' \in {"dependencies", "compile"}
    BY <1>3 DEF Preprocess
  <2> QED BY <2>1, <2>2 DEF Emitted
<1>4. CASE TakeAsm
  <2>1. pc' = "assemble" /\ Input' = Input /\ ~IsCFile(Input)
    BY <1>4, <1>a DEF TakeAsm, Keep, Input, IsCFile, IsAsmFile
  <2> QED BY <2>1 DEF Emitted, IsCFile
<1>5. CASE \/ PreprocessorFails \/ PreprocessOnly \/ ErrorsFound \/ EmissionFails
           \/ WarningsAreErrors \/ PrerequisitesFail \/ Compiled
           \/ InvokeAssembler \/ AssemblerFails
  <2>1. PICK ok \in BOOLEAN : ReturnFromC(ok) \/ ReturnFromAsm(ok)
    BY <1>5, <1>a, Returns
  <2>2. pc' \in {"input", "clean"}
    BY <2>1 DEF ReturnFromC, ReturnFromAsm, NextInput, EndInputs
  <2> QED BY <2>2 DEF Emitted
<1>6. CASE \/ AllInputsTaken \/ InputRefused \/ TakeObject \/ TakeLibrary \/ TakeC \/ Compile
           \/ RefuseToRemove \/ Removed
           \/ CreateLinkScript \/ CreateLinkScriptFails \/ Lwlink \/ LwlinkFails
           \/ CheckLinkingMap \/ MapUnreadable
           \/ ReadBlocks \/ BlocksUnreadable \/ Overwrite \/ OverwriteFails
  <2>1. pc' \notin {"dependencies", "compiled", "assemble"}
    BY <1>6 DEF AllInputsTaken, InputRefused, TakeObject, TakeLibrary, TakeC, Compile, EndInputs, NextInput,
                CreateLinkScript, RefuseToRemove, Removed, AfterClean, AfterUnlink, BeginUnlink, Finish,
                CreateLinkScriptFails, Lwlink, LwlinkFails, CheckLinkingMap, MapUnreadable,
                ReadBlocks, BlocksUnreadable, Overwrite, OverwriteFails
  <2> QED BY <2>1 DEF Emitted
<1>7. CASE RemoveFile
  <2>1. pc' \in {"clean", "drop", "unlink"}
    BY <1>7 DEF RemoveFile, Removing, Keep
  <2> QED BY <2>1 DEF Emitted
<1>8. CASE UNCHANGED vars
  <2>1. pc' = pc /\ argi' = argi /\ asmFilename' = asmFilename /\ fs' = fs
    BY <1>8 DEF vars, lists
  <2>2. Input' = Input /\ EmittedFile' = EmittedFile /\ EmittedKind' = EmittedKind /\ depsOnly' = depsOnly
    BY <2>1, <1>b
  <2> QED BY <2>1, <2>2 DEF Emitted, IsCFile
<1> QED BY <1>1, <1>2, <1>3, <1>4, <1>5, <1>6, <1>7, <1>8 DEF Next

LEMMA AllMadeStep ==
    ASSUME IInv, Typed, PlainNames, GivenInputs, Noting, Staged, Sparing, AllMade, [Next]_vars
    PROVE  AllMade'
<1> SUFFICES ASSUME status' = "success" PROVE AllMade'
  BY DEF AllMade
<1>a. /\ command' = command /\ given' = given /\ status = "success" /\ DOMAIN fs = Paths /\ Control
      /\ command \in Commands /\ Emitted /\ compileOnly' = compileOnly /\ argi \in Nat
      /\ DOMAIN command.inputs = 1..Len(command.inputs) /\ Len(command.inputs) \in Nat
      /\ pc \in LinkStages => ~compileOnly /\ AllKnown
  BY CommandStays, SuccessBefore, Inputs DEF IInv, Untouched, Control, AllMade, compileOnly, Noting
<1>b. IInv'
  BY ControlStep, ListsStep, UntouchedStep DEF IInv
<1>1. Emitted'
  BY <1>a, EmittedStep
<1> SUFFICES ASSUME BeforeLinker' \/ (pc' = "done" /\ compileOnly), NEW i \in DOMAIN command.inputs,
                    i < argi'
             PROVE  Made(i)'
  BY <1>1, <1>a DEF AllMade
<1> DEFINE p == command.inputs[i]
           o == CompilationOutput(p)
           a == AsmFile(p)
\* A step from one of these stages to one of them, or to the end.
<1>2. \/ BeforeLinker
      \/ pc = "done" /\ compileOnly
  <2>1. CASE UNCHANGED vars
    BY <2>1, <1>a DEF vars, BeforeLinker, InLoop, CStages
  <2>2. CASE RemoveFile
    BY <2>2, <1>a DEF RemoveFile, Removing, Keep, BeforeLinker, InLoop, CStages, Staged, LinkStages
  <2>3. CASE Removed
    BY <2>3, <1>a DEF Removed, Removing, BeginUnlink, AfterUnlink, BeforeLinker, InLoop, CStages, LinkStages
  <2>4. CASE \/ AllInputsTaken \/ InputRefused \/ TakeObject \/ TakeLibrary \/ TakeC \/ TakeAsm
             \/ PreprocessorFails \/ PreprocessOnly \/ Preprocess \/ ErrorsFound \/ Compile
             \/ CreateAssemblyLanguageFile \/ EmissionFails \/ WarningsAreErrors
             \/ WritePrerequisites \/ PrerequisitesFail \/ Compiled
             \/ InvokeAssembler \/ AssemblerFails \/ CreateLinkScript \/ CreateLinkScriptFails
             \/ Lwlink \/ LwlinkFails
    BY <2>4 DEF BeforeLinker, InLoop, CStages, AllInputsTaken, InputRefused, TakeObject, TakeLibrary, TakeC, TakeAsm,
       PreprocessorFails, PreprocessOnly, Preprocess, ErrorsFound, Compile, AtInput,
       CreateAssemblyLanguageFile, EmissionFails, WarningsAreErrors, WritePrerequisites,
       PrerequisitesFail, Compiled, InvokeAssembler, AssemblerFails, CreateLinkScript,
       CreateLinkScriptFails, Lwlink, LwlinkFails
  <2>5. CASE CheckLinkingMap \/ MapUnreadable \/ RefuseToRemove
    BY <2>5 DEF CheckLinkingMap, MapUnreadable, RefuseToRemove, BeginUnlink, BeforeLinker, InLoop, CStages
  <2>6. CASE ReadBlocks \/ BlocksUnreadable \/ Overwrite \/ OverwriteFails
    BY <2>6, <1>a DEF ReadBlocks, BlocksUnreadable, Overwrite, OverwriteFails, Finish, BeforeLinker, InLoop,
                      CStages, LinkStages
  <2> QED BY <2>1, <2>2, <2>3, <2>4, <2>5, <2>6 DEF Next
\* What was made before, where nothing writes over it.
<1>3. ASSUME i < argi,
             p[3] = ".o" => fs'[p] = fs[p],
             IsTranslated(p) => fs'[o] = fs[o] /\ (genAsmOnly => fs'[a] = fs[a])
      PROVE  Made(i)'
  <2>1. Made(i)
    BY <1>2, <1>3, <1>a DEF AllMade
  <2> QED BY <2>1, <1>3, <1>a, MadeStays
<1>4. p[3] = ".o" => fs'[p] = fs[p]
  <2> SUFFICES ASSUME p[3] = ".o" PROVE fs'[p] = fs[p]
    OBVIOUS
  <2>1. fs[p] = given[p]
    BY InputsStay
  <2>2. p \in Paths /\ p \notin Mine
    <3>1. ~SharesBase(i)
      BY DEF PlainNames
    <3> QED BY <3>1, <1>a, Inputs DEF Mine, Ours
  <2>3. p \in Paths' \ Mine'
    BY <2>2, <1>a, MineStays DEF Paths
  <2>4. fs'[p] = given'[p]
    BY <2>3, <1>b DEF IInv, Untouched
  <2> QED BY <2>1, <2>4, <1>a
<1>5. IsTranslated(p) => /\ o \in Paths /\ a \in Paths /\ o[3] \notin {".s", ".lst"} /\ a[3] = ".s"
                         /\ ~compileOnly => o[3] = ".o" /\ ~genAsmOnly
  <2>1. ~compileOnly => ~genAsmOnly
    BY DEF compileOnly, genAsmOnly
  <2>2. o \in Writes(p) /\ a \in Writes(p)
    BY DEF Writes
  <2> QED BY <2>1, <2>2, <1>a, OutputNames
<1>6. CASE InLoop
  <2>1. CASE i < argi
    <3>1. ASSUME IsTranslated(p), NEW f \in Results(p) PROVE fs'[f] = fs[f]
      <4>1. f \in Paths
        BY <3>1, <1>5 DEF Results
      <4>2. ASSUME pc \in CStages \cup {"assemble"} PROVE f \notin Writes(Input)
        <5>1. argi \in DOMAIN command.inputs /\ IsTranslated(command.inputs[argi]) /\ argi # i
          BY <4>2, <2>1, <1>a DEF Control, Input
        <5>2. Writes(command.inputs[argi]) \cap Results(command.inputs[i]) = {}
          BY <5>1, <3>1, <1>a, Apart
        <5> QED BY <5>2, <3>1 DEF Input
      <4> QED BY <4>1, <4>2, <1>a, <1>6, LoopWrites
    <3>2. IsTranslated(p) => fs'[o] = fs[o] /\ fs'[a] = fs[a]
      BY <3>1 DEF Results
    <3> QED BY <2>1, <3>2, <1>3, <1>4
  <2>2. CASE ~(i < argi)
    <3>1. argi' = argi \/ argi' = argi + 1
      BY <1>a, <1>6 DEF Next, AllInputsTaken, InputRefused, TakeObject, TakeLibrary, TakeC, TakeAsm,
         PreprocessorFails, PreprocessOnly, Preprocess, ErrorsFound, Compile,
         CreateAssemblyLanguageFile, EmissionFails, WarningsAreErrors, WritePrerequisites,
         PrerequisitesFail, Compiled, InvokeAssembler, AssemblerFails, RemoveFile,
         RefuseToRemove, Removed, CreateLinkScript, CreateLinkScriptFails, Lwlink, LwlinkFails,
         CheckLinkingMap, MapUnreadable, ReadBlocks, BlocksUnreadable, Overwrite,
         OverwriteFails, Keep, vars, CompilationFails, ReturnFromC, ReturnFromAsm,
         ReturnFromAssembler, NextInput, EndInputs
    <3>2. argi' = argi + 1 /\ i = argi /\ i \in Nat
      BY <2>2, <3>1, <1>a
    <3>3. Next
      <4>1. argi' # argi
        BY <3>2
      <4> QED BY <4>1 DEF vars
    <3> QED BY <3>2, <3>3, InputMade
  <2> QED BY <2>1, <2>2
<1>7. CASE ~InLoop
  <2>1. pc \in {"clean", "script", "link"} \/ (pc = "done" /\ compileOnly)
    BY <1>2, <1>7 DEF BeforeLinker
  <2>2. i < argi
    BY <2>1, <1>a DEF Staged
  <2>3. CASE RemoveFile
    <3> DEFINE h == Head(toRemove)
    <3>1. /\ pc = "clean" /\ toRemove # <<>>
          /\ fs' = [fs EXCEPT ![h] = Absent] \/ fs' = fs
      BY <2>3, <2>1 DEF RemoveFile, Removing
    <3>2. h \in Temporaries
      <4>1. toRemove \in Seq(Temporaries)
        BY <3>1, <1>a DEF Sparing
      <4> QED BY <4>1, <3>1
    <3>3. IsTranslated(p) => o # h /\ (genAsmOnly => a # h)
      BY <3>2, <1>5 DEF Temporaries
    <3> HIDE DEF h
    <3>4. IsTranslated(p) => fs'[o] = fs[o] /\ (genAsmOnly => fs'[a] = fs[a])
      BY <3>1, <3>3, <1>5, <1>a
    <3> QED BY <2>2, <3>4, <1>3, <1>4
  <2>4. CASE CreateLinkScript
    <3>1. \E f : fs' = [fs EXCEPT ![LinkScriptFile] = f]
      BY <2>4 DEF CreateLinkScript, Written
    <3>2. ~compileOnly /\ AllKnown
      BY <2>4, <1>a DEF CreateLinkScript, LinkStages
    <3>3. LinkScriptFile[3] = ".link"
      BY <3>2, <1>a, LinkNames
    <3>4. IsTranslated(p) => o # LinkScriptFile /\ ~genAsmOnly
      BY <3>2, <3>3, <1>5
    <3>5. IsTranslated(p) => fs'[o] = fs[o] /\ (genAsmOnly => fs'[a] = fs[a])
      BY <3>1, <3>4, <1>5, <1>a
    <3> QED BY <2>2, <3>5, <1>3, <1>4
  <2>5. CASE Removed \/ UNCHANGED vars
    <3>1. fs' = fs
      BY <2>5 DEF Removed, Keep, vars
    <3> QED BY <2>2, <3>1, <1>3
  <2>6. CASE CreateLinkScriptFails \/ Lwlink \/ LwlinkFails \/ RefuseToRemove
    <3>1. status' = "failure" \/ pc' = "check_map"
      BY <2>6 DEF CreateLinkScriptFails, Lwlink, LwlinkFails, RefuseToRemove
    <3> QED BY <3>1 DEF BeforeLinker, InLoop, CStages
  <2>7. CASE \/ AllInputsTaken \/ InputRefused \/ TakeObject \/ TakeLibrary \/ TakeC \/ TakeAsm
             \/ PreprocessorFails \/ PreprocessOnly \/ Preprocess \/ ErrorsFound \/ Compile
             \/ CreateAssemblyLanguageFile \/ EmissionFails \/ WarningsAreErrors
             \/ WritePrerequisites \/ PrerequisitesFail \/ Compiled
             \/ InvokeAssembler \/ AssemblerFails
             \/ CheckLinkingMap \/ MapUnreadable \/ ReadBlocks \/ BlocksUnreadable
             \/ Overwrite \/ OverwriteFails
    BY <2>1, <2>7 DEF InLoop, CStages, AllInputsTaken, InputRefused, TakeObject, TakeLibrary, TakeC, TakeAsm,
       PreprocessorFails, PreprocessOnly, Preprocess, ErrorsFound, Compile, AtInput,
       CreateAssemblyLanguageFile, EmissionFails, WarningsAreErrors, WritePrerequisites,
       PrerequisitesFail, Compiled, InvokeAssembler, AssemblerFails, CheckLinkingMap, MapUnreadable,
       ReadBlocks, BlocksUnreadable, Overwrite, OverwriteFails
  <2> QED BY <2>3, <2>4, <2>5, <2>6, <2>7 DEF Next
<1> QED BY <1>6, <1>7

-----------------------------------------------------------------------------
(* The program that is linked of what was made. *)

\* The executable is of the inputs, as they are and in their order, and of this kind.
ProgramOfInputs(kind) ==
    fs[Executable].of = ModuleInputs \o Libraries /\ fs[Executable].kind = kind
ProgramKind == IF command.platform = "DRAGON" THEN "dragon" ELSE "exe"

ProgramMade ==
    status = "success" =>
        /\ pc \in {"check_map", "unlink", "read_blocks", "overwrite"} => ProgramOfInputs("exe")
        /\ pc = "done" /\ ~compileOnly => ProgramOfInputs(ProgramKind)

\* The linker is told the modules that the inputs became, and nothing else.
LEMMA LinkedOfInputs ==
    ASSUME IInv, PlainNames, Noting, Staged, Listed, AllMade, Lwlink, status = "success"
    PROVE  Modules = ModuleInputs /\ libraryFilenames = Libraries
<1> DEFINE N == Directories \X Bases \X Extensions
           ins == command.inputs
           q == ModuleInputs
           os == objectFilenames
<1>1. /\ command \in Commands /\ pc = "link" /\ ~compileOnly /\ argi = Len(ins) + 1
      /\ Len(ins) \in Nat /\ DOMAIN ins = 1..Len(ins)
  BY Inputs DEF IInv, Control, Noting, LinkStages, Lwlink, Staged
<1>2. command.mode = "link" /\ command.platform # "INTERM_REP"
  BY <1>1 DEF compileOnly
<1>3. ins \in Seq(N)
  BY <1>1, NamesAssumption
<1>4. SubSeq(ins, 1, argi - 1) = ins
  <2> HIDE DEF N, ins
  <2> QED BY <1>1, <1>3
<1>5. TakenOf(ModuleExtensions) = q /\ TakenOf(LibraryExtensions) = Libraries
  <2>1. \A exts : TakenOf(exts) = OfExtensions(ins, exts)
    BY <1>4 DEF TakenOf
  <2> QED BY <2>1 DEF ModuleInputs, Libraries, LibraryExtensions
<1>6. q \in Seq(N)
  <2> HIDE DEF N
  <2>1. PICK r : ChosenBy(r, ins, ModuleExtensions) /\ \A k \in 0..Len(ins) : r[k] \in Seq(N)
    BY <1>3, ChosenSteps
  <2>2. Len(ins) \in 0..Len(ins)
    BY <1>1
  <2> QED BY <2>1, <2>2 DEF ChosenBy, ModuleInputs
<1>7. NotedFor(q, os) /\ libraryFilenames = Libraries
  BY <1>1, <1>5 DEF Listed, BeforeLinker
<1>8. /\ DOMAIN os = 1..Len(q) /\ Len(q) \in Nat /\ DOMAIN q = 1..Len(q)
      /\ \A k \in 1..Len(q) : q[k] \in N
  <2>1. Len(os) \in Nat /\ DOMAIN os = 1..Len(os)
    BY DEF IInv, Lists
  <2> HIDE DEF N, q
  <2> QED BY <2>1, <1>6, <1>7 DEF NotedFor
<1>9. ASSUME NEW k \in 1..Len(q) PROVE fs[ObjectsToLink[k]].of[1] = q[k]
  <2>1. ObjectsToLink[k] = UseIntDir(command.intdir, ObjectOf(q[k])) /\ q[k][3] \in ModuleExtensions
    BY <1>7, <1>8 DEF ObjectsToLink, NotedFor
  <2>2. PICK i \in DOMAIN ins : i < argi /\ q[k] = ins[i]
    BY <1>7 DEF NotedFor
  <2>3. Made(i)
    BY <1>1, <2>2 DEF AllMade, BeforeLinker
  <2> DEFINE p == ins[i]
  <2>4. fs[ObjectsToLink[k]] = File("obj", <<p>>)
    <3>1. CASE p[3] = ".o"
      <4>1. UseIntDir(command.intdir, p) = p
        BY <3>1 DEF PlainNames
      <4>2. ObjectsToLink[k] = p
        BY <2>1, <2>2, <3>1, <4>1 DEF ObjectOf
      <4> QED BY <2>3, <3>1, <4>2 DEF Made
    <3>2. CASE p[3] # ".o"
      <4>1. IsAsmFile(p) \/ IsCFile(p)
        BY <2>1, <2>2, <3>2 DEF ModuleExtensions, IsAsmFile, IsCFile
      <4>2. CompilationOutput(p) = UseIntDir(command.intdir, ModuleFile(p, ".o"))
        BY <1>1, <1>2 DEF CompilationOutput
      <4>3. ObjectsToLink[k] = CompilationOutput(p)
        BY <2>1, <2>2, <3>2, <4>2 DEF ObjectOf
      <4> QED BY <2>3, <4>1, <4>3, <1>2 DEF Made, Represented
    <3> QED BY <3>1, <3>2
  <2> QED BY <2>2, <2>4 DEF File
<1>10. Modules = q
  <2>1. Modules = [k \in 1..Len(q) |-> fs[ObjectsToLink[k]].of[1]]
    BY <1>8 DEF Modules
  <2>2. q = [k \in 1..Len(q) |-> q[k]]
    <3> HIDE DEF q, N
    <3> QED BY <1>6
  <2> HIDE DEF q
  <2> QED BY <2>1, <2>2, <1>9
<1> QED BY <1>7, <1>10

LEMMA ProgramMadeStep ==
    ASSUME IInv, Typed, PlainNames, Noting, Staged, Listed, Sparing, AllMade, ProgramMade, [Next]_vars
    PROVE  ProgramMade'
<1> SUFFICES ASSUME status' = "success" PROVE ProgramMade'
  BY DEF ProgramMade
<1>a. /\ status = "success" /\ command' = command /\ command \in Commands /\ DOMAIN fs = Paths
      /\ Executable' = Executable /\ ModuleInputs' = ModuleInputs /\ Libraries' = Libraries
      /\ compileOnly' = compileOnly /\ ProgramKind' = ProgramKind
      /\ pc \in LinkStages => ~compileOnly /\ AllKnown
  BY CommandStays, SuccessBefore DEF IInv, Control, Untouched, Executable, ModuleInputs, Libraries,
     compileOnly, ProgramKind, ExecutableExtension, Noting
<1>b. ASSUME pc \in LinkStages
      PROVE  /\ Executable \in Paths /\ Executable # MapFile
             /\ Executable \notin LinkTemporaries
  BY <1>a, <1>b, LinkNames DEF LinkTemporaries
<1>c. ASSUME fs'[Executable] = fs[Executable]
      PROVE  \A kind : ProgramOfInputs(kind)' = ProgramOfInputs(kind)
  BY <1>a, <1>c DEF ProgramOfInputs
<1>1. CASE Lwlink
  <2>1. pc = "link" /\ pc' = "check_map" /\ Modules = ModuleInputs /\ libraryFilenames = Libraries
    BY <1>1, <1>a, LinkedOfInputs DEF Lwlink
  <2>2. PICK bs, m : fs' = [fs EXCEPT
                   ![Executable] = [File("exe", Modules \o libraryFilenames) EXCEPT !.blocks = bs],
                   ![MapFile] = m]
    BY <1>1 DEF Lwlink
  <2>3. fs'[Executable] = [File("exe", Modules \o libraryFilenames) EXCEPT !.blocks = bs]
    BY <2>1, <2>2, <1>a, <1>b DEF LinkStages
  <2>4. fs'[Executable].of = ModuleInputs \o Libraries /\ fs'[Executable].kind = "exe"
    BY <2>1, <2>3 DEF File
  <2>5. ProgramOfInputs("exe")'
    BY <2>4, <1>a DEF ProgramOfInputs
  <2> QED BY <2>1, <2>5 DEF ProgramMade
<1>2. CASE CheckLinkingMap
  <2>1. pc = "check_map" /\ pc' = "unlink" /\ fs' = fs
    BY <1>2 DEF CheckLinkingMap, BeginUnlink, Keep
  <2> QED BY <2>1, <1>a, <1>c DEF ProgramMade
<1>3. CASE RemoveFile
  <2> DEFINE h == Head(toRemove)
  <2>1. /\ pc' = pc /\ pc \in {"clean", "drop", "unlink"} /\ toRemove # <<>>
        /\ fs' = [fs EXCEPT ![h] = Absent] \/ fs' = fs
    BY <1>3 DEF RemoveFile, Removing, Keep
  <2>2. CASE pc = "unlink"
    <3>1. h \in LinkTemporaries
      <4>1. toRemove \in Seq(LinkTemporaries)
        BY <2>2, <1>a DEF Sparing
      <4> QED BY <4>1, <2>1
    <3>2. h # Executable /\ Executable \in Paths
      BY <2>2, <3>1, <1>b DEF LinkStages
    <3> HIDE DEF h
    <3>3. fs'[Executable] = fs[Executable]
      BY <2>1, <3>2, <1>a
    <3> QED BY <2>1, <2>2, <3>3, <1>a, <1>c DEF ProgramMade
  <2> QED BY <2>1, <2>2 DEF ProgramMade
<1>4. CASE Removed
  <2>1. fs' = fs /\ \/ pc = "clean" /\ (pc' = "script" \/ compileOnly)
                    \/ pc = "drop"
                    \/ pc = "unlink" /\ pc' = IF command.platform = "DRAGON" THEN "read_blocks" ELSE "done"
    BY <1>4, <1>a DEF Removed, AfterClean, AfterUnlink, Keep
  <2>2. pc # "drop"
    BY <1>a DEF Staged
  <2>3. pc = "clean" /\ compileOnly => pc' \in {"script", "done"}
    BY <1>4 DEF Removed, AfterClean
  <2>4. pc = "unlink" => ProgramOfInputs("exe")
    BY <1>a DEF ProgramMade
  <2>5. pc = "unlink" => ProgramOfInputs("exe")' /\ (pc' = "done" => ProgramKind = "exe")
    BY <2>1, <2>4, <1>c DEF ProgramKind
  <2> QED BY <2>1, <2>2, <2>3, <2>5, <1>a DEF ProgramMade
<1>5. CASE ReadBlocks
  <2>1. pc = "read_blocks" /\ pc' = "overwrite" /\ fs' = fs
    BY <1>5 DEF ReadBlocks, Keep
  <2> QED BY <2>1, <1>a, <1>c DEF ProgramMade
<1>6. CASE Overwrite
  <2>1. /\ pc = "overwrite" /\ pc' = "done"
        /\ fs' = [fs EXCEPT ![Executable] = [fs[Executable] EXCEPT !.kind = "dragon", !.blocks = <<SingleBlock(blocks)>>]]
    BY <1>6 DEF Overwrite, Finish, Written
  <2>2. ProgramOfInputs("exe") /\ command.platform = "DRAGON" /\ Executable \in Paths
    BY <2>1, <1>a, <1>b DEF ProgramMade, Staged, LinkStages
  <2>3. IsFile(fs[Executable])
    BY <2>2 DEF Typed
  <2>4. fs'[Executable].of = fs[Executable].of /\ fs'[Executable].kind = "dragon"
    BY <2>1, <2>2, <2>3, <1>a DEF IsFile
  <2>5. ProgramOfInputs("dragon")' /\ ProgramKind = "dragon"
    BY <2>2, <2>4, <1>a DEF ProgramOfInputs, ProgramKind
  <2> QED BY <2>1, <2>5, <1>a DEF ProgramMade
<1>7. CASE \/ InputRefused \/ RefuseToRemove \/ CreateLinkScriptFails \/ LwlinkFails
           \/ MapUnreadable \/ BlocksUnreadable \/ OverwriteFails
  <2>1. status' = "failure"
    BY <1>7 DEF InputRefused, EndInputs, RefuseToRemove, CreateLinkScriptFails, LwlinkFails,
                MapUnreadable, BlocksUnreadable, OverwriteFails
  <2> QED BY <2>1
<1>8. CASE \/ PreprocessorFails \/ PreprocessOnly \/ ErrorsFound \/ EmissionFails
           \/ WarningsAreErrors \/ PrerequisitesFail \/ Compiled
           \/ InvokeAssembler \/ AssemblerFails
  <2>1. PICK ok \in BOOLEAN : ReturnFromC(ok) \/ ReturnFromAsm(ok)
    BY <1>8, Returns DEF IInv
  <2>2. pc' \in {"input", "clean"}
    BY <2>1 DEF ReturnFromC, ReturnFromAsm, NextInput, EndInputs
  <2> QED BY <2>2 DEF ProgramMade
<1>9. CASE \/ AllInputsTaken \/ TakeObject \/ TakeLibrary \/ TakeC \/ TakeAsm \/ Preprocess \/ Compile
           \/ CreateAssemblyLanguageFile \/ WritePrerequisites \/ CreateLinkScript
  <2>1. pc' \in CStages \cup {"input", "assemble", "clean", "link"}
    BY <1>9 DEF AllInputsTaken, EndInputs, TakeObject, TakeLibrary, NextInput, TakeC, TakeAsm, Preprocess,
                Compile, CreateAssemblyLanguageFile, WritePrerequisites, CreateLinkScript, CStages
  <2> QED BY <2>1 DEF ProgramMade, CStages
<1>10. CASE UNCHANGED vars
  <2>1. fs' = fs /\ pc' = pc
    BY <1>10 DEF vars
  <2> QED BY <2>1, <1>a, <1>c DEF ProgramMade
<1> QED BY <1>1, <1>2, <1>3, <1>4, <1>5, <1>6, <1>7, <1>8, <1>9, <1>10 DEF Next

-----------------------------------------------------------------------------
(* What success means. *)

\* What a successful command has come to, where the names are plain.
Coming == GivenInputs /\ Staged /\ Listed /\ Sparing /\ AllMade /\ ProgramMade

LEMMA ComingStep ==
    ASSUME IInv, Typed, PlainNames, Noting, Coming, [Next]_vars
    PROVE  Coming'
<1>1. GivenInputs'
  <2>1. command' = command /\ given' = given /\ GivenInputs
    BY CommandStays DEF Coming
  <2> QED BY <2>1 DEF GivenInputs, SourceKind
<1>2. Staged' /\ Listed'
  BY StagedStep, ListedStep DEF Coming
<1>3. Sparing' /\ AllMade' /\ ProgramMade'
  BY SparingStep, AllMadeStep, ProgramMadeStep DEF Coming
<1> QED BY <1>1, <1>2, <1>3 DEF Coming

LEMMA InitComing == ASSUME Init PROVE Coming
<1>1. /\ command \in Commands /\ fs = given /\ pc = "input" /\ argi = 1 /\ status = "success"
      /\ objectFilenames = <<>> /\ libraryFilenames = <<>> /\ intermediateCompilationFiles = <<>>
      /\ \E stale \in Stale : given = [p \in Paths |-> Before(command, stale, p)]
  BY DEF Init
<1>2. PICK stale : given = [p \in Paths |-> Before(command, stale, p)]
  BY <1>1
<1>3. GivenInputs
  <2> SUFFICES ASSUME NEW i \in DOMAIN command.inputs, given[command.inputs[i]].kind # "absent"
               PROVE  given[command.inputs[i]] = File(SourceKind(command.inputs[i][3]), <<command.inputs[i]>>)
    BY DEF GivenInputs
  <2> DEFINE p == command.inputs[i]
  <2>1. given[p] = Before(command, stale, p)
    BY <1>1, <1>2, Inputs
  <2>2. Absent.kind = "absent"
    BY DEF Absent, File
  <2>3. p \notin Missing
    BY <2>1, <2>2 DEF Before
  <2>4. p \in {command.inputs[j] : j \in DOMAIN command.inputs}
    OBVIOUS
  <2> HIDE DEF p
  <2>5. given[p] = File(SourceKind(p[3]), <<p>>)
    BY <2>1, <2>3, <2>4 DEF Before
  <2> QED BY <2>5 DEF p
<1>4. Staged
  BY <1>1 DEF Staged
<1>5. Listed
  <2>1. \A exts : TakenOf(exts) = <<>>
    <3>1. SubSeq(command.inputs, 1, argi - 1) = <<>>
      <4> DEFINE N == Directories \X Bases \X Extensions
      <4>1. command.inputs \in Seq(N)
        BY <1>1, NamesAssumption
      <4> HIDE DEF N
      <4>2. argi - 1 = 0
        BY <1>1
      <4> QED BY <4>1, <4>2
    <3> QED BY <3>1, NothingChosen DEF TakenOf
  <2>2. Len(objectFilenames) = 0 /\ 1..Len(objectFilenames) = {}
    BY <1>1
  <2> QED BY <1>1, <2>1, <2>2 DEF Listed, NotedFor
<1>6. Sparing
  <2>1. <<>> \in Seq(Temporaries)
    OBVIOUS
  <2> QED BY <1>1, <2>1 DEF Sparing
<1>7. AllMade
  <2>1. \A i \in DOMAIN command.inputs : ~(i < argi)
    BY <1>1, Inputs
  <2> QED BY <1>1, <2>1 DEF AllMade, Emitted
<1>8. ProgramMade
  BY <1>1 DEF ProgramMade
<1> QED BY <1>3, <1>4, <1>5, <1>6, <1>7, <1>8 DEF Coming

LEMMA ComingIsMade ==
    ASSUME IInv, Coming
    PROVE  ResultsAreOfTheInputs
<1> SUFFICES ASSUME pc = "done", status = "success" PROVE ResultsAreOfTheInputs
  BY DEF ResultsAreOfTheInputs, Done
<1>1. CASE ~compileOnly
  BY <1>1 DEF Coming, ProgramMade, ProgramOfInputs, ProgramKind, ResultsAreOfTheInputs
<1>2. CASE compileOnly
  <2>1. argi = Len(command.inputs) + 1
    BY <1>2 DEF Coming, Staged
  <2>2. \A i \in DOMAIN command.inputs : i < argi
    BY <2>1, Inputs DEF IInv, Control
  <2>3. \A i \in DOMAIN command.inputs : Made(i)
    BY <1>2, <2>2 DEF Coming, AllMade
  <2> QED BY <1>2, <2>3 DEF Made, Represented, AsmFile, ResultsAreOfTheInputs
<1> QED BY <1>1, <1>2

\* Where no two inputs make the same file and -o names none of the tools' own files, a
\* command that ends with success has made what it was asked for of the inputs as they
\* are: no stale file is linked, no failure of a tool goes unnoticed and nothing that is
\* asked for is removed or written over, for any inputs, options and files there before.
THEOREM SuccessIsOfTheInputs == Spec => [](PlainNames => ResultsAreOfTheInputs)
<1>1. Init => Noting /\ (PlainNames => Coming)
  <2> SUFFICES ASSUME Init PROVE Noting /\ (PlainNames => Coming)
    OBVIOUS
  <2>1. pc = "input" /\ intermediateObjectFiles = <<>> /\ status = "success"
    BY DEF Init
  <2>2. Noting
    BY <2>1, RangeOfFew DEF Noting, LinkStages
  <2> QED BY <2>2, InitComing
<1>2. [Next]_vars => PlainNames' = PlainNames
  BY CommandStays DEF PlainNames, SharesBase, compileOnly
<1>3. IInv /\ Typed /\ Noting /\ (PlainNames => Coming) /\ [Next]_vars
        => Noting' /\ (PlainNames => Coming)'
  BY <1>2, NotingStep, ComingStep
<1>4. Spec => [](Noting /\ (PlainNames => Coming))
  BY <1>1, <1>3, Invariance, AlwaysTyped, PTL DEF Spec
<1>5. IInv /\ (PlainNames => Coming) => (PlainNames => ResultsAreOfTheInputs)
  BY ComingIsMade
<1> QED BY <1>4, <1>5, Invariance, PTL

==============================================================================
