------------------------------- MODULE MCDriver --------------------------------
(* Command lines with the inputs and options that main() tells apart.          *)
EXTENDS Driver

MCBases == {"a", "b", "m", "x"}
MCDirectories == {"", "sub", "int"}
MCExtensions == {"", ".c", ".s", ".o", ".a", ".lst", ".d", ".json", ".link", ".map", ".bin", ".h", "-l", ".txt"}

\* a and m are modules, b is one with the symbol of a; x is a library or another name.
MCDefines == [base \in MCBases |->
                CASE base \in {"a", "b"} -> {"_f"} [] base = "m" -> {"_main"} [] OTHER -> {"_g"}]
MCStatics == [base \in MCBases |-> IF base = "m" THEN {"_s"} ELSE {}]
MCSizes == [base \in MCBases |->
              CASE base = "a" -> [code |-> 2, bss |-> 1]
                [] base = "m" -> [code |-> 1, rwdata |-> 1, initgl |-> 1]
                [] OTHER -> [code |-> 1]]

\* A pragma in x.c sets the limit.
MCPragmas == [base \in MCBases \cup {""} |->
                IF base = "x" THEN [NoPragma EXCEPT !.limit = 9] ELSE NoPragma]

MCStale == {{}, {".s", ".o", ".lst", ".bin", ".map"}}
MCMissing == {<<"", "x", ".a">>}

A == <<"", "a", ".c">>
B == <<"", "b", ".c">>
M == <<"", "m", ".c">>
X == <<"", "x", ".c">>
SubA == <<"sub", "a", ".c">>
SubS == <<"sub", "a", ".s">>
SubO == <<"sub", "b", ".o">>
AsmM == <<"", "m", ".s">>
ObjA == <<"", "a", ".o">>
LibB == <<"", "b", ".a">>
OptL == <<"", "b", "-l">>

Plain(inputs) ==
    [inputs |-> inputs, mode |-> "link", kept |-> FALSE, intdir |-> "", output |-> NoOutput,
     deps |-> FALSE, werror |-> FALSE, platform |-> "COCO_BASIC",
     code |-> 3, data |-> NoAddress, limit |-> NoAddress]

MCCommands ==
    {Plain(is) : is \in {<<M>>, <<M, A>>, <<A, B>>, <<SubA, A>>, <<A, SubS>>, <<M, ObjA, LibB>>,
                         <<AsmM, SubA, OptL>>, <<M, <<"", "x", ".a">>>>, <<M, <<"", "x", ".txt">>>>}}
    \cup {[Plain(<<M, A>>) EXCEPT !.kept = TRUE, !.intdir = dir, !.werror = w] :
            dir \in {"", "int"}, w \in BOOLEAN}
    \cup {[Plain(<<M, A, SubO>>) EXCEPT !.intdir = "int", !.output = <<"sub", "x", ".bin">>]}
    \cup {[Plain(<<A, AsmM>>) EXCEPT !.mode = mode, !.deps = deps] :
            mode \in {"compile", "asm", "deps", "preprocess"}, deps \in BOOLEAN}
    \cup {[Plain(<<A>>) EXCEPT !.mode = mode, !.output = <<"sub", "m", ".o">>, !.intdir = "int"] :
            mode \in {"compile", "asm"}}
    \cup {[Plain(<<A, M>>) EXCEPT !.platform = "INTERM_REP", !.deps = deps] : deps \in BOOLEAN}
    \cup {[Plain(<<A, AsmM>>) EXCEPT !.platform = "INTERM_REP", !.mode = mode] :
            mode \in {"asm", "deps", "preprocess"}}
    \cup {[Plain(<<M, A>>) EXCEPT !.limit = limit, !.output = out] :
            limit \in {8, 9}, out \in {NoOutput, <<"", "x", ".h">>}}
    \cup {[Plain(<<X, M, A>>) EXCEPT !.limit = 8], [Plain(<<X, M>>) EXCEPT !.mode = "compile"],
          [Plain(<<M, A>>) EXCEPT !.limit = 9, !.data = 1],
          [Plain(<<M, A>>) EXCEPT !.limit = 7, !.platform = "OS9"],
          [Plain(<<M>>) EXCEPT !.platform = "DRAGON"]}

MCAddressSpace == 12
\* Lists of at most two blocks that end below the last address.
MCBlocks == {Block(a, <<>>) : a \in {2, 4}} \cup {Block(a, <<1>>) : a \in {2, 5}}
                \cup {Block(a, <<2, 3>>) : a \in {1, 2, 6}} \cup {Block(1, <<4, 5, 6>>)}
MCBlockLists == {<<>>} \cup {<<b>> : b \in MCBlocks} \cup (MCBlocks \X MCBlocks)

ASSUME MCProgramsAssumption == StaticsHideNothing /\ BlocksEndInside
=============================================================================
