--------------------------- MODULE CalledFunctions ---------------------------
(***************************************************************************)
(* Which functions of a translation unit get assembly code.                *)
(*                                                                         *)
(* The semantic checker visits the program and records, in callGraph, each *)
(* call, each address taken and each function name in inline assembly      *)
(* (TranslationUnit::registerFunctionCall).  detectCalledFunctions() then  *)
(* walks that graph from the roots with a work list that grows while it is *)
(* being read, and marks what it found as called.  emitAssembler() goes    *)
(* twice over the definitions and emits the called or external ones.       *)
(***************************************************************************)
EXTENDS Integers, Sequences, FiniteSets

CONSTANTS
    Function,     \* every function identifier the program mentions
    Main,         \* the identifier "main"
    Defs,         \* those with a FunctionDef (a prototype or a definition)
    Body,         \* those whose FunctionDef has a body
    Static,       \* those with internal linkage
    Definitions,  \* the bodies, in the order of definitionList
    MaxVisits     \* bound: references that the checker meets

NoCaller == "global scope"

ASSUME ProgramAssumption ==
    /\ Main \in Function /\ Main \notin Static
    /\ Body \subseteq Defs /\ Defs \subseteq Function /\ Static \subseteq Defs
    /\ NoCaller \notin Function
    /\ Definitions \in Seq(Body)
    /\ \A f \in Body : \E i \in 1..Len(Definitions) : Definitions[i] = f
    /\ MaxVisits \in Nat

VARIABLES
    phase,      \* "check", "roots", "scan", "mark", "emit1", "emit2", "done"
    visits,     \* references met so far (bounded by MaxVisits)
    asmRefs,    \* asmRefs[c]: functions named by the asm{} text of c
    callGraph,  \* TranslationUnit::callGraph, without repetition per caller
    called,     \* functions whose FunctionDef::called is set
    list,       \* calledFunctionIds
    index,      \* 1-based index of the caller being processed
    callee,     \* 1-based index in callGraph[list[index]]
    initSize,   \* size of list when the current outer iteration started
    pos,        \* 1-based position in definitionList during emission
    emitted     \* emittedFunctions

vars == <<phase, visits, asmRefs, callGraph, called, list, index, callee,
          initSize, pos, emitted>>

Elements(s) == {s[i] : i \in 1..Len(s)}

PushBackUnique(s, x) == IF x \in Elements(s) THEN s ELSE Append(s, x)

\* The roots of detectCalledFunctions(): main and the external definitions.
Roots == {Main} \cup (Body \ Static)

Init ==
    /\ phase = "check"
    /\ visits = 0
    /\ asmRefs = [c \in Function \cup {NoCaller} |-> {}]
    /\ callGraph = [f \in Function |-> <<>>]
    /\ called = {}
    /\ list = <<>>
    /\ index = 1 /\ callee = 1 /\ initSize = 0
    /\ pos = 1
    /\ emitted = {}

-----------------------------------------------------------------------------
(* Slips that the properties below rule out; no behaviour of Spec uses them. *)

\* The first outer iteration reads one caller too many.
StartScanPastEnd ==
    /\ phase = "roots"
    /\ Body \ Static \subseteq Elements(Tail(list))
    /\ phase' = "scan"
    /\ index' = 1 /\ callee' = 1
    /\ initSize' = Len(list) + 1
    /\ UNCHANGED <<visits, asmRefs, callGraph, called, list, pos, emitted>>

\* Only the roots are walked.
EndScanAfterRoots ==
    /\ phase = "scan"
    /\ index > initSize
    /\ phase' = "mark"
    /\ UNCHANGED <<visits, asmRefs, callGraph, called, list, index, callee,
                   initSize, pos, emitted>>

\* The first callee of every caller but the first one is skipped.
NextCallerSkipsOne ==
    /\ phase = "scan"
    /\ index <= initSize
    /\ callee > Len(callGraph[list[index]])
    /\ index' = index + 1 /\ callee' = 2
    /\ UNCHANGED <<phase, visits, asmRefs, callGraph, called, list, initSize,
                   pos, emitted>>

\* ++index is missing.
NextCallerStays ==
    /\ phase = "scan"
    /\ index <= initSize
    /\ callee > Len(callGraph[list[index]])
    /\ callee' = 1
    /\ UNCHANGED <<phase, visits, asmRefs, callGraph, called, list, index,
                   initSize, pos, emitted>>

\* Static definitions are taken as roots too.
PushRootOfAnyLinkage(f) ==
    /\ phase = "roots"
    /\ f \in Body
    /\ f \notin Elements(Tail(list))
    /\ list' = Append(list, f)
    /\ UNCHANGED <<phase, visits, asmRefs, callGraph, called, index, callee,
                   initSize, pos, emitted>>

\* asm{} text is registered by the checker and marked at emission only.
VisitAsmReferenceUnmarked(callerId, calleeId) ==
    /\ phase = "check" /\ visits < MaxVisits
    /\ visits' = visits + 1
    /\ asmRefs' = [asmRefs EXCEPT ![callerId] = @ \cup {calleeId}]
    /\ UNCHANGED <<phase, callGraph, called, list, index, callee, initSize, pos,
                   emitted>>

-----------------------------------------------------------------------------
(* Semantic checking: SemanticsChecker meets one reference per step.        *)

RegisterFunctionCall(callerId, calleeId) ==
    callGraph' = [callGraph EXCEPT ![callerId] = PushBackUnique(@, calleeId)]

\* A call, or an address taken, in a body or in a global initializer; the
\* latter is attributed to main.  The callee may be undeclared.
VisitReference(callerId, calleeId) ==
    /\ phase = "check" /\ visits < MaxVisits
    /\ visits' = visits + 1
    /\ RegisterFunctionCall(IF callerId = NoCaller THEN Main ELSE callerId,
                            calleeId)
    /\ UNCHANGED <<phase, asmRefs, called, list, index, callee, initSize, pos,
                   emitted>>

\* A function name in asm{} text: marked right away, registered if the text is
\* in a function.
VisitAsmReference(callerId, calleeId) ==
    /\ phase = "check" /\ visits < MaxVisits
    /\ visits' = visits + 1
    /\ asmRefs' = [asmRefs EXCEPT ![callerId] = @ \cup {calleeId}]
    /\ called' = called \cup {calleeId}
    /\ IF callerId = NoCaller THEN UNCHANGED callGraph
                              ELSE RegisterFunctionCall(callerId, calleeId)
    /\ UNCHANGED <<phase, list, index, callee, initSize, pos, emitted>>

EndCheck ==
    /\ phase = "check"
    /\ phase' = "roots"
    /\ list' = <<Main>>
    /\ UNCHANGED <<visits, asmRefs, callGraph, called, index, callee, initSize,
                   pos, emitted>>

-----------------------------------------------------------------------------
(* detectCalledFunctions()                                                  *)

\* push_back, not pushBackUnique: an external main() is in the list twice.
PushRoot(f) ==
    /\ phase = "roots"
    /\ f \in Body \ Static
    /\ f \notin Elements(Tail(list))
    /\ list' = Append(list, f)
    /\ UNCHANGED <<phase, visits, asmRefs, callGraph, called, index, callee,
                   initSize, pos, emitted>>

StartScan ==
    /\ phase = "roots"
    /\ Body \ Static \subseteq Elements(Tail(list))
    /\ phase' = "scan"
    /\ index' = 1 /\ callee' = 1
    /\ initSize' = Len(list)
    /\ UNCHANGED <<visits, asmRefs, callGraph, called, list, pos, emitted>>

\* One iteration of the loop over the callees of list[index].
PushCallee ==
    /\ phase = "scan"
    /\ index <= initSize
    /\ callee <= Len(callGraph[list[index]])
    /\ list' = PushBackUnique(list, callGraph[list[index]][callee])
    /\ callee' = callee + 1
    /\ UNCHANGED <<phase, visits, asmRefs, callGraph, called, index, initSize,
                   pos, emitted>>

NextCaller ==
    /\ phase = "scan"
    /\ index <= initSize
    /\ callee > Len(callGraph[list[index]])
    /\ index' = index + 1 /\ callee' = 1
    /\ UNCHANGED <<phase, visits, asmRefs, callGraph, called, list, initSize,
                   pos, emitted>>

\* while (calledFunctionIds.size() > initSize)
NextRound ==
    /\ phase = "scan"
    /\ index > initSize
    /\ Len(list) > initSize
    /\ initSize' = Len(list)
    /\ UNCHANGED <<phase, visits, asmRefs, callGraph, called, list, index,
                   callee, pos, emitted>>

EndScan ==
    /\ phase = "scan"
    /\ index > initSize
    /\ Len(list) <= initSize
    /\ phase' = "mark"
    /\ UNCHANGED <<visits, asmRefs, callGraph, called, list, index, callee,
                   initSize, pos, emitted>>

Mark ==
    /\ phase = "mark"
    /\ called' = called \cup (Elements(list) \cap Defs)
    /\ phase' = "emit1"
    /\ UNCHANGED <<visits, asmRefs, callGraph, list, index, callee, initSize,
                   pos, emitted>>

-----------------------------------------------------------------------------
(* emitAssembler(): the two passes over definitionList.                     *)

\* Emitting f resolves again the asm{} text of f and of the global blocks
\* right before f; registering the same call again leaves callGraph alone.
Emit(f) ==
    /\ emitted' = emitted \cup {f}
    /\ \E preceding \in SUBSET asmRefs[NoCaller] :
           called' = called \cup asmRefs[f] \cup preceding

Advance(thisPhase, nextPhase) ==
    IF pos < Len(Definitions)
    THEN pos' = pos + 1 /\ phase' = thisPhase
    ELSE pos' = 1 /\ phase' = nextPhase

EmitStep(thisPhase, nextPhase, selected) ==
    /\ phase = thisPhase
    /\ IF pos <= Len(Definitions) /\ Definitions[pos] \in selected
       THEN Emit(Definitions[pos])
       ELSE UNCHANGED <<called, emitted>>
    /\ Advance(thisPhase, nextPhase)
    /\ UNCHANGED <<visits, asmRefs, callGraph, list, index, callee, initSize>>

FirstPass == EmitStep("emit1", "emit2", called \cup (Body \ Static))

SecondPass == EmitStep("emit2", "done", called \ emitted)

Done == phase = "done" /\ UNCHANGED vars

-----------------------------------------------------------------------------
Next ==
    \/ \E c \in Body \cup {NoCaller}, f \in Function : VisitReference(c, f)
    \/ \E c \in Body \cup {NoCaller}, f \in Defs : VisitAsmReference(c, f)
    \/ EndCheck
    \/ \E f \in Function : PushRoot(f)
    \/ StartScan
    \/ PushCallee \/ NextCaller \/ NextRound \/ EndScan
    \/ Mark
    \/ FirstPass \/ SecondPass
    \/ Done

\* The compiler is a sequential program that runs until it is done.
Spec == Init /\ [][Next]_vars /\ WF_vars(Next /\ ~Done)

-----------------------------------------------------------------------------
Callees(f) == Elements(callGraph[f])

Closed(S) == \A f \in S : Callees(f) \subseteq S

\* Every variable keeps its type, and the positions stay inside the list.
TypeOK ==
    /\ phase \in {"check", "roots", "scan", "mark", "emit1", "emit2", "done"}
    /\ visits \in 0..MaxVisits
    /\ asmRefs \in [Function \cup {NoCaller} -> SUBSET Defs]
    /\ callGraph \in [Function -> Seq(Function)]
    /\ called \subseteq Defs
    /\ list \in Seq(Function)
    /\ index \in Nat \ {0} /\ callee \in Nat \ {0} /\ initSize \in Nat
    /\ initSize <= Len(list) /\ index <= initSize + 1
    /\ pos \in Nat \ {0}
    /\ emitted \subseteq Body

\* detectCalledFunctions() finds everything: when the loop ends, the list
\* holds the roots and is closed under the call graph, although it grew
\* while it was being read.
ListComplete ==
    phase \in {"mark", "emit1", "emit2", "done"}
        => Roots \subseteq Elements(list) /\ Closed(Elements(list))

\* detectCalledFunctions() finds nothing else: whatever is in the list is in
\* every closed set that holds the roots, so dead static code is dropped.
ListMinimal ==
    phase # "check"
        => \A S \in SUBSET Function :
               Roots \subseteq S /\ Closed(S) => Elements(list) \subseteq S

\* What reachable code refers to, in C or in asm{}, is emitted too: no label is
\* left undefined by the code of a function that the work list reached.
ReachedClosed ==
    phase = "done"
        => \A f \in emitted \cap Elements(list) :
               Callees(f) \cap Body \subseteq emitted

\* The second pass over definitionList finds nothing left to emit: what
\* asm{} text marks during emission was already marked by the checker.
SecondPassIdle == [][phase = "emit2" => emitted' = emitted]_vars

\* The work list reaches its end for every call graph, cycles included.
Terminates == <>(phase = "done")
=============================================================================
