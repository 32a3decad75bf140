------------------------ MODULE CalledFunctionsProofs ------------------------
(* Proofs about CalledFunctions, for every program and every order in which  *)
(* the checker meets its references.                                        *)
EXTENDS CalledFunctions, TLAPS

\* The list starts with main, has the roots once the scan starts, the callers
\* before index are done, and so are the callees before callee at index.
ScanInv ==
    /\ phase = "check" => list = <<>>
    /\ phase # "check" => list # <<>> /\ list[1] = Main
    /\ phase \in {"scan", "mark", "emit1", "emit2", "done"}
           => Roots \subseteq Elements(list)
    /\ phase = "scan"
           => /\ \A i \in 1..(index - 1) : Callees(list[i]) \subseteq Elements(list)
              /\ index <= initSize
                     => \A j \in 1..(callee - 1) :
                            j <= Len(callGraph[list[index]])
                                => callGraph[list[index]][j] \in Elements(list)
              /\ index > initSize => callee = 1
    /\ phase \in {"mark", "emit1", "emit2", "done"} => Closed(Elements(list))

\* Marking: what asm{} text names is called from the moment it is visited, and
\* what the list holds is called once it has been walked.
MarkInv ==
    /\ \A c \in Function \cup {NoCaller} : asmRefs[c] \subseteq called
    /\ phase \in {"emit1", "emit2", "done"} => Elements(list) \cap Defs \subseteq called

\* Emission: the definitions before pos that are called have code, and after
\* the first pass all of them.
EmitInv ==
    /\ phase = "emit1"
           => \A i \in 1..(pos - 1) :
                  i <= Len(Definitions) /\ Definitions[i] \in called
                      => Definitions[i] \in emitted
    /\ phase \in {"emit2", "done"} => called \cap Body \subseteq emitted
    /\ phase \in {"check", "roots", "scan", "mark"} => pos = 1

IInv == TypeOK /\ ScanInv /\ ListMinimal /\ MarkInv /\ EmitInv

-----------------------------------------------------------------------------
\* Appending keeps the elements and adds the new one.
LEMMA ElementsOfAppend ==
    ASSUME NEW T, NEW s \in Seq(T), NEW x \in T
    PROVE  /\ Append(s, x) \in Seq(T)
           /\ Len(Append(s, x)) = Len(s) + 1
           /\ \A i \in 1..Len(s) : Append(s, x)[i] = s[i]
           /\ Elements(Append(s, x)) = Elements(s) \cup {x}
<1>1. /\ Append(s, x) \in Seq(T)
      /\ Len(Append(s, x)) = Len(s) + 1
      /\ \A i \in 1..Len(s) : Append(s, x)[i] = s[i]
      /\ Append(s, x)[Len(s) + 1] = x
      /\ Len(s) \in Nat
  OBVIOUS
<1>2. 1..(Len(s) + 1) = (1..Len(s)) \cup {Len(s) + 1}
  BY <1>1
<1>3. Elements(Append(s, x)) = Elements(s) \cup {x}
  BY <1>1, <1>2 DEF Elements
<1> QED
  BY <1>1, <1>3

\* pushBackUnique() keeps every position and adds at most one element.
LEMMA PushBackUniqueGrows ==
    ASSUME NEW T, NEW s \in Seq(T), NEW x \in T
    PROVE  /\ PushBackUnique(s, x) \in Seq(T)
           /\ Len(PushBackUnique(s, x)) >= Len(s)
           /\ \A i \in 1..Len(s) : PushBackUnique(s, x)[i] = s[i]
           /\ Elements(PushBackUnique(s, x)) = Elements(s) \cup {x}
<1>1. CASE x \in Elements(s)
  BY <1>1 DEF PushBackUnique
<1>2. CASE x \notin Elements(s)
  BY <1>2, ElementsOfAppend DEF PushBackUnique
<1> QED
  BY <1>1, <1>2

\* Registering a call extends one adjacency list of the call graph.
LEMMA RegisterKeepsType ==
    ASSUME TypeOK, NEW c \in Function, NEW f \in Function,
           RegisterFunctionCall(c, f)
    PROVE  callGraph' \in [Function -> Seq(Function)]
<1>1. PushBackUnique(callGraph[c], f) \in Seq(Function)
  BY PushBackUniqueGrows DEF TypeOK
<1> QED
  BY <1>1 DEF RegisterFunctionCall, TypeOK

\* What most steps need of the assumption.
LEMMA Ids ==
    /\ Main \in Function /\ Body \subseteq Function /\ Body \subseteq Defs
    /\ Defs \subseteq Function /\ NoCaller \notin Function /\ MaxVisits \in Nat
  BY ProgramAssumption

LEMMA InitIInv == Init => IInv
  BY ProgramAssumption
  DEF Init, IInv, TypeOK, ScanInv, ListMinimal, MarkInv, EmitInv, Elements

-----------------------------------------------------------------------------
\* A reference met by the checker: the list is still empty.
LEMMA VisitStep ==
    ASSUME IInv, NEW c \in Body \cup {NoCaller}, NEW f \in Function,
           VisitReference(c, f) \/ (f \in Defs /\ VisitAsmReference(c, f))
    PROVE  IInv'
<1>1. ASSUME NEW d \in Function, RegisterFunctionCall(d, f)
      PROVE  callGraph' \in [Function -> Seq(Function)]
  BY <1>1, RegisterKeepsType DEF IInv
<1>2. CASE VisitReference(c, f)
  <2>1. callGraph' \in [Function -> Seq(Function)]
    BY <1>1, <1>2, Ids DEF VisitReference
  <2>2. TypeOK'
    BY <1>2, <2>1, Ids DEF VisitReference, IInv, TypeOK
  <2>3. ScanInv' /\ ListMinimal' /\ MarkInv' /\ EmitInv'
    BY <1>2 DEF VisitReference, IInv, ScanInv, ListMinimal, MarkInv, EmitInv
  <2> QED
    BY <2>2, <2>3 DEF IInv
<1>3. CASE f \in Defs /\ VisitAsmReference(c, f)
  <2>1. callGraph' \in [Function -> Seq(Function)]
    BY <1>1, <1>3, Ids DEF VisitAsmReference, IInv, TypeOK
  <2>2. c \in Function \cup {NoCaller}
    BY Ids
  <2>3. asmRefs \in [Function \cup {NoCaller} -> SUBSET Defs]
    BY DEF IInv, TypeOK
  <2>4. /\ asmRefs' \in [Function \cup {NoCaller} -> SUBSET Defs]
        /\ \A d \in Function \cup {NoCaller} :
               asmRefs'[d] \subseteq asmRefs[d] \cup {f}
    BY <1>3, <2>2, <2>3 DEF VisitAsmReference
  <2>5. visits' \in 0..MaxVisits
    BY <1>3, Ids DEF VisitAsmReference, IInv, TypeOK
  <2>6. TypeOK'
    BY <1>3, <2>1, <2>4, <2>5 DEF VisitAsmReference, IInv, TypeOK
  <2>7. MarkInv'
    BY <1>3, <2>4 DEF VisitAsmReference, IInv, MarkInv
  <2>8. ScanInv' /\ ListMinimal' /\ EmitInv'
    BY <1>3 DEF VisitAsmReference, IInv, ScanInv, ListMinimal, EmitInv
  <2> QED
    BY <2>6, <2>7, <2>8 DEF IInv
<1> QED
  BY <1>2, <1>3

\* The list becomes <<main>>, then takes in the external definitions.
LEMMA RootStep ==
    ASSUME IInv, EndCheck \/ (\E f \in Function : PushRoot(f)) \/ StartScan
    PROVE  IInv'
<1>1. CASE EndCheck
  <2>1. /\ list' \in Seq(Function) /\ Len(list') = 1 /\ list'[1] = Main
        /\ Elements(list') = {Main} /\ list' # <<>>
    BY <1>1, Ids DEF EndCheck, Elements
  <2>2. TypeOK'
    BY <1>1, <2>1 DEF EndCheck, IInv, TypeOK, ScanInv
  <2>3. ScanInv' /\ MarkInv' /\ EmitInv'
    BY <1>1, <2>1 DEF EndCheck, IInv, ScanInv, MarkInv, EmitInv
  <2>4. ListMinimal'
    BY <1>1, <2>1 DEF EndCheck, ListMinimal, Roots
  <2> QED
    BY <2>2, <2>3, <2>4 DEF IInv
<1>2. ASSUME NEW f \in Function, PushRoot(f) PROVE IInv'
  <2>1. /\ list' \in Seq(Function)
        /\ Len(list') = Len(list) + 1
        /\ \A i \in 1..Len(list) : list'[i] = list[i]
        /\ Elements(list') = Elements(list) \cup {f}
    BY <1>2, ElementsOfAppend DEF PushRoot, IInv, TypeOK
  <2>2. Len(list) >= 1 /\ list \in Seq(Function)
    BY <1>2 DEF PushRoot, IInv, TypeOK, ScanInv
  <2>3. TypeOK'
    BY <1>2, <2>1, <2>2 DEF PushRoot, IInv, TypeOK
  <2>4. ScanInv'
    <3>1. list' # <<>> /\ list'[1] = Main
      BY <1>2, <2>1, <2>2 DEF PushRoot, IInv, ScanInv
    <3> QED
      BY <1>2, <3>1 DEF PushRoot, ScanInv
  <2>6. MarkInv' /\ EmitInv'
    BY <1>2 DEF PushRoot, IInv, MarkInv, EmitInv
  <2>5. ListMinimal'
    BY <1>2, <2>1 DEF PushRoot, IInv, ListMinimal, Roots, Closed, Callees
  <2> QED
    BY <2>3, <2>4, <2>5, <2>6 DEF IInv
<1>3. CASE StartScan
  <2>1. Roots \subseteq Elements(list)
    <3>1. list \in Seq(Function) /\ list # <<>> /\ list[1] = Main
      BY <1>3 DEF StartScan, IInv, TypeOK, ScanInv
    <3>2. Elements(Tail(list)) \subseteq Elements(list)
      BY <3>1 DEF Elements
    <3>3. Main \in Elements(list)
      BY <3>1 DEF Elements
    <3> QED
      BY <1>3, <3>2, <3>3 DEF StartScan, Roots
  <2>2. TypeOK' /\ MarkInv' /\ EmitInv'
    BY <1>3 DEF StartScan, IInv, TypeOK, MarkInv, EmitInv
  <2>3. ScanInv'
    BY <1>3, <2>1 DEF StartScan, IInv, ScanInv, TypeOK
  <2>4. ListMinimal'
    BY <1>3 DEF StartScan, IInv, ListMinimal, Closed, Callees
  <2> QED
    BY <2>2, <2>3, <2>4 DEF IInv
<1> QED
  BY <1>1, <1>2, <1>3

\* The list grows by a callee of one of its members: every closed set that
\* holds the list holds the callee.
LEMMA PushCalleeStep == IInv /\ PushCallee => IInv'
<1> SUFFICES ASSUME IInv, PushCallee PROVE IInv'
  OBVIOUS
<1> DEFINE caller == list[index]
           x == callGraph[caller][callee]
<1>1. /\ list \in Seq(Function) /\ index \in 1..Len(list)
      /\ caller \in Function /\ caller \in Elements(list)
      /\ callGraph[caller] \in Seq(Function)
      /\ callee \in 1..Len(callGraph[caller])
      /\ x \in Function /\ x \in Callees(caller)
  BY DEF PushCallee, IInv, TypeOK, Elements, Callees
<1>2. /\ list' \in Seq(Function)
      /\ Len(list') >= Len(list)
      /\ \A i \in 1..Len(list) : list'[i] = list[i]
      /\ Elements(list') = Elements(list) \cup {x}
  <2>1. list' = PushBackUnique(list, x)
    BY DEF PushCallee
  <2>2. CASE x \in Elements(list)
    BY <1>1, <2>1, <2>2 DEF PushBackUnique
  <2>3. CASE x \notin Elements(list)
    <3>1. list' = Append(list, x)
      BY <2>1, <2>3 DEF PushBackUnique
    <3>2. list \in Seq(Function) /\ x \in Function
      BY <1>1
    <3> HIDE DEF x
    <3> QED
      BY <3>1, <3>2, ElementsOfAppend
  <2> QED
    BY <2>2, <2>3
<1>3. TypeOK'
  BY <1>1, <1>2 DEF PushCallee, IInv, TypeOK
<1>4. ScanInv'
  <2>1. index \in Nat /\ index >= 1 /\ callee \in Nat /\ index <= initSize /\ initSize \in Nat
        /\ initSize <= Len(list) /\ Len(list) \in Nat
    BY <1>1 DEF PushCallee, IInv, TypeOK
  <2>2. \A i \in 1..index : list'[i] = list[i]
    BY <1>2, <2>1
  <2>3. \A i \in 1..(index - 1) : Callees(list'[i]) \subseteq Elements(list')
    <3>1. TAKE i \in 1..(index - 1)
    <3>2. list'[i] = list[i]
      BY <2>1, <2>2, <3>1
    <3>3. Callees(list[i]) \subseteq Elements(list)
      BY <3>1 DEF PushCallee, IInv, ScanInv
    <3> QED
      BY <1>2, <3>2, <3>3
  <2>4. \A j \in 1..callee : j <= Len(callGraph[caller])
                                  => callGraph[caller][j] \in Elements(list')
    <3>1. TAKE j \in 1..callee
    <3>2. CASE j = callee
      BY <1>2, <3>2
    <3>3. CASE j # callee
      <4>1. j \in 1..(callee - 1)
        BY <2>1, <3>1, <3>3
      <4> QED
        BY <1>2, <2>1, <4>1 DEF PushCallee, IInv, ScanInv
    <3> QED
      BY <3>2, <3>3
  <2>5. list' # <<>> /\ list'[1] = Main
    BY <1>1, <1>2, <2>1, <2>2 DEF PushCallee, IInv, ScanInv
  <2>6. callee' = callee + 1 /\ index' = index /\ initSize' = initSize
        /\ phase' = "scan" /\ phase = "scan" /\ callGraph' = callGraph
    BY DEF PushCallee
  <2>7. Roots \subseteq Elements(list')
    BY <1>2, <2>6 DEF IInv, ScanInv
  <2>8. callee' - 1 = callee /\ list'[index] = caller
    BY <2>1, <2>2, <2>6
  <2>9. \A i \in 1..(index' - 1) : Callees(list[i])' \subseteq Elements(list')
    BY <2>3, <2>6 DEF Callees
  <2> QED
    BY <2>1, <2>4, <2>5, <2>6, <2>7, <2>8, <2>9 DEF ScanInv
<1>5. ListMinimal'
  BY <1>1, <1>2 DEF PushCallee, IInv, ListMinimal, Closed, Callees
<1>6. MarkInv' /\ EmitInv'
  BY DEF PushCallee, IInv, MarkInv, EmitInv
<1> QED
  BY <1>3, <1>4, <1>5, <1>6 DEF IInv

\* The scan moves on to the next caller, or to the callers added meanwhile.
LEMMA ScanStep ==
    ASSUME IInv, NextCaller \/ NextRound \/ EndScan
    PROVE  IInv'
<1>1. CASE NextCaller
  <2>1. Callees(list[index]) \subseteq Elements(list)
    <3>1. /\ callee \in Nat /\ callee > Len(callGraph[list[index]])
          /\ \A j \in 1..(callee - 1) :
                 j <= Len(callGraph[list[index]])
                     => callGraph[list[index]][j] \in Elements(list)
      BY <1>1 DEF NextCaller, IInv, TypeOK, ScanInv
    <3>2. index \in 1..Len(list) /\ list[index] \in Function
      BY <1>1 DEF NextCaller, IInv, TypeOK
    <3>3. Len(callGraph[list[index]]) \in Nat
      BY <3>2 DEF IInv, TypeOK
    <3>4. \A j \in 1..Len(callGraph[list[index]]) :
              callGraph[list[index]][j] \in Elements(list)
      BY <3>1, <3>3
    <3> QED
      BY <3>4 DEF Callees, Elements
  <2>2. \A i \in 1..index : Callees(list[i]) \subseteq Elements(list)
    BY <1>1, <2>1 DEF NextCaller, IInv, TypeOK, ScanInv
  <2>3. TypeOK' /\ ListMinimal' /\ MarkInv' /\ EmitInv'
    <3>1. TypeOK'
      BY <1>1 DEF NextCaller, IInv, TypeOK
    <3>2. ListMinimal'
      BY <1>1 DEF NextCaller, IInv, ListMinimal, Closed, Callees
    <3>3. MarkInv' /\ EmitInv'
      BY <1>1 DEF NextCaller, IInv, MarkInv, EmitInv
    <3> QED
      BY <3>1, <3>2, <3>3
  <2>4. ScanInv'
    <3>1. /\ phase = "scan" /\ phase' = "scan" /\ list' = list
          /\ callGraph' = callGraph /\ index' = index + 1 /\ callee' = 1
          /\ index' - 1 = index
      BY <1>1 DEF NextCaller, IInv, TypeOK
    <3>2. \A i \in 1..(index' - 1) : Callees(list[i])' \subseteq Elements(list)
      BY <2>2, <3>1 DEF Callees
    <3>3. \A j \in 1..(callee' - 1) : FALSE
      BY <3>1
    <3> QED
      BY <3>1, <3>2, <3>3 DEF IInv, ScanInv
  <2> QED
    BY <2>3, <2>4 DEF IInv
<1>2. CASE NextRound
  <2>1. TypeOK' /\ ListMinimal' /\ MarkInv' /\ EmitInv'
    <3>1. TypeOK'
      BY <1>2 DEF NextRound, IInv, TypeOK
    <3>2. ListMinimal'
      BY <1>2 DEF NextRound, IInv, ListMinimal, Closed, Callees
    <3>3. MarkInv' /\ EmitInv'
      BY <1>2 DEF NextRound, IInv, MarkInv, EmitInv
    <3> QED
      BY <3>1, <3>2, <3>3
  <2>2. ScanInv'
    BY <1>2 DEF NextRound, IInv, TypeOK, ScanInv, Callees
  <2> QED
    BY <2>1, <2>2 DEF IInv
<1>3. CASE EndScan
  <2>1. TypeOK' /\ ListMinimal' /\ MarkInv' /\ EmitInv'
    <3>1. TypeOK'
      BY <1>3 DEF EndScan, IInv, TypeOK
    <3>2. ListMinimal'
      BY <1>3 DEF EndScan, IInv, ListMinimal, Closed, Callees
    <3>3. MarkInv' /\ EmitInv'
      BY <1>3 DEF EndScan, IInv, MarkInv, EmitInv
    <3> QED
      BY <3>1, <3>2, <3>3
  <2>2. Closed(Elements(list))
    <3>1. \A i \in 1..Len(list) : Callees(list[i]) \subseteq Elements(list)
      BY <1>3 DEF EndScan, IInv, TypeOK, ScanInv
    <3> QED
      BY <3>1 DEF Closed, Elements
  <2>3. ScanInv'
    BY <1>3, <2>2 DEF EndScan, IInv, ScanInv, Closed, Callees
  <2> QED
    BY <2>1, <2>3 DEF IInv
<1> QED
  BY <1>1, <1>2, <1>3

LEMMA MarkStep == IInv /\ Mark => IInv'
<1> SUFFICES ASSUME IInv, Mark PROVE IInv'
  OBVIOUS
<1>1. TypeOK'
  BY DEF Mark, IInv, TypeOK
<1>2. ScanInv' /\ ListMinimal'
  BY DEF Mark, IInv, ScanInv, ListMinimal, Closed, Callees
<1>3. MarkInv'
  BY DEF Mark, IInv, MarkInv
<1>4. EmitInv'
  BY DEF Mark, IInv, EmitInv
<1> QED
  BY <1>1, <1>2, <1>3, <1>4 DEF IInv

\* Emission marks nothing new: what asm{} text names was marked by the checker.
LEMMA EmissionMarksNothing ==
    ASSUME IInv, FirstPass \/ SecondPass
    PROVE  called' = called
<1>1. \A preceding \in SUBSET asmRefs[NoCaller] : preceding \subseteq called
  BY DEF IInv, MarkInv
<1>2. pos <= Len(Definitions) => Definitions[pos] \in Function
  BY ProgramAssumption DEF IInv, TypeOK
<1>3. pos <= Len(Definitions) => asmRefs[Definitions[pos]] \subseteq called
  BY <1>2 DEF IInv, MarkInv
<1> QED
  BY <1>1, <1>3 DEF FirstPass, SecondPass, EmitStep, Emit

LEMMA FirstPassStep == IInv /\ FirstPass => IInv'
<1> SUFFICES ASSUME IInv, FirstPass PROVE IInv'
  OBVIOUS
<1>1. called' = called
  BY EmissionMarksNothing
<1>2. /\ phase = "emit1" /\ phase' \in {"emit1", "emit2"}
      /\ pos \in Nat \ {0} /\ pos' \in Nat \ {0}
      /\ Len(Definitions) \in Nat /\ Definitions \in Seq(Body)
      /\ phase' = "emit1" => pos' = pos + 1 /\ pos < Len(Definitions)
      /\ phase' = "emit2" => pos >= Len(Definitions)
      /\ UNCHANGED <<visits, asmRefs, callGraph, list, index, callee, initSize>>
  <2>1. /\ Len(Definitions) \in Nat /\ Definitions \in Seq(Body)
        /\ pos \in Nat \ {0}
    BY ProgramAssumption DEF IInv, TypeOK
  <2> QED
    BY <2>1 DEF FirstPass, EmitStep, Advance
<1>3. emitted \subseteq emitted' /\ emitted' \subseteq Body
  BY <1>2 DEF FirstPass, EmitStep, Emit, IInv, TypeOK
<1>4. pos <= Len(Definitions) /\ Definitions[pos] \in called
          => Definitions[pos] \in emitted'
  BY DEF FirstPass, EmitStep, Emit
<1>5. TypeOK'
  BY <1>1, <1>2, <1>3 DEF IInv, TypeOK
<1>6. ScanInv' /\ ListMinimal' /\ MarkInv'
  BY <1>1, <1>2 DEF IInv, ScanInv, ListMinimal, MarkInv, Closed, Callees
<1>7. EmitInv'
  <2>1. \A i \in 1..pos : i <= Len(Definitions) /\ Definitions[i] \in called
                             => Definitions[i] \in emitted'
    BY <1>2, <1>3, <1>4 DEF IInv, EmitInv
  <2>2. phase' = "emit2" => called \cap Body \subseteq emitted'
    <3>1. ASSUME phase' = "emit2", NEW f \in called \cap Body
          PROVE  f \in emitted'
      <4>1. PICK i \in 1..Len(Definitions) : Definitions[i] = f
        BY ProgramAssumption
      <4>2. i \in 1..pos
        BY <1>2, <3>1
      <4> QED
        BY <2>1, <3>1, <4>1, <4>2
    <3> QED
      BY <3>1
  <2>3. phase' = "emit1" => pos' - 1 = pos
    BY <1>2
  <2> QED
    BY <1>1, <1>2, <2>1, <2>2, <2>3 DEF EmitInv
<1> QED
  BY <1>5, <1>6, <1>7 DEF IInv

LEMMA SecondPassStep == IInv /\ SecondPass => IInv' /\ emitted' = emitted
<1> SUFFICES ASSUME IInv, SecondPass PROVE IInv' /\ emitted' = emitted
  OBVIOUS
<1>1. called' = called
  BY EmissionMarksNothing
<1>2. /\ phase = "emit2" /\ phase' \in {"emit2", "done"}
      /\ pos \in Nat \ {0} /\ pos' \in Nat \ {0}
      /\ UNCHANGED <<visits, asmRefs, callGraph, list, index, callee, initSize>>
  BY DEF SecondPass, EmitStep, Advance, IInv, TypeOK
<1>3. emitted' = emitted
  <2>1. pos <= Len(Definitions) => Definitions[pos] \in Body
    BY <1>2, ProgramAssumption
  <2>2. called \cap Body \subseteq emitted
    BY <1>2 DEF IInv, EmitInv
  <2> QED
    BY <2>1, <2>2 DEF SecondPass, EmitStep
<1>4. TypeOK'
  BY <1>1, <1>2, <1>3 DEF IInv, TypeOK
<1>5. ScanInv' /\ ListMinimal' /\ MarkInv' /\ EmitInv'
  BY <1>1, <1>2, <1>3
  DEF IInv, ScanInv, ListMinimal, MarkInv, EmitInv, Closed, Callees
<1> QED
  BY <1>3, <1>4, <1>5 DEF IInv

\* The inductive step.
LEMMA NextIInv == IInv /\ [Next]_vars => IInv'
<1> SUFFICES ASSUME IInv, [Next]_vars PROVE IInv'
  OBVIOUS
<1>1. CASE UNCHANGED vars
  BY <1>1 DEF vars, IInv, TypeOK, ScanInv, ListMinimal, MarkInv, EmitInv,
              Closed, Callees
<1>2. CASE Done
  BY <1>1, <1>2 DEF Done
<1>3. CASE \E c \in Body \cup {NoCaller}, f \in Function : VisitReference(c, f)
  BY <1>3, VisitStep
<1>4. CASE \E c \in Body \cup {NoCaller}, f \in Defs : VisitAsmReference(c, f)
  BY <1>4, VisitStep, ProgramAssumption
<1>5. CASE EndCheck \/ (\E f \in Function : PushRoot(f)) \/ StartScan
  BY <1>5, RootStep
<1>6. CASE PushCallee \/ NextCaller \/ NextRound \/ EndScan
  BY <1>6, PushCalleeStep, ScanStep
<1>7. CASE Mark \/ FirstPass \/ SecondPass
  BY <1>7, MarkStep, FirstPassStep, SecondPassStep
<1> QED
  BY <1>1, <1>2, <1>3, <1>4, <1>5, <1>6, <1>7 DEF Next

LEMMA InductiveInvariant == Spec => []IInv
  BY InitIInv, NextIInv, PTL DEF Spec

-----------------------------------------------------------------------------
\* Every variable of CalledFunctions keeps its type (TranslationUnit's call
\* graph, the work list of detectCalledFunctions() and its positions).
THEOREM TypeCorrect == Spec => []TypeOK
  BY InductiveInvariant, PTL DEF IInv

\* detectCalledFunctions() computes exactly the closure of the roots under the
\* call graph: it misses no function that a root reaches ...
THEOREM ListIsComplete == Spec => []ListComplete
<1>1. IInv => ListComplete
  BY DEF IInv, ScanInv, ListComplete
<1> QED
  BY <1>1, InductiveInvariant, PTL

\* ... and it puts nothing in the list that could be left out.
THEOREM ListIsMinimal == Spec => []ListMinimal
  BY InductiveInvariant, PTL DEF IInv

\* emitAssembler() emits every definition that the emitted code of a reached
\* function refers to.
THEOREM ReachedCodeIsClosed == Spec => []ReachedClosed
<1>1. IInv => ReachedClosed
  BY ProgramAssumption
  DEF IInv, ScanInv, MarkInv, EmitInv, ReachedClosed, Closed, Callees
<1> QED
  BY <1>1, InductiveInvariant, PTL

\* The "second pass in case some inline assembly has referred to a C function"
\* of emitAssembler() never emits anything.
THEOREM SecondPassEmitsNothing == Spec => SecondPassIdle
<1>1. IInv /\ [Next]_vars => [phase = "emit2" => emitted' = emitted]_vars
  <2> SUFFICES ASSUME IInv, Next, phase = "emit2" PROVE emitted' = emitted
    OBVIOUS
  <2>1. CASE SecondPass
    BY <2>1, SecondPassStep
  <2>2. CASE ~SecondPass
    BY <2>2 DEF Next, VisitReference, VisitAsmReference, EndCheck, PushRoot,
                StartScan, PushCallee, NextCaller, NextRound, EndScan, Mark,
                FirstPass, EmitStep, Done
  <2> QED
    BY <2>1, <2>2
<1> QED
  BY <1>1, InductiveInvariant, PTL DEF Spec, SecondPassIdle
=============================================================================
