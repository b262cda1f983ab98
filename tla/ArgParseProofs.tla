--------------------------- MODULE ArgParseProofs ---------------------------
(***************************************************************************)
(* Proofs about ArgParse, for every command line whatever its length: the  *)
(* types, that the line is consumed without a gap, that faults are         *)
(* reported and nothing runs without what is required, and that main only  *)
(* asks for options that were parsed.                                      *)
(***************************************************************************)
EXTENDS ArgParse, TLAPS, SequenceTheorems, Indices

(***************************************************************************)
(* Facts about sequences.                                                  *)
(***************************************************************************)

(* One element of a sequence is a sequence of its own.                     *)
LEMMA Singled ==
  ASSUME NEW T, NEW s \in Seq(T), NEW n \in 1..Len(s)
  PROVE  SubSeq(s, n, n) = <<s[n]>>
<1>1. s[n] \in T /\ n \in Int
  BY ElementOfSeq
<1>2. \A m \in n..n : s[m] \in T
  BY <1>1
<1>3. /\ SubSeq(s, n, n) \in Seq(T)
      /\ Len(SubSeq(s, n, n)) = 1
      /\ SubSeq(s, n, n)[n - n + 1] = s[n + 1 - 1]
  BY <1>1, <1>2, SubSeqProperties
<1>4. <<s[n]>> \in Seq(T) /\ Len(<<s[n]>>) = 1 /\ <<s[n]>>[1] = s[n]
  BY <1>1
<1>5. \A m \in 1..1 : SubSeq(s, n, n)[m] = <<s[n]>>[m]
  BY <1>3, <1>4
<1> QED
  BY <1>3, <1>4, <1>5, SeqEqual

(* Either element of a pair is what is left when the other is taken off.   *)
LEMMA PairWithoutOne ==
  ASSUME NEW T, NEW a \in T, NEW b \in T
  PROVE  /\ SubSeq(<<a, b>>, 1, 0) \o SubSeq(<<a, b>>, 2, 2) = <<b>>
         /\ SubSeq(<<a, b>>, 1, 1) \o SubSeq(<<a, b>>, 3, 2) = <<a>>
<1>1. <<a, b>> \in Seq(T) /\ Len(<<a, b>>) = 2
  OBVIOUS
<1>2. <<a, b>>[1] = a /\ <<a, b>>[2] = b
  OBVIOUS
<1>3. SubSeq(<<a, b>>, 1, 0) = <<>> /\ SubSeq(<<a, b>>, 3, 2) = <<>>
  BY SubSeqEmpty
<1>4. SubSeq(<<a, b>>, 1, 1) = <<a>> /\ SubSeq(<<a, b>>, 2, 2) = <<b>>
  <2>1. SUFFICES ASSUME NEW s \in Seq(T), Len(s) = 2, s[1] = a, s[2] = b
                 PROVE  SubSeq(s, 1, 1) = <<a>> /\ SubSeq(s, 2, 2) = <<b>>
    BY <1>1, <1>2
  <2>2. 1 \in 1..Len(s) /\ 2 \in 1..Len(s)
    BY <2>1
  <2>3. SubSeq(s, 1, 1) = <<s[1]>> /\ SubSeq(s, 2, 2) = <<s[2]>>
    BY <2>2, Singled
  <2> QED
    BY <2>1, <2>3
<1>5. <<a>> \in Seq(T) /\ <<b>> \in Seq(T)
  OBVIOUS
<1> QED
  BY <1>3, <1>4, <1>5, ConcatEmptySeq

(* The list of the arguments still required has four values.               *)
Remaining == {requiredArgs, <<"--i">>, <<"--o">>, <<>>}

(* Taking one element off such a list gives such a list, and takes nothing *)
(* else off: a required argument leaves the list by being met, and only by *)
(* that.                                                                   *)
LEMMA StruckProperties ==
  ASSUME _remainingRequiredArgs \in Remaining
  PROVE  /\ Struck \in Remaining
         /\ \A name \in {"--i", "--o"} :
              /\ name # argv[i]
              /\ \E n \in 1..Len(_remainingRequiredArgs) :
                   _remainingRequiredArgs[n] = name
              => \E n \in 1..Len(Struck) : Struck[n] = name
         /\ \A n \in 1..Len(Struck) :
              /\ Struck[n] # argv[i]
              /\ \E m \in 1..Len(_remainingRequiredArgs) :
                   _remainingRequiredArgs[m] = Struck[n]
<1> DEFINE rem == _remainingRequiredArgs
<1>1. /\ SubSeq(requiredArgs, 1, 0) \o SubSeq(requiredArgs, 2, 2) = <<"--o">>
      /\ SubSeq(requiredArgs, 1, 1) \o SubSeq(requiredArgs, 3, 2) = <<"--i">>
  <2>1. "--i" \in argMap /\ "--o" \in argMap
    BY DEF argMap
  <2> QED
    BY <2>1, PairWithoutOne DEF requiredArgs
<1>2. CASE ~IsRequired
  BY <1>2 DEF Struck, IsRequired
<1>3. CASE IsRequired
  <2>1. requiredArgIter \in 1..Len(rem) /\ rem[requiredArgIter] = argv[i]
    BY <1>3 DEF IsRequired, requiredArgIter
  <2>2. Struck = SubSeq(rem, 1, requiredArgIter - 1)
                 \o SubSeq(rem, requiredArgIter + 1, Len(rem))
    BY <1>3 DEF Struck
  <2>3. Len(requiredArgs) = 2
    BY DEF requiredArgs
  <2>4. CASE rem = requiredArgs
    <3>1. CASE requiredArgIter = 1
      <4>1. requiredArgIter - 1 = 0 /\ requiredArgIter + 1 = 2
        BY <3>1
      <4>2. Struck = <<"--o">>
        BY <1>1, <2>2, <2>3, <2>4, <4>1
      <4> QED
        BY <4>2, <2>1, <2>4, <3>1 DEF Remaining, requiredArgs
    <3>2. CASE requiredArgIter = 2
      <4>1. Struck = <<"--i">>
        BY <1>1, <2>2, <2>3, <2>4, <3>2
      <4> QED
        BY <4>1, <2>1, <2>4, <3>2 DEF Remaining, requiredArgs
    <3> QED
      BY <2>1, <2>4, <3>1, <3>2 DEF requiredArgs
  <2>5. CASE rem \in {<<"--i">>, <<"--o">>}
    <3>1. requiredArgIter = 1 /\ Len(rem) = 1
      BY <2>1, <2>5
    <3>2. Struck = <<>>
      BY <2>2, <2>5, <3>1
    <3> QED
      BY <3>1, <3>2, <2>1, <2>5 DEF Remaining
  <2>6. CASE rem = <<>>
    BY <2>1, <2>6
  <2> QED
    BY <2>4, <2>5, <2>6 DEF Remaining
<1> QED
  BY <1>2, <1>3

(***************************************************************************)
(* The inductive invariant.                                                *)
(***************************************************************************)

HasParsed(name)  == \E n \in 1..Len(_args) : _args[n].name = name
IsRemaining(name) == \E n \in 1..Len(_remainingRequiredArgs) :
                       _remainingRequiredArgs[n] = name

(* An option that is required is still missing or among the ArgObjects, as *)
(* long as the constructor has not thrown: it strikes the argument off     *)
(* before it counts the parameters, and throws if there are too few.       *)
Collected ==
  pc \in {"parse", "parsed", "translate"} =>
    \A name \in {"--i", "--o"} : IsRemaining(name) \/ HasParsed(name)

Inv == TypeOK /\ Collected

(* What there is to get is an ArgObject of the class asked for, with its   *)
(* parameter.                                                              *)
LEMMA GetProperties ==
  ASSUME TypeOK, NEW name \in {"--i", "--o"}, HasParsed(name)
  PROVE  /\ FirstOf(name) \in 1..Len(_args)
         /\ get(name).name = name
         /\ getFirstParam(name) \in STRING
<1> DEFINE M == {n \in 1..Len(_args) : _args[n].name = name}
<1>1. Len(_args) \in Nat /\ \A n \in 1..Len(_args) : _args[n] \in ArgObject
  BY ElementOfSeq, LenProperties DEF TypeOK
<1>2. M \in SUBSET (1..Len(_args)) /\ M # {}
  BY DEF HasParsed
<1>3. PICK n \in M : \A m \in M : n <= m
  <2> HIDE DEF M
  <2> QED
    BY <1>1, <1>2, LeastIndex
<1>4. \A m \in 1..(n - 1) : _args[m].name # name
  BY <1>1, <1>3
<1>5. FirstOf(name) \in 1..Len(_args) /\ _args[FirstOf(name)].name = name
  BY <1>3, <1>4 DEF FirstOf
<1>6. get(name) \in ArgObject /\ get(name).name = name
  BY <1>1, <1>5 DEF get
<1>7. get(name).params \in Seq(STRING) /\ Len(get(name).params) = 1
  BY <1>6 DEF ArgObject, additionalParams
<1> QED
  BY <1>5, <1>6, <1>7, ElementOfSeq DEF getFirstParam

\* The invariant holds at first.
LEMMA InitInv == Init => Inv
<1> SUFFICES ASSUME Init PROVE Inv
  OBVIOUS
<1>1. argv \in Seq(STRING)
  BY CommandLinesAssumption DEF Init
<1>2. TypeOK
  <2>1. Len(argv) \in Nat
    BY <1>1
  <2>2. _args \in Seq(ArgObject)
    BY EmptySeq DEF Init
  <2>3. i \in 1..argc /\ pos \in -1..Len(argv)
    BY <2>1 DEF Init, argc
  <2>4. /\ pc \in {"parse", "parsed", "translate"} \cup Stopped
        /\ message \in Messages
        /\ output \in {None, "rrpout.bc"}
    BY DEF Init, Messages
  <2>5. filename \in {None} \cup STRING
    BY DEF Init
  <2> QED
    BY <1>1, <2>2, <2>3, <2>4, <2>5 DEF Init, TypeOK
<1>3. Collected
  BY DEF Init, Collected, IsRemaining, requiredArgs
<1> QED
  BY <1>2, <1>3 DEF Inv

\* Every step keeps it.
LEMMA NextInv == Inv /\ [Next]_vars => Inv'
<1> SUFFICES ASSUME Inv, [Next]_vars PROVE Inv'
  OBVIOUS
<1>1. TypeOK /\ Collected
  BY DEF Inv
<1>2. Len(argv) \in Nat /\ Len(_args) \in Nat
  BY <1>1, LenProperties DEF TypeOK
<1>3. CASE InvalidArgument
  <2>1. /\ pos' = i /\ pc' = "exit" /\ message' = "Invalid argument" /\ i < argc
        /\ UNCHANGED <<argv, i, _args, _remainingRequiredArgs, filename, output>>
    BY <1>3 DEF InvalidArgument, AtArgument, Throw, parsed
  <2>2. pos' \in -1..Len(argv)
    <3>1. i \in 1..argc
      BY <1>1 DEF TypeOK
    <3>2. pos' = i /\ i < argc
      BY <2>1
    <3> QED
      BY <1>2, <3>1, <3>2 DEF argc
  <2> QED
    BY <1>1, <2>1, <2>2 DEF Inv, TypeOK, Collected, Stopped, Messages, argc
<1>4. CASE MissingParameters
  <2>1. /\ pos' = i /\ pc' = "exit" /\ i < argc
        /\ message' = "Argument expected more parameters"
        /\ _remainingRequiredArgs' = Struck
        /\ UNCHANGED <<argv, i, _args, filename, output>>
    BY <1>4 DEF MissingParameters, AtArgument, Throw, parsed
  <2>2. pos' \in -1..Len(argv)
    <3>1. i \in 1..argc
      BY <1>1 DEF TypeOK
    <3>2. pos' = i /\ i < argc
      BY <2>1
    <3> QED
      BY <1>2, <3>1, <3>2 DEF argc
  <2>3. _remainingRequiredArgs' \in Remaining
    BY <1>1, <2>1, StruckProperties DEF TypeOK, Remaining
  <2> QED
    BY <1>1, <2>1, <2>2, <2>3
       DEF Inv, TypeOK, Collected, Stopped, Messages, argc, Remaining
<1>5. CASE Argument
  <2>1. /\ pc = "parse" /\ i < argc /\ argv[i] \in argMap /\ topArgs < argc
        /\ _remainingRequiredArgs' = Struck
        /\ _args' = Append(_args, [name |-> argv[i], params |-> Params])
        /\ i' = topArgs + 1
        /\ UNCHANGED <<argv, pc, message, pos, filename, output>>
    BY <1>5 DEF Argument, AtArgument, results
  <2>2. i \in 1..argc /\ additionalParams(argv[i]) \in {0, 1}
    BY <1>1 DEF TypeOK, additionalParams
  <2>3. topArgs \in 1..Len(argv) /\ topArgs = i + additionalParams(argv[i])
    BY <1>2, <2>1, <2>2 DEF topArgs, argc
  <2>4. i' \in 1..argc'
    BY <1>2, <2>1, <2>3 DEF argc
  <2>5. Params \in Seq(STRING) /\ Len(Params) = additionalParams(argv[i])
    <3>1. i + 1 \in Int /\ topArgs \in Int
      BY <1>2, <2>2, <2>3 DEF argc
    <3>2. \A m \in (i + 1)..topArgs : argv[m] \in STRING
      <4>1. \A m \in (i + 1)..topArgs : m \in 1..Len(argv)
        BY <1>2, <2>2, <2>3 DEF argc
      <4> QED
        BY <1>1, <4>1, ElementOfSeq DEF TypeOK
    <3>3. /\ Params \in Seq(STRING)
          /\ Len(Params) = IF i + 1 <= topArgs THEN topArgs - (i + 1) + 1 ELSE 0
      BY <3>1, <3>2, SubSeqProperties DEF Params
    <3> QED
      BY <1>2, <2>2, <2>3, <3>3 DEF argc
  <2> DEFINE object == [name |-> argv[i], params |-> Params]
  <2>6. object \in ArgObject /\ object.name = argv[i]
    BY <2>1, <2>5 DEF ArgObject
  <2> HIDE DEF object
  <2>7. /\ _args' \in Seq(ArgObject)
        /\ Len(_args') = Len(_args) + 1
        /\ _args'[Len(_args) + 1] = object
        /\ \A n \in 1..Len(_args) : _args'[n] = _args[n]
    <3>1. _args' = Append(_args, object)
      BY <2>1 DEF object
    <3> QED
      BY <1>1, <2>6, <3>1 DEF TypeOK
  <2>8. TypeOK'
    <3>1. _remainingRequiredArgs' \in Remaining
      BY <1>1, <2>1, StruckProperties DEF TypeOK, Remaining
    <3> QED
      BY <1>1, <2>1, <2>4, <2>7, <3>1 DEF TypeOK, Remaining
  <2>9. Collected'
    <3>1. SUFFICES ASSUME NEW name \in {"--i", "--o"}
                   PROVE  IsRemaining(name)' \/ HasParsed(name)'
      BY DEF Collected
    <3>2. CASE name = argv[i]
      BY <1>2, <2>6, <2>7, <3>2 DEF HasParsed
    <3>3. CASE HasParsed(name)
      <4>1. PICK n \in 1..Len(_args) : _args[n].name = name
        BY <3>3 DEF HasParsed
      <4>2. n \in 1..Len(_args') /\ _args'[n].name = name
        BY <1>2, <2>7, <4>1
      <4> QED
        BY <4>2 DEF HasParsed
    <3>4. CASE name # argv[i] /\ IsRemaining(name)
      BY <1>1, <2>1, <3>4, StruckProperties DEF TypeOK, Remaining, IsRemaining
    <3> QED
      BY <1>1, <2>1, <3>2, <3>3, <3>4 DEF Collected
  <2> QED
    BY <2>8, <2>9 DEF Inv
<1>6. CASE Constructed
  BY <1>1, <1>6 DEF Constructed, parsed, results, Inv, TypeOK, Collected,
                    IsRemaining, HasParsed, argc, Stopped
<1>7. CASE Help
  BY <1>1, <1>7 DEF Help, parsed, Inv, TypeOK, Collected, argc, Stopped, Messages
<1>8. CASE RequiredMissing
  <2>1. /\ pos' = -1 /\ pc' = "exit" /\ message' = "Required arguments missing"
        /\ _remainingRequiredArgs # <<>>
        /\ _remainingRequiredArgs' =
             SubSeq(_remainingRequiredArgs, 1, Len(_remainingRequiredArgs) - 1)
        /\ UNCHANGED <<argv, i, _args, filename, output>>
    BY <1>8 DEF RequiredMissing, Throw, parsed
  <2>2. _remainingRequiredArgs' \in Remaining
    <3>1. CASE _remainingRequiredArgs = requiredArgs
      <4>1. requiredArgs \in Seq(argMap) /\ Len(requiredArgs) = 2
            /\ requiredArgs[1] = "--i"
        BY DEF requiredArgs, argMap
      <4>2. SubSeq(requiredArgs, 1, 1) = <<requiredArgs[1]>>
        BY <4>1, Singled
      <4>3. Len(_remainingRequiredArgs) - 1 = 1
        BY <3>1, <4>1
      <4> QED
        BY <2>1, <3>1, <4>1, <4>2, <4>3 DEF Remaining
    <3>2. CASE _remainingRequiredArgs \in {<<"--i">>, <<"--o">>}
      <4>1. Len(_remainingRequiredArgs) - 1 = 0
        BY <3>2
      <4>2. SubSeq(_remainingRequiredArgs, 1, 0) = <<>>
        BY SubSeqEmpty
      <4> QED
        BY <2>1, <4>1, <4>2 DEF Remaining
    <3> QED
      BY <1>1, <2>1, <3>1, <3>2 DEF TypeOK
  <2>3. pos' \in -1..Len(argv)
    <3>1. pos' = -1
      BY <2>1
    <3> QED
      BY <1>2, <3>1
  <2> QED
    BY <1>1, <2>1, <2>2, <2>3
       DEF Inv, TypeOK, Collected, Stopped, Messages, argc, Remaining
<1>9. CASE Open
  <2>1. /\ pc = "parsed" /\ _remainingRequiredArgs = <<>>
        /\ filename' = getFirstParam("--i")
        /\ pc' \in {"translate", "exit"}
        /\ message' \in {message, "Could not open"}
        /\ UNCHANGED <<argv, i, _args, _remainingRequiredArgs, pos, output>>
    BY <1>9 DEF Open, parsed
  <2>2. HasParsed("--i")
    <3>1. ~IsRemaining("--i")
      <4>1. _remainingRequiredArgs = <<>>
        BY <2>1
      <4>2. 1..Len(_remainingRequiredArgs) = {}
        BY <4>1
      <4> QED
        BY <4>2 DEF IsRemaining
    <3>2. IsRemaining("--i") \/ HasParsed("--i")
      BY <1>1, <2>1 DEF Collected
    <3> QED
      BY <3>1, <3>2
  <2>3. filename' \in STRING
    BY <1>1, <2>1, <2>2, GetProperties
  <2> QED
    BY <1>1, <2>1, <2>3 DEF Inv, TypeOK, Collected, IsRemaining, HasParsed, argc,
                            Stopped, Messages
<1>10. CASE Translated
  BY <1>1, <1>10 DEF Translated, parsed, Inv, TypeOK, Collected, argc, Stopped
<1>11. CASE TranslatorException
  BY <1>1, <1>11 DEF TranslatorException, parsed, Inv, TypeOK, Collected, argc,
                     Stopped, Messages
<1>12. CASE Terminated
  BY <1>1, <1>12 DEF Terminated, parsed, results, Inv, TypeOK, Collected, argc,
                     Stopped
<1>13. CASE UNCHANGED vars
  BY <1>1, <1>13 DEF vars, Inv, TypeOK, Collected, IsRemaining, HasParsed, argc
<1> QED
  BY <1>3, <1>4, <1>5, <1>6, <1>7, <1>8, <1>9, <1>10, <1>11, <1>12, <1>13
     DEF Next, Step, Done

\* So it always holds.
LEMMA Invariant == Spec => []Inv
<1> QED
  BY InitInv, NextInv, PTL DEF Spec

(***************************************************************************)
(* The theorems.                                                           *)
(***************************************************************************)

(* Whatever the command line, the variables keep their types: the input    *)
(* file is a parameter that was given, and control stays inside argv.      *)
THEOREM TypeCorrect == Spec => []TypeOK
<1>1. Inv => TypeOK
  BY DEF Inv
<1> QED
  BY <1>1, Invariant, PTL

(* get and getFirstParam, which have no result without an ArgObject and a  *)
(* parameter, always have both when main calls them: that nothing required *)
(* is missing any more means that it was parsed.                           *)
THEOREM GetCorrect == Spec => []GetDefined
<1>1. ASSUME Inv PROVE GetDefined
  <2>1. TypeOK /\ Collected
    BY <1>1 DEF Inv
  <2>2. SUFFICES ASSUME pc = "parsed", _remainingRequiredArgs = <<>>,
                        NEW name \in {"--i", "--o"}
                 PROVE  \E n \in 1..Len(_args) : /\ _args[n].name = name
                                                 /\ _args[n].params # <<>>
    BY DEF GetDefined
  <2>3. HasParsed(name)
    BY <2>1, <2>2 DEF Collected, IsRemaining
  <2>4. PICK n \in 1..Len(_args) : _args[n].name = name
    BY <2>3 DEF HasParsed
  <2>5. _args[n] \in ArgObject
    BY <2>1, <2>4, ElementOfSeq DEF TypeOK
  <2>6. Len(_args[n].params) = 1
    BY <2>4, <2>5 DEF ArgObject, additionalParams
  <2> QED
    BY <2>4, <2>6
<1> QED
  BY <1>1, Invariant, PTL

(***************************************************************************)
(* The line as a whole.                                                    *)
(***************************************************************************)

(* Whether the argument at j is an option, if f says so of those before it. *)
OptionAt(f, j) ==
  \/ j = 1
  \/ \E k \in 1..(j - 1) : /\ f[k] /\ argv[k] \in argMap
                           /\ j = k + 1 + additionalParams(argv[k])

\* There is such a function for a line of any length.
LEMMA OptionsExist ==
  ASSUME NEW L \in Nat
  PROVE  \E f : f = [j \in 1..L |-> OptionAt(f, j)]
<1> DEFINE Exists(n) == \E f : f = [j \in 1..n |-> OptionAt(f, j)]
           Fails == {n \in Nat : ~Exists(n)}
<1>1. Exists(0)
  <2> DEFINE f == [j \in 1..0 |-> FALSE]
  <2>1. f = [j \in 1..0 |-> OptionAt(f, j)]
    OBVIOUS
  <2> QED
    BY <2>1
<1>2. ASSUME NEW n \in Nat, Exists(n) PROVE Exists(n + 1)
  <2>1. PICK f : f = [j \in 1..n |-> OptionAt(f, j)]
    BY <1>2
  <2> DEFINE g == [j \in 1..(n + 1) |-> IF j = n + 1 THEN OptionAt(f, j) ELSE f[j]]
  <2>2. \A j \in 1..n : g[j] = f[j]
    OBVIOUS
  <2>3. ASSUME NEW j \in 1..(n + 1) PROVE g[j] = OptionAt(f, j)
    <3>1. CASE j = n + 1
      BY <3>1
    <3>2. CASE j # n + 1
      <4>1. j \in 1..n /\ g[j] = f[j]
        BY <2>2, <3>2
      <4>2. f[j] = OptionAt(f, j)
        <5> HIDE DEF g
        <5> QED BY <2>1, <4>1
      <4> QED BY <4>1, <4>2
    <3> QED BY <3>1, <3>2
  <2>4. ASSUME NEW j \in 1..(n + 1) PROVE OptionAt(f, j) = OptionAt(g, j)
    <3>1. \A k \in 1..(j - 1) : g[k] = f[k]
      BY <2>2
    <3> HIDE DEF g
    <3> QED BY <3>1 DEF OptionAt
  <2>5. g = [j \in 1..(n + 1) |-> OptionAt(g, j)]
    <3>1. g = [j \in 1..(n + 1) |-> g[j]]
      OBVIOUS
    <3>2. \A j \in 1..(n + 1) : g[j] = OptionAt(g, j)
      BY <2>3, <2>4, Zenon
    <3> HIDE DEF g
    <3> QED BY <3>1, <3>2
  <2> QED
    BY <2>5
<1>3. Fails = {}
  <2> HIDE DEF Exists
  <2> SUFFICES ASSUME Fails # {} PROVE FALSE
    OBVIOUS
  <2>1. PICK n \in Fails : \A m \in Fails : n <= m
    BY LeastNumber
  <2>2. n # 0
    BY <1>1, <2>1
  <2>3. n - 1 \in Nat /\ n - 1 \notin Fails /\ (n - 1) + 1 = n
    BY <2>1, <2>2
  <2> QED
    BY <1>2, <2>1, <2>3
<1> QED
  <2> HIDE DEF Exists
  <2>1. Exists(L)
    BY <1>3
  <2> QED
    BY <2>1 DEF Exists

\* So isOption is the function its definition says it is.
LEMMA IsOptionRecursion ==
  ASSUME argv \in Seq(STRING)
  PROVE  IsOption = [j \in 1..Len(argv) |-> OptionAt(IsOption, j)]
<1>1. \E f : f = [j \in 1..Len(argv) |-> OptionAt(f, j)]
  BY OptionsExist
<1> QED
  BY <1>1 DEF IsOption, OptionAt

(* It depends on the command line alone.                                   *)
LEMMA IsOptionUnchanged ==
  ASSUME argv' = argv
  PROVE  IsOption' = IsOption
<1> QED
  BY DEF IsOption

(* p tells at which argument each ArgObject was parsed: they follow one    *)
(* another without a gap up to where control is, and no other argument     *)
(* before it is an option.                                                 *)
End(p, n) == p[n] + additionalParams(argv[p[n]])

Traces(p) ==
  /\ p \in [1..Len(_args) -> 1..(i - 1)]
  /\ \A n \in 1..Len(_args) :
       /\ IsOption[p[n]] /\ argv[p[n]] \in argMap
       /\ _args[n].name = argv[p[n]]
       /\ _args[n].params = SubSeq(argv, p[n] + 1, End(p, n))
       /\ p[n] = IF n = 1 THEN 1 ELSE End(p, n - 1) + 1
       /\ End(p, n) < i
       /\ \A m \in 1..(n - 1) : p[m] < p[n]
  /\ i = IF Len(_args) = 0 THEN 1 ELSE End(p, Len(_args)) + 1
  /\ \A j \in 1..(i - 1) : IsOption[j] => \E n \in 1..Len(_args) : p[n] = j

Traced == (i <= Len(argv) => IsOption[i]) /\ \E p : Traces(p)

(* An option that is required and still missing was not parsed.            *)
NotMetTwice ==
  pc \in {"parse", "parsed"} =>
    \A name \in {"--i", "--o"} : IsRemaining(name) => ~HasParsed(name)

(* Nothing is reported before the end, and main comes after the last       *)
(* argument.                                                               *)
Quiet ==
  /\ pc \in {"parse", "parsed", "translate"} =>
       message = None /\ output = None /\ pos = -1
  /\ pc \in {"parse", "parsed"} => filename = None
  /\ pc \in {"parsed", "translate"} => i = argc
  /\ pc = "translate" => ~HasParsed("--h") /\ _remainingRequiredArgs = <<>>

Reported == FaultReported /\ RequiredGiven /\ FirstInputTranslated /\ HelpComesFirst

FullInv == Inv /\ Traced /\ NotMetTwice /\ Quiet /\ Reported

(***************************************************************************)
(* What the trace says of the command line.                                *)
(***************************************************************************)

\* What the properties of the line rest on.
LEMMA LineProperties ==
  ASSUME TypeOK
  PROVE  /\ Len(argv) \in Nat /\ argc = Len(argv) + 1
         /\ i \in 1..(Len(argv) + 1)
         /\ Len(_args) \in Nat
         /\ \A j : additionalParams(j) \in {0, 1}
<1> QED
  BY LenProperties DEF TypeOK, argc, additionalParams

(* IsOption, one argument at a time.                                       *)
LEMMA OptionsOfLine ==
  ASSUME TypeOK, NEW j \in 1..Len(argv)
  PROVE  /\ j = 1 => IsOption[j]
         /\ \A k \in 1..(j - 1) :
              IsOption[k] /\ argv[k] \in argMap
              /\ j = k + 1 + additionalParams(argv[k]) => IsOption[j]
         /\ IsOption[j] /\ j # 1 =>
              \E k \in 1..(j - 1) : /\ IsOption[k] /\ argv[k] \in argMap
                                    /\ j = k + 1 + additionalParams(argv[k])
<1>1. IsOption = [x \in 1..Len(argv) |-> OptionAt(IsOption, x)]
  BY IsOptionRecursion DEF TypeOK
<1>2. IsOption[j] = OptionAt(IsOption, j)
  BY <1>1
<1>3. OptionAt(IsOption, j) \in BOOLEAN
  BY DEF OptionAt
<1> QED
  BY <1>2, <1>3 DEF OptionAt

(* The parameter of the option at i is none.                               *)
LEMMA ParameterIsNoOption ==
  ASSUME TypeOK, Traced, i < argc, argv[i] \in argMap, topArgs < argc,
         NEW j \in (i + 1)..topArgs
  PROVE  ~IsOption[j]
<1>1. PICK p : Traces(p)
  BY DEF Traced
<1>2. topArgs = i + additionalParams(argv[i]) /\ j \in 1..Len(argv) /\ j = i + 1
  BY LineProperties DEF topArgs
<1>3. SUFFICES ASSUME IsOption[j] PROVE FALSE
  OBVIOUS
<1>4. PICK k \in 1..(j - 1) : /\ IsOption[k] /\ argv[k] \in argMap
                              /\ j = k + 1 + additionalParams(argv[k])
  BY <1>2, <1>3, OptionsOfLine, LineProperties
<1>5. CASE k = i
  BY <1>2, <1>4, <1>5, LineProperties
<1>6. CASE k # i
  <2>1. k \in 1..(i - 1)
    BY <1>2, <1>4, <1>6, LineProperties
  <2>2. PICK n \in 1..Len(_args) : p[n] = k
    BY <1>1, <1>4, <2>1 DEF Traces
  <2>3. k + additionalParams(argv[k]) < i
    BY <1>1, <2>2 DEF Traces, End
  <2>4. additionalParams(argv[k]) \in Int /\ i \in Int /\ k \in Int
    BY <2>1, LineProperties
  <2> QED
    BY <1>2, <1>4, <2>3, <2>4
<1> QED
  BY <1>5, <1>6

(* The options before i are those that were parsed, and none is faulty.    *)
LEMMA OptionsParsed ==
  ASSUME TypeOK, Traced
  PROVE  /\ \A j \in 1..(i - 1) : ~Faulty(j)
         /\ \A name : HasParsed(name) <=> \E j \in 1..(i - 1) : Given(name, j)
<1>1. PICK p : Traces(p)
  BY DEF Traced
<1>2. ASSUME NEW j \in 1..(i - 1) PROVE ~Faulty(j)
  <2>1. SUFFICES ASSUME IsOption[j] PROVE /\ argv[j] \in argMap
                                          /\ ~(j + additionalParams(argv[j]) > Len(argv))
    BY DEF Faulty
  <2>2. PICK n \in 1..Len(_args) : p[n] = j
    BY <1>1, <2>1 DEF Traces
  <2>3. argv[j] \in argMap /\ j + additionalParams(argv[j]) < i
    BY <1>1, <2>2 DEF Traces, End
  <2>4. additionalParams(argv[j]) \in Int /\ i \in 1..(Len(argv) + 1) /\ j \in Int
        /\ Len(argv) \in Nat
    BY LineProperties
  <2> QED
    BY <2>3, <2>4
<1>3. ASSUME NEW name, HasParsed(name)
      PROVE  \E j \in 1..(i - 1) : Given(name, j)
  <2>1. PICK n \in 1..Len(_args) : _args[n].name = name
    BY <1>3 DEF HasParsed
  <2>2. p[n] \in 1..(i - 1) /\ IsOption[p[n]] /\ argv[p[n]] = name
    BY <1>1, <2>1 DEF Traces
  <2> QED
    BY <2>2 DEF Given
<1>4. ASSUME NEW name, NEW j \in 1..(i - 1), Given(name, j)
      PROVE  HasParsed(name)
  <2>1. PICK n \in 1..Len(_args) : p[n] = j
    BY <1>1, <1>4 DEF Traces, Given
  <2>2. _args[n].name = name
    BY <1>1, <1>4, <2>1 DEF Traces, Given
  <2> QED
    BY <2>2 DEF HasParsed
<1> QED
  BY <1>2, <1>3, <1>4

(* At the end of the command line every option in it was parsed.           *)
LEMMA AllParsed ==
  ASSUME TypeOK, Traced, i = argc
  PROVE  WellFormed /\ \A name : HasParsed(name) <=> IsGiven(name)
<1>1. i - 1 = Len(argv)
  BY LineProperties
<1> QED
  BY <1>1, OptionsParsed DEF WellFormed, IsGiven

(* The first of the ArgObjects of a class is the first such option.        *)
LEMMA FirstParsed ==
  ASSUME TypeOK, Traced, i = argc, NEW name \in {"--i", "--o"}, HasParsed(name)
  PROVE  \E j \in 1..Len(argv) : /\ Given(name, j)
                                 /\ getFirstParam(name) = argv[j + 1]
                                 /\ \A k \in 1..(j - 1) : ~Given(name, k)
<1>1. PICK p : Traces(p)
  BY DEF Traced
<1>2. i - 1 = Len(argv) /\ Len(argv) \in Nat /\ Len(_args) \in Nat
  BY LineProperties
<1>3. /\ FirstOf(name) \in 1..Len(_args)
      /\ _args[FirstOf(name)].name = name
      /\ \A m \in 1..(FirstOf(name) - 1) : _args[m].name # name
  <2> DEFINE M == {n \in 1..Len(_args) : _args[n].name = name}
  <2>1. M \in SUBSET (1..Len(_args)) /\ M # {}
    BY DEF HasParsed
  <2>2. PICK n \in M : \A m \in M : n <= m
    <3> HIDE DEF M
    <3> QED BY <1>2, <2>1, LeastIndex
  <2>3. \A m \in 1..(n - 1) : _args[m].name # name
    BY <1>2, <2>2
  <2> QED
    BY <2>2, <2>3 DEF FirstOf
<1>8. PICK f \in 1..Len(_args) : /\ f = FirstOf(name) /\ _args[f].name = name
                                /\ \A m \in 1..(f - 1) : _args[m].name # name
  BY <1>3
<1>9. PICK j \in 1..(i - 1) : j = p[f]
  BY <1>1 DEF Traces
<1>4. /\ j \in 1..Len(argv) /\ IsOption[j] /\ argv[j] = name /\ End(p, f) = j + 1
      /\ End(p, f) < i /\ _args[f].params = SubSeq(argv, j + 1, j + 1)
  <2>1. IsOption[p[f]] /\ argv[p[f]] = name /\ End(p, f) < i
        /\ _args[f].params = SubSeq(argv, p[f] + 1, End(p, f))
    BY <1>1, <1>8 DEF Traces
  <2>2. End(p, f) = p[f] + 1
    BY <2>1 DEF End, additionalParams
  <2>3. j \in 1..Len(argv)
    BY <1>2
  <2> QED BY <1>9, <2>1, <2>2, <2>3
<1>5. j + 1 \in 1..Len(argv)
  <2>1. j + 1 < i /\ j \in Nat /\ i - 1 = Len(argv) /\ i \in Int
    BY <1>2, <1>4, LineProperties
  <2> QED BY <1>2, <2>1
<1>6. getFirstParam(name) = argv[j + 1]
  <2>1. argv \in Seq(STRING)
    BY DEF TypeOK
  <2>2. SubSeq(argv, j + 1, j + 1) = <<argv[j + 1]>>
    BY <1>5, <2>1, Singled
  <2>3. getFirstParam(name) = _args[f].params[1]
    BY <1>8 DEF getFirstParam, get
  <2>4. <<argv[j + 1]>>[1] = argv[j + 1]
    OBVIOUS
  <2> QED BY <1>4, <2>2, <2>3, <2>4
<1>7. ASSUME NEW k \in 1..(j - 1), Given(name, k) PROVE FALSE
  <2>1. k \in 1..(i - 1)
    BY <1>2, <1>4
  <2>2. PICK n \in 1..Len(_args) : p[n] = k
    BY <1>1, <1>7, <2>1 DEF Traces, Given
  <2>3. _args[n].name = name
    BY <1>1, <1>7, <2>2 DEF Traces, Given
  <2>4. CASE n < f
    BY <1>2, <1>8, <2>2, <2>3, <2>4
  <2>5. CASE n > f
    <3>1. p[f] < p[n]
      BY <1>1, <1>2, <1>8, <2>2, <2>5 DEF Traces
    <3> QED BY <1>2, <1>9, <2>2, <3>1
  <2>6. CASE n = f
    BY <1>2, <1>9, <2>2, <2>6
  <2> QED BY <1>2, <1>8, <2>2, <2>4, <2>5, <2>6
<1> QED
  BY <1>4, <1>6, <1>7 DEF Given

(***************************************************************************)
(* The invariant.                                                          *)
(***************************************************************************)

(* What depends on the command line alone stays as it is.                  *)
LEMMA LineUnchanged ==
  ASSUME argv' = argv
  PROVE  /\ IsOption' = IsOption /\ argc' = argc
         /\ WellFormed' <=> WellFormed
         /\ \A j : Faulty(j)' <=> Faulty(j)
         /\ \A name, j : Given(name, j)' <=> Given(name, j)
         /\ \A name : IsGiven(name)' <=> IsGiven(name)
<1>1. IsOption' = IsOption /\ argc' = argc
  BY IsOptionUnchanged DEF argc
<1>2. /\ \A j : Faulty(j)' <=> Faulty(j)
      /\ \A name, j : Given(name, j)' <=> Given(name, j)
  BY <1>1 DEF Faulty, Given
<1> QED
  BY <1>1, <1>2 DEF WellFormed, IsGiven

\* Nothing is parsed at first.
LEMMA TracedInit == Init /\ TypeOK => Traced
<1> SUFFICES ASSUME Init, TypeOK PROVE Traced
  OBVIOUS
<1>1. i = 1 /\ Len(_args) = 0
  BY DEF Init
<1>2. i <= Len(argv) => IsOption[i]
  BY <1>1, OptionsOfLine, LineProperties
<1> DEFINE p == [n \in 1..0 |-> 1]
<1>3. Traces(p)
  BY <1>1 DEF Traces
<1> QED
  BY <1>2, <1>3 DEF Traced

(* Nothing changes the trace but parsing an argument.                      *)
LEMMA TracedUnchanged ==
  ASSUME Traced, UNCHANGED parsed
  PROVE  Traced'
<1>1. argv' = argv /\ i' = i /\ _args' = _args /\ IsOption' = IsOption
  BY LineUnchanged DEF parsed
<1>2. PICK p : Traces(p)
  BY DEF Traced
<1>3. Traces(p)'
  BY <1>1, <1>2 DEF Traces, End
<1> QED
  BY <1>1, <1>3 DEF Traced

\* Parsing one argument keeps the trace.
LEMMA TracedArgument ==
  ASSUME TypeOK, TypeOK', Traced, Argument
  PROVE  Traced'
<1>1. /\ i < argc /\ argv[i] \in argMap /\ topArgs < argc
      /\ _args' = Append(_args, [name |-> argv[i], params |-> Params])
      /\ i' = topArgs + 1
      /\ argv' = argv /\ IsOption' = IsOption
  BY LineUnchanged DEF Argument, AtArgument
<1>2. /\ Len(argv) \in Nat /\ argc = Len(argv) + 1 /\ Len(_args) \in Nat
      /\ i \in 1..Len(argv) /\ topArgs = i + additionalParams(argv[i])
      /\ additionalParams(argv[i]) \in {0, 1}
  BY <1>1, LineProperties DEF topArgs
<1>3. PICK p : Traces(p)
  BY DEF Traced
<1>4. PICK L \in Nat : L = Len(_args)
  BY <1>2
<1> DEFINE object == [name |-> argv[i], params |-> Params]
<1>5. /\ Len(_args') = L + 1 /\ _args'[L + 1] = object
      /\ \A n \in 1..L : _args'[n] = _args[n]
  <2> HIDE DEF object
  <2>1. _args' = Append(_args, object) /\ _args \in Seq(ArgObject)
    BY <1>1 DEF object, TypeOK
  <2> QED
    BY <1>4, <2>1, AppendProperties
<1>6. object.name = argv[i] /\ object.params = SubSeq(argv, i + 1, topArgs)
  BY DEF Params
<1>14. PICK q : q = [n \in 1..(L + 1) |-> IF n = L + 1 THEN i ELSE p[n]]
  OBVIOUS
<1>7. /\ q[L + 1] = i /\ \A n \in 1..L : q[n] = p[n]
      /\ q \in [1..(L + 1) -> 1..topArgs]
  <2>1. p \in [1..L -> 1..(i - 1)]
    BY <1>3, <1>4 DEF Traces
  <2> QED
    BY <1>2, <1>14, <2>1
<1> HIDE DEF object
<1>8. End(q, L + 1) = topArgs /\ \A n \in 1..L : End(q, n) = End(p, n)
  BY <1>2, <1>7 DEF End
<1>9. IsOption[i] /\ (L = 0 => i = 1) /\ (L # 0 => i = End(p, L) + 1)
  BY <1>2, <1>3, <1>4 DEF Traced, Traces
<1>10. ASSUME NEW n \in 1..(L + 1)
       PROVE  /\ IsOption[q[n]] /\ argv[q[n]] \in argMap
              /\ _args'[n].name = argv[q[n]]
              /\ _args'[n].params = SubSeq(argv, q[n] + 1, End(q, n))
              /\ q[n] = IF n = 1 THEN 1 ELSE End(q, n - 1) + 1
              /\ End(q, n) < topArgs + 1
              /\ \A m \in 1..(n - 1) : q[m] < q[n]
  <2>1. CASE n = L + 1
    <3>1. q[n] = IF n = 1 THEN 1 ELSE End(q, n - 1) + 1
      BY <1>7, <1>8, <1>9, <2>1
    <3>2. \A m \in 1..(n - 1) : q[m] < q[n]
      <4>1. \A m \in 1..L : p[m] \in 1..(i - 1)
        BY <1>3, <1>4 DEF Traces
      <4> QED BY <1>2, <1>7, <2>1, <4>1
    <3>3. End(q, n) < topArgs + 1
      BY <1>2, <1>8, <2>1
    <3> QED BY <1>1, <1>5, <1>6, <1>7, <1>8, <1>9, <2>1, <3>1, <3>2, <3>3
  <2>2. CASE n # L + 1
    <3>1. n \in 1..L
      BY <2>2
    <3>2. /\ IsOption[p[n]] /\ argv[p[n]] \in argMap
          /\ _args[n].name = argv[p[n]]
          /\ _args[n].params = SubSeq(argv, p[n] + 1, End(p, n))
          /\ p[n] = IF n = 1 THEN 1 ELSE End(p, n - 1) + 1
          /\ End(p, n) < i
          /\ \A m \in 1..(n - 1) : p[m] < p[n]
      BY <1>3, <1>4, <3>1 DEF Traces
    <3>3. End(q, n) < topArgs + 1
      <4>1. End(p, n) \in Int
        <5>1. p[n] \in Int /\ additionalParams(argv[p[n]]) \in Int
          BY <1>2, <1>3, <1>4, <3>1, LineProperties DEF Traces
        <5> QED BY <5>1 DEF End
      <4> QED BY <1>2, <1>8, <3>1, <3>2, <4>1
    <3>4. q[n] = IF n = 1 THEN 1 ELSE End(q, n - 1) + 1
      <4>1. n # 1 => n - 1 \in 1..L
        BY <3>1
      <4> QED BY <1>7, <1>8, <3>1, <3>2, <4>1
    <3>5. \A m \in 1..(n - 1) : q[m] < q[n]
      <4>1. \A m \in 1..(n - 1) : m \in 1..L
        BY <3>1
      <4> QED BY <1>7, <3>1, <3>2, <4>1
    <3> QED BY <1>5, <1>7, <1>8, <3>1, <3>2, <3>3, <3>4, <3>5
  <2> QED BY <2>1, <2>2
<1>11. ASSUME NEW j \in 1..topArgs, IsOption[j]
       PROVE  \E n \in 1..(L + 1) : q[n] = j
  <2>1. CASE j \in 1..(i - 1)
    <3>1. PICK n \in 1..L : p[n] = j
      BY <1>3, <1>4, <1>11, <2>1 DEF Traces
    <3> QED BY <1>7, <3>1
  <2>2. CASE j = i
    BY <1>7, <2>2
  <2>3. CASE j \in (i + 1)..topArgs
    BY <1>1, <1>11, <2>3, ParameterIsNoOption
  <2> QED BY <1>2, <2>1, <2>2, <2>3
<1>12. Traces(q)'
  <2>1. topArgs + 1 = (IF L + 1 = 0 THEN 1 ELSE End(q, L + 1) + 1)
        /\ topArgs + 1 - 1 = topArgs
    BY <1>2, <1>8
  <2>2. \A n : End(q, n)' = End(q, n)
    BY <1>1 DEF End
  <2>3. /\ q \in [1..Len(_args') -> 1..(i' - 1)]
        /\ i' = IF Len(_args') = 0 THEN 1 ELSE End(q, Len(_args')) + 1
        /\ \A j \in 1..(i' - 1) : IsOption'[j] =>
             \E n \in 1..Len(_args') : q[n] = j
    <3>1. i' = topArgs + 1 /\ i' - 1 = topArgs /\ Len(_args') = L + 1
          /\ IsOption' = IsOption
      <4>1. topArgs \in Int
        BY <1>2
      <4>2. i' = topArgs + 1 /\ IsOption' = IsOption
        BY <1>1
      <4> QED BY <1>5, <4>1, <4>2
    <3>2. q \in [1..Len(_args') -> 1..(i' - 1)]
      BY <1>7, <3>1
    <3>3. i' = IF Len(_args') = 0 THEN 1 ELSE End(q, Len(_args')) + 1
      BY <1>8, <3>1
    <3> QED BY <1>11, <3>1, <3>2, <3>3
  <2>4. \A n \in 1..Len(_args') :
          /\ IsOption'[q[n]] /\ argv'[q[n]] \in argMap
          /\ _args'[n].name = argv'[q[n]]
          /\ _args'[n].params = SubSeq(argv', q[n] + 1, End(q, n))
          /\ q[n] = IF n = 1 THEN 1 ELSE End(q, n - 1) + 1
          /\ End(q, n) < i'
          /\ \A m \in 1..(n - 1) : q[m] < q[n]
    BY <1>1, <1>5, <1>10
  <2>5. End(q, Len(_args))' = End(q, Len(_args'))
    BY <1>1 DEF End
  <2> QED BY <2>2, <2>3, <2>4, <2>5 DEF Traces
<1>13. i' <= Len(argv') => IsOption'[i']
  <2>1. ASSUME topArgs + 1 <= Len(argv) PROVE IsOption[topArgs + 1]
    <3>1. PICK j \in 1..Len(argv) : j = topArgs + 1
      BY <1>2, <2>1
    <3>2. i \in 1..(j - 1) /\ j = i + 1 + additionalParams(argv[i])
      BY <1>2, <3>1
    <3> QED BY <1>1, <1>9, <3>1, <3>2, OptionsOfLine
  <2> QED BY <1>1, <2>1
<1> QED
  BY <1>12, <1>13 DEF Traced

\* The invariant holds at first.
LEMMA FullInit == Init => FullInv
<1> SUFFICES ASSUME Init PROVE FullInv
  OBVIOUS
<1>1. Inv /\ TypeOK
  BY InitInv DEF Inv
<1>2. Traced
  BY <1>1, TracedInit
<1>3. /\ pc = "parse" /\ message = None /\ output = None /\ pos = -1
      /\ filename = None /\ ~HasParsed("--i") /\ ~HasParsed("--o")
  BY DEF Init, HasParsed
<1>4. NotMetTwice /\ Quiet
  BY <1>3 DEF NotMetTwice, Quiet
<1>5. Reported
  BY <1>3 DEF Reported, FaultReported, Constructing, RequiredGiven,
              FirstInputTranslated, HelpComesFirst, Stopped, None
<1> QED
  BY <1>1, <1>2, <1>4, <1>5 DEF FullInv

(* What is reported is about the command line, and stays.                  *)
LEMMA ReportedUnchanged ==
  ASSUME Reported, UNCHANGED <<argv, pc, results>>
  PROVE  Reported'
<1>1. argv' = argv /\ pc' = pc /\ message' = message /\ pos' = pos
      /\ filename' = filename /\ output' = output
  BY DEF results
<1>2. FaultReported'
  BY <1>1, LineUnchanged DEF Reported, FaultReported, Constructing
<1>3. RequiredGiven'
  BY <1>1, LineUnchanged DEF Reported, RequiredGiven
<1>4. FirstInputTranslated'
  BY <1>1, LineUnchanged DEF Reported, FirstInputTranslated
<1>5. HelpComesFirst'
  BY <1>1, LineUnchanged DEF Reported, HelpComesFirst
<1> QED
  BY <1>2, <1>3, <1>4, <1>5 DEF Reported

(* A step with which the constructor throws, or goes on.                   *)
LEMMA FullConstructing ==
  ASSUME FullInv, Inv', InvalidArgument \/ MissingParameters \/ Argument
                        \/ Constructed
  PROVE  FullInv'
<1>1. /\ TypeOK /\ Traced /\ NotMetTwice /\ Quiet /\ Reported /\ TypeOK'
      /\ _remainingRequiredArgs \in Remaining
  BY DEF FullInv, Inv, TypeOK, Remaining
<1>2. pc = "parse"
  BY DEF InvalidArgument, MissingParameters, Argument, Constructed, AtArgument
<1>3. message = None /\ output = None /\ pos = -1 /\ filename = None
  BY <1>1, <1>2 DEF Quiet
<1>4. CASE InvalidArgument \/ MissingParameters
  <2>1. /\ i < argc /\ pos' = i /\ pc' = "exit" /\ UNCHANGED parsed
        /\ message' # "Required arguments missing"
        /\ output' = output /\ filename' = filename
        /\ argv' = argv
        /\ argv[i] \notin argMap \/ topArgs >= argc
        /\ message' = IF argv[i] \in argMap THEN TooFewParams ELSE UnknownOption
    BY <1>4 DEF InvalidArgument, MissingParameters, AtArgument, Throw, parsed,
                TooFewParams, UnknownOption
  <2>2. i \in 1..Len(argv) /\ Faulty(i)
    <3>1. i \in 1..Len(argv) /\ Len(argv) \in Nat /\ argc = Len(argv) + 1
          /\ additionalParams(argv[i]) \in {0, 1}
      <4>1. /\ i \in 1..(Len(argv) + 1) /\ Len(argv) \in Nat
            /\ argc = Len(argv) + 1 /\ additionalParams(argv[i]) \in {0, 1}
        BY <1>1, LineProperties
      <4>2. i < argc
        BY <2>1
      <4> QED BY <4>1, <4>2
    <3>2. IsOption[i]
      BY <1>1, <3>1 DEF Traced
    <3>3. argv[i] \in argMap => i + additionalParams(argv[i]) > Len(argv)
      <4>1. argv[i] \in argMap => i + additionalParams(argv[i]) >= Len(argv) + 1
        BY <2>1, <3>1 DEF topArgs
      <4> QED BY <3>1, <4>1
    <3> QED BY <3>1, <3>2, <3>3 DEF Faulty
  <2>3. Traced'
    BY <1>1, <2>1, TracedUnchanged
  <2>4. NotMetTwice' /\ Quiet'
    BY <2>1 DEF NotMetTwice, Quiet
  <2>5. ~WellFormed /\ ~WellFormed'
    BY <2>1, <2>2, LineUnchanged DEF WellFormed
  <2>6. FaultReported'
    <3>1. /\ pos' \in 1..Len(argv') /\ Faulty(pos)'
          /\ message' = IF argv'[pos'] \in argMap THEN TooFewParams
                        ELSE UnknownOption
      <4>1. PICK k \in 1..Len(argv) : k = i /\ Faulty(k)
        BY <2>2
      <4>2. Faulty(k)' /\ pos' = k
        BY <2>1, <4>1, LineUnchanged
      <4> QED BY <2>1, <4>1, <4>2 DEF Faulty
    <3> QED BY <2>1, <2>5, <3>1 DEF FaultReported
  <2>7. RequiredGiven' /\ FirstInputTranslated' /\ HelpComesFirst'
    BY <2>1, <2>5 DEF RequiredGiven, FirstInputTranslated, HelpComesFirst
  <2> QED BY <2>3, <2>4, <2>6, <2>7 DEF FullInv, Reported
<1>5. CASE Argument
  <2>1. /\ _remainingRequiredArgs' = Struck
        /\ _args' = Append(_args, [name |-> argv[i], params |-> Params])
        /\ UNCHANGED <<argv, pc, results>>
    BY <1>5 DEF Argument
  <2>2. Traced'
    BY <1>1, <1>5, TracedArgument
  <2>3. Reported'
    BY <1>1, <2>1, ReportedUnchanged
  <2>4. Quiet'
    BY <1>2, <1>3, <2>1 DEF Quiet, results
  <2>5. NotMetTwice'
    <3>1. SUFFICES ASSUME NEW name \in {"--i", "--o"}, IsRemaining(name)',
                          HasParsed(name)'
                   PROVE  FALSE
      BY DEF NotMetTwice
    <3>2. PICK n \in 1..Len(Struck) : Struck[n] = name
      BY <2>1, <3>1 DEF IsRemaining
    <3>3. name # argv[i] /\ IsRemaining(name)
      BY <1>1, <3>2, StruckProperties DEF IsRemaining
    <3>4. ~HasParsed(name)
      BY <1>1, <1>2, <3>3 DEF NotMetTwice
    <3>5. PICK m \in 1..Len(_args') : _args'[m].name = name
      BY <3>1 DEF HasParsed
    <3> DEFINE object == [name |-> argv[i], params |-> Params]
    <3>6. object.name = argv[i]
      OBVIOUS
    <3> HIDE DEF object
    <3>7. /\ Len(_args) \in Nat /\ Len(_args') = Len(_args) + 1
          /\ _args'[Len(_args) + 1] = object
          /\ \A k \in 1..Len(_args) : _args'[k] = _args[k]
      <4>1. _args \in Seq(ArgObject) /\ _args' = Append(_args, object)
        BY <1>1, <2>1 DEF TypeOK, object
      <4> QED BY <4>1, AppendProperties, LenProperties
    <3> QED BY <3>3, <3>4, <3>5, <3>6, <3>7 DEF HasParsed
  <2> QED BY <2>2, <2>3, <2>4, <2>5 DEF FullInv
<1>6. CASE Constructed
  <2>1. /\ i >= argc /\ pc' = "parsed"
        /\ UNCHANGED <<parsed, argv, i, _args, _remainingRequiredArgs, message, pos,
                       filename, output>>
    BY <1>6 DEF Constructed, parsed, results
  <2>2. Traced'
    BY <1>1, <2>1, TracedUnchanged
  <2>3. i = argc /\ argc' = argc
    <3>1. i \in 1..argc /\ argc \in Nat
      BY <1>1, LineProperties
    <3> QED BY <2>1, <3>1 DEF argc
  <2>4. WellFormed /\ WellFormed'
    BY <1>1, <2>1, <2>3, AllParsed, LineUnchanged
  <2>5. Quiet'
    BY <1>3, <2>1, <2>3 DEF Quiet
  <2>6. NotMetTwice'
    BY <1>1, <1>2, <2>1 DEF NotMetTwice, IsRemaining, HasParsed
  <2>7. Reported'
    BY <1>3, <2>1, <2>4 DEF Reported, FaultReported, Constructing, RequiredGiven,
       FirstInputTranslated, HelpComesFirst, Stopped, None, TooFewParams,
       UnknownOption
  <2> QED BY <2>2, <2>5, <2>6, <2>7 DEF FullInv
<1> QED
  BY <1>4, <1>5, <1>6

(* A step of main.                                                         *)
LEMMA FullMain ==
  ASSUME FullInv, Inv', Help \/ RequiredMissing \/ Open \/ Translated
                        \/ TranslatorException \/ Terminated
  PROVE  FullInv'
<1>1. /\ TypeOK /\ Collected /\ Traced /\ NotMetTwice /\ Quiet /\ Reported
      /\ _remainingRequiredArgs \in Remaining
  BY DEF FullInv, Inv, TypeOK, Remaining
<1>2. /\ pc \in {"parsed", "translate"} /\ pc' \notin {"parse", "parsed"}
      /\ UNCHANGED parsed /\ argv' = argv /\ i' = i /\ _args' = _args
  BY DEF Help, RequiredMissing, Open, Translated, TranslatorException, Terminated,
         Throw, parsed
<1>3. message = None /\ output = None /\ pos = -1 /\ i = argc
  BY <1>1, <1>2 DEF Quiet
<1>4. /\ WellFormed /\ WellFormed'
      /\ \A name : /\ HasParsed(name) <=> IsGiven(name)
                   /\ IsGiven(name)' <=> IsGiven(name)
                   /\ HasParsed(name)' <=> HasParsed(name)
  BY <1>1, <1>2, <1>3, AllParsed, LineUnchanged DEF HasParsed
<1>5. Traced'
  BY <1>1, <1>2, TracedUnchanged
<1>6. NotMetTwice'
  BY <1>2 DEF NotMetTwice
<1>7. /\ pos' = -1 /\ argc' = argc
      /\ message' \notin {UnknownOption, TooFewParams}
  BY <1>2, <1>3, LineUnchanged DEF Help, RequiredMissing, Open, Translated,
     TranslatorException, Terminated, Throw, results, None, UnknownOption,
     TooFewParams
<1>8. Quiet'
  BY <1>1, <1>2, <1>3, <1>4, <1>7 DEF Quiet, Help, RequiredMissing, Open,
     Translated, TranslatorException, Terminated, Throw, results, HelpAsked,
     hasArg, HasParsed
<1>9. FaultReported'
  BY <1>4, <1>7 DEF FaultReported
<1>10. RequiredGiven'
  <2>1. ASSUME pc' = "translate" PROVE IsGiven("--i") /\ IsGiven("--o")
    <3>1. pc = "parsed" /\ _remainingRequiredArgs = <<>>
      BY <2>1 DEF Help, RequiredMissing, Open, Translated, TranslatorException,
                  Terminated, Throw
    <3>2. HasParsed("--i") /\ HasParsed("--o")
      <4>1. ~IsRemaining("--i") /\ ~IsRemaining("--o")
        BY <3>1 DEF IsRemaining
      <4> QED BY <1>1, <3>1, <4>1 DEF Collected
    <3> QED BY <1>4, <3>2
  <2>2. ASSUME message' = "Required arguments missing"
        PROVE  ~IsGiven("--i") \/ ~IsGiven("--o")
    <3>1. pc = "parsed" /\ _remainingRequiredArgs # <<>>
      BY <1>3, <2>2 DEF Help, RequiredMissing, Open, Translated,
         TranslatorException, Terminated, Throw, results, None
    <3>2. \E name \in {"--i", "--o"} : IsRemaining(name)
      BY <1>1, <3>1 DEF Remaining, requiredArgs, IsRemaining
    <3> QED BY <1>1, <1>4, <3>1, <3>2 DEF NotMetTwice
  <2> QED BY <1>4, <2>1, <2>2 DEF RequiredGiven
<1>11. FirstInputTranslated'
  <2>1. SUFFICES ASSUME pc' = "translate"
                 PROVE  FirstInputTranslated'
    BY DEF FirstInputTranslated
  <2>2. /\ pc = "parsed" /\ _remainingRequiredArgs = <<>>
        /\ filename' = getFirstParam("--i")
    BY <2>1 DEF Help, RequiredMissing, Open, Translated, TranslatorException,
                Terminated, Throw
  <2>3. HasParsed("--i")
    <3>1. ~IsRemaining("--i")
      BY <2>2 DEF IsRemaining
    <3> QED BY <1>1, <2>2, <3>1 DEF Collected
  <2>4. PICK j \in 1..Len(argv) : /\ Given("--i", j) /\ filename' = argv[j + 1]
                                  /\ \A k \in 1..(j - 1) : ~Given("--i", k)
    BY <1>1, <1>3, <2>2, <2>3, FirstParsed
  <2>5. /\ j \in 1..Len(argv') /\ Given("--i", j)' /\ filename' = argv'[j + 1]
        /\ \A k \in 1..(j - 1) : ~Given("--i", k)'
    BY <1>2, <2>4, LineUnchanged
  <2> QED BY <2>5 DEF FirstInputTranslated
<1>12. HelpComesFirst'
  <2>1. CASE ~HasParsed("--h")
    BY <1>4, <2>1 DEF HelpComesFirst
  <2>2. CASE HasParsed("--h")
    <3>1. pc = "parsed" /\ HelpAsked
      BY <1>1, <1>2, <2>2 DEF Quiet, HelpAsked, hasArg, HasParsed
    <3>2. Help
      BY <3>1 DEF Help, RequiredMissing, Open, Translated, TranslatorException,
                  Terminated
    <3>3. filename = None
      BY <1>1, <3>1 DEF Quiet
    <3> QED BY <1>3, <3>2, <3>3 DEF Help, HelpComesFirst
  <2> QED BY <2>1, <2>2
<1> QED
  BY <1>5, <1>6, <1>8, <1>9, <1>10, <1>11, <1>12 DEF FullInv, Reported

\* Every step keeps it.
LEMMA FullNext == FullInv /\ [Next]_vars => FullInv'
<1> SUFFICES ASSUME FullInv, [Next]_vars PROVE FullInv'
  OBVIOUS
<1>1. Inv'
  BY NextInv DEF FullInv
<1>2. CASE UNCHANGED vars
  <2>1. UNCHANGED <<argv, i, _args, _remainingRequiredArgs, pc, message, pos,
                    filename, output>>
    BY <1>2 DEF vars
  <2>2. Traced'
    BY <2>1, TracedUnchanged DEF FullInv, parsed
  <2>3. Reported'
    BY <2>1, ReportedUnchanged DEF FullInv, results
  <2>4. NotMetTwice' /\ Quiet'
    BY <2>1, LineUnchanged DEF FullInv, NotMetTwice, Quiet, IsRemaining, HasParsed
  <2> QED BY <1>1, <2>2, <2>3, <2>4 DEF FullInv
<1>3. CASE InvalidArgument \/ MissingParameters \/ Argument \/ Constructed
  BY <1>1, <1>3, FullConstructing
<1>4. CASE Help \/ RequiredMissing \/ Open \/ Translated
           \/ TranslatorException \/ Terminated
  BY <1>1, <1>4, FullMain
<1> QED
  BY <1>2, <1>3, <1>4 DEF Next, Step, Done

\* So it always holds.
LEMMA FullInvariant == Spec => []FullInv
<1> QED
  BY FullInit, FullNext, PTL DEF Spec

(***************************************************************************)
(* The options as they were spelled.                                       *)
(***************************************************************************)

SpelledAt(f, n) ==
  IF n = 0 THEN <<>> ELSE f[n - 1] \o <<_args[n].name>> \o _args[n].params

\* There is a function that spells the parsed options out.
LEMMA SpelledExists ==
  ASSUME NEW L \in Nat
  PROVE  \E f : f = [n \in 0..L |-> SpelledAt(f, n)]
<1> DEFINE Exists(n) == \E f : f = [m \in 0..n |-> SpelledAt(f, m)]
           Fails == {n \in Nat : ~Exists(n)}
<1>1. Exists(0)
  <2>1. PICK f : f = [m \in 0..0 |-> <<>>]
    OBVIOUS
  <2>2. f = [m \in 0..0 |-> SpelledAt(f, m)]
    BY <2>1 DEF SpelledAt
  <2> QED
    BY <2>2
<1>2. ASSUME NEW n \in Nat, Exists(n) PROVE Exists(n + 1)
  <2>1. PICK f : f = [m \in 0..n |-> SpelledAt(f, m)]
    BY <1>2
  <2>2. PICK g : g = [m \in 0..(n + 1) |-> IF m = n + 1 THEN SpelledAt(f, m) ELSE f[m]]
    OBVIOUS
  <2>3. \A m \in 0..n : g[m] = f[m]
    BY <2>2
  <2>4. ASSUME NEW m \in 0..(n + 1) PROVE g[m] = SpelledAt(f, m)
    <3>1. CASE m = n + 1
      BY <2>2, <3>1
    <3>2. CASE m # n + 1
      <4>1. m \in 0..n
        BY <3>2
      <4> QED BY <2>1, <2>3, <4>1
    <3> QED BY <3>1, <3>2
  <2>5. ASSUME NEW m \in 0..(n + 1) PROVE SpelledAt(f, m) = SpelledAt(g, m)
    <3>1. m # 0 => m - 1 \in 0..n
      OBVIOUS
    <3> QED BY <2>3, <3>1 DEF SpelledAt
  <2>6. g = [m \in 0..(n + 1) |-> SpelledAt(g, m)]
    <3>1. g = [m \in 0..(n + 1) |-> g[m]]
      BY <2>2
    <3> QED BY <2>4, <2>5, <3>1
  <2> QED
    BY <2>6
<1>3. Fails = {}
  <2> HIDE DEF Exists
  <2> SUFFICES ASSUME Fails # {} PROVE FALSE
    OBVIOUS
  <2>1. PICK n \in Fails : \A m \in Fails : n <= m
    BY LeastNumber
  <2>2. n # 0
    BY <1>1, <2>1
  <2>3. n - 1 \in Nat /\ n - 1 \notin Fails /\ (n - 1) + 1 = n
    BY <2>1, <2>2
  <2> QED
    BY <1>2, <2>1, <2>3
<1> QED
  <2> HIDE DEF Exists
  <2>1. Exists(L)
    BY <1>3
  <2> QED
    BY <2>1 DEF Exists

\* So SpelledUpTo is the function its definition says it is.
LEMMA SpelledRecursion ==
  ASSUME Len(_args) \in Nat
  PROVE  SpelledUpTo = [n \in 0..Len(_args) |-> SpelledAt(SpelledUpTo, n)]
<1>1. \E f : f = [n \in 0..Len(_args) |-> SpelledAt(f, n)]
  BY SpelledExists
<1> QED
  BY <1>1 DEF SpelledUpTo, SpelledAt

\* A line that is traced to its end is consumed.
LEMMA Consumed == TypeOK /\ Traced => AllConsumed
<1> SUFFICES ASSUME TypeOK, Traced PROVE AllConsumed
  OBVIOUS
<1>1. PICK p : Traces(p)
  BY DEF Traced
<1>2. PICK L \in Nat : L = Len(_args)
  BY LineProperties
<1>3. argv \in Seq(STRING) /\ Len(argv) \in Nat /\ i \in 1..(Len(argv) + 1)
  BY LineProperties DEF TypeOK
<1> DEFINE e(n) == IF n = 0 THEN 0 ELSE End(p, n)
           Holds(n) == SpelledUpTo[n] = SubSeq(argv, 1, e(n))
           Fails == {n \in 0..L : ~Holds(n)}
<1>4. ASSUME NEW n \in 0..L
      PROVE  SpelledUpTo[n] = SpelledAt(SpelledUpTo, n)
  <2>1. SpelledUpTo = [m \in 0..L |-> SpelledAt(SpelledUpTo, m)]
    BY <1>2, SpelledRecursion
  <2> QED BY <2>1
<1>5. Holds(0)
  <2>1. SpelledUpTo[0] = <<>>
    <3>1. 0 \in 0..L
      OBVIOUS
    <3>2. SpelledUpTo[0] = SpelledAt(SpelledUpTo, 0)
      BY <1>4, <3>1
    <3> QED BY <3>2 DEF SpelledAt
  <2> QED BY <2>1, SubSeqEmpty
<1>6. ASSUME NEW n \in 0..L, n # 0, Holds(n - 1) PROVE Holds(n)
  <2>1. /\ n \in 1..L /\ p[n] \in 1..(i - 1) /\ End(p, n) < i
        /\ _args[n].name = argv[p[n]]
        /\ _args[n].params = SubSeq(argv, p[n] + 1, End(p, n))
        /\ p[n] = IF n = 1 THEN 1 ELSE End(p, n - 1) + 1
    BY <1>1, <1>2, <1>6 DEF Traces
  <2>2. p[n] = e(n - 1) + 1 /\ e(n) = End(p, n)
    BY <1>6, <2>1
  <2>3. PICK b \in Nat : b = p[n] /\ b \in 1..Len(argv)
    BY <1>3, <2>1
  <2>4. e(n - 1) = b - 1
    <3>1. n # 1 => p[n - 1] \in Int /\ additionalParams(argv[p[n - 1]]) \in Int
      <4>1. n # 1 => n - 1 \in 1..L
        BY <2>1
      <4>2. \A m \in 1..L : p[m] \in 1..(i - 1)
        BY <1>1, <1>2 DEF Traces
      <4> QED BY <1>3, <4>1, <4>2, LineProperties
    <3>2. e(n - 1) \in Int
      BY <2>1, <3>1 DEF End
    <3> QED BY <2>2, <2>3, <3>2
  <2>5. PICK c \in Nat : c = End(p, n) /\ c \in b..Len(argv)
    <3>1. End(p, n) = b + additionalParams(argv[b]) /\ additionalParams(argv[b]) \in {0, 1}
      BY <2>3, LineProperties DEF End
    <3>2. PICK x \in {0, 1} : x = additionalParams(argv[b]) /\ b + x < i
      BY <2>1, <3>1
    <3>3. b + x \in Nat /\ b + x \in b..Len(argv)
      BY <1>3, <3>2
    <3> QED BY <3>1, <3>2, <3>3
  <2>6. SubSeq(argv, 1, b - 1) \o <<argv[b]>> = SubSeq(argv, 1, b)
    <3>1. 1 \in 1..Len(argv) /\ b \in 1..Len(argv)
      BY <1>3, <2>3
    <3> QED BY <1>3, <3>1, SubSeqRecursiveSecond
  <2>7. SubSeq(argv, 1, b) \o SubSeq(argv, b + 1, c) = SubSeq(argv, 1, c)
    <3>1. 1 \in 1..(Len(argv) + 1) /\ b \in (1 - 1)..Len(argv)
      BY <1>3, <2>3
    <3> QED BY <1>3, <2>5, <3>1, ConcatAdjacentSubSeq
  <2>8. SpelledUpTo[n] = SpelledUpTo[n - 1] \o <<argv[b]>> \o SubSeq(argv, b + 1, c)
    BY <1>4, <1>6, <2>1, <2>3, <2>5 DEF SpelledAt
  <2>9. SpelledUpTo[n - 1] = SubSeq(argv, 1, b - 1)
    BY <1>6, <2>4
  <2> QED BY <2>2, <2>5, <2>6, <2>7, <2>8, <2>9
<1>7. Fails = {}
  <2> HIDE DEF Holds
  <2> SUFFICES ASSUME Fails # {} PROVE FALSE
    OBVIOUS
  <2>1. PICK n \in Fails : \A m \in Fails : n <= m
    <3>1. Fails \in SUBSET Nat
      OBVIOUS
    <3> QED BY <3>1, LeastNumber
  <2>2. n # 0
    BY <1>5, <2>1
  <2>3. n - 1 \in 0..L /\ n - 1 \notin Fails
    BY <2>1, <2>2
  <2> QED
    BY <1>6, <2>1, <2>2, <2>3
<1>8. SpelledUpTo[L] = SubSeq(argv, 1, e(L))
  <2> HIDE DEF Holds
  <2>1. Holds(L)
    BY <1>7
  <2> QED BY <2>1 DEF Holds
<1>9. e(L) = i - 1
  <2>1. i = IF L = 0 THEN 1 ELSE End(p, L) + 1
    BY <1>1, <1>2 DEF Traces
  <2>2. L # 0 => End(p, L) \in Int
    <3>1. L # 0 => p[L] \in 1..(i - 1)
      BY <1>1, <1>2 DEF Traces
    <3> QED BY <1>3, <3>1, LineProperties DEF End
  <2> QED BY <2>1, <2>2
<1> QED
  BY <1>2, <1>8, <1>9 DEF AllConsumed, Spelled

(* No argument is lost, repeated or reordered by the parse: at any moment  *)
(* the ArgObjects, written out, are the command line up to where the       *)
(* constructor is.                                                         *)
THEOREM LineConsumed == Spec => []AllConsumed
<1>1. FullInv => AllConsumed
  BY Consumed DEF FullInv, Inv
<1> QED
  BY <1>1, FullInvariant, PTL

(* The constructor refuses a malformed command line with the position of a *)
(* faulty option and the message for its fault, and no well-formed one.    *)
THEOREM FaultsReported == Spec => []FaultReported
<1>1. FullInv => FaultReported
  BY DEF FullInv, Reported
<1> QED
  BY <1>1, FullInvariant, PTL

(* A file is translated only if both required options were given, and they *)
(* are called missing only if one was not.                                 *)
THEOREM RequiredAreGiven == Spec => []RequiredGiven
<1>1. FullInv => RequiredGiven
  BY DEF FullInv, Reported
<1> QED
  BY <1>1, FullInvariant, PTL

(* The file translated is the parameter of the first option --i.           *)
THEOREM FirstInput == Spec => []FirstInputTranslated
<1>1. FullInv => FirstInputTranslated
  BY DEF FullInv, Reported
<1> QED
  BY <1>1, FullInvariant, PTL

(* On a well-formed command line with --h nothing but the syntax is shown. *)
THEOREM HelpFirst == Spec => []HelpComesFirst
<1>1. FullInv => HelpComesFirst
  BY DEF FullInv, Reported
<1> QED
  BY <1>1, FullInvariant, PTL
==============================================================================
