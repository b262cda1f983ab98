------------------------------- MODULE ArgParse -------------------------------
(***************************************************************************)
(* ArgParse.hxx and main.cxx: the command line of rrpc.                    *)
(*                                                                         *)
(* The constructor of ArgParse takes one option and its parameters off the *)
(* command line per iteration; main then looks at what was parsed and      *)
(* translates the input file.  argv is the list of arguments after the     *)
(* program's name, so argv[i] is the program's argv[i] and argc is one     *)
(* more than the length of the list.                                       *)
(***************************************************************************)
EXTENDS Integers, Sequences, FiniteSets

CONSTANT CommandLines   \* the lists of arguments rrpc is started with

ASSUME CommandLinesAssumption == CommandLines \subseteq Seq(STRING)

VARIABLES
  argv,
  i,          \* the argument the constructor is at
  _args,      \* the ArgObjects, <name, params>; the class goes with the name
  _remainingRequiredArgs,
  pc,         \* where control is: in the constructor, then in main
  message,    \* what main prints at last, if not the syntax
  pos,        \* ArgParseException::_pos
  filename,   \* the input file
  output      \* the file the bitcode was written to

vars == <<argv, i, _args, _remainingRequiredArgs, pc, message, pos, filename,
          output>>

parsed  == <<argv, i, _args>>
results == <<message, pos, filename, output>>

------------------------------------------------------------------------------
\* The options there are, and ArgArchetype::getAdditionalParams of each.
argMap == {"--v", "--i", "--o", "--h"}
NoInputParams(name)    == IF name = "--o" THEN 1 ELSE 0
additionalParams(name) == IF name \in {"--i", "--o"} THEN 1 ELSE 0

requiredArgs == <<"--i", "--o">>

argc == Len(argv) + 1

None == "none"

Init ==
  /\ argv \in CommandLines
  /\ i = 1
  /\ _args = <<>>
  /\ _remainingRequiredArgs = requiredArgs
  /\ pc = "parse"
  /\ message = None
  /\ pos = -1
  /\ filename = None
  /\ output = None

------------------------------------------------------------------------------
(* The constructor.                                                        *)

\* main catches the ArgParseException, prints it and returns 0.
ThrowUnplaced(at, text) ==
  /\ pc' = "exit"
  /\ message' = text
  /\ pos' = -1
  /\ UNCHANGED <<parsed, filename, output>>

Throw(at, text) ==
  /\ pc' = "exit"
  /\ message' = text
  /\ pos' = at
  /\ UNCHANGED <<parsed, filename, output>>

AtArgument == pc = "parse" /\ i < argc

InvalidArgument ==
  /\ AtArgument
  /\ argv[i] \notin argMap
  /\ Throw(i, "Invalid argument")
  /\ UNCHANGED _remainingRequiredArgs

\* A required argument is struck off the first time it is met, whatever
\* becomes of its parameters.
PopBack == SubSeq(_remainingRequiredArgs, 1,
                  Len(_remainingRequiredArgs) - additionalParams(argv[i]))
IsRequired == \E n \in 1..Len(_remainingRequiredArgs) :
                _remainingRequiredArgs[n] = argv[i]
requiredArgIter == CHOOSE n \in 1..Len(_remainingRequiredArgs) :
                     _remainingRequiredArgs[n] = argv[i]
Struck == IF IsRequired
          THEN SubSeq(_remainingRequiredArgs, 1, requiredArgIter - 1)
               \o SubSeq(_remainingRequiredArgs, requiredArgIter + 1,
                         Len(_remainingRequiredArgs))
          ELSE _remainingRequiredArgs

OneForAll == i + 1
topArgs   == i + additionalParams(argv[i])

MissingParameters ==
  /\ AtArgument
  /\ argv[i] \in argMap
  /\ topArgs >= argc
  /\ _remainingRequiredArgs' = Struck
  /\ Throw(i, "Argument expected more parameters")

\* The parameters are taken as they are, options or not.
ParamsFromOption == SubSeq(argv, i, topArgs - 1)
Params           == SubSeq(argv, i + 1, topArgs)

Argument ==
  /\ AtArgument
  /\ argv[i] \in argMap
  /\ topArgs < argc
  /\ _remainingRequiredArgs' = Struck
  /\ _args' = Append(_args, [name |-> argv[i], params |-> Params])
  /\ i' = topArgs + 1
  /\ UNCHANGED <<argv, pc, results>>

Constructed ==
  /\ pc = "parse"
  /\ i >= argc
  /\ pc' = "parsed"
  /\ UNCHANGED <<parsed, _remainingRequiredArgs, results>>

------------------------------------------------------------------------------
(* main.                                                                   *)

hasArg(name) == \E n \in 1..Len(_args) : _args[n].name = name

\* get: the first ArgObject of the class.  Without one the function ends
\* without returning a value.
LastOf(name) ==
  CHOOSE n \in 1..Len(_args) :
    _args[n].name = name /\ \A m \in (n + 1)..Len(_args) : _args[m].name # name
FirstOf(name) ==
  CHOOSE n \in 1..Len(_args) :
    _args[n].name = name /\ \A m \in 1..(n - 1) : _args[m].name # name
get(name) == _args[FirstOf(name)]

getFirstParam(name) == get(name).params[1]

\* The help page, asked for anywhere, comes before missing arguments.
HelpIfComplete == hasArg("--h") /\ _remainingRequiredArgs = <<>>
HelpAsked      == hasArg("--h")

Help ==
  /\ pc = "parsed"
  /\ HelpAsked
  /\ pc' = "exit"
  /\ message' = "Possible arguments"
  /\ UNCHANGED <<parsed, _remainingRequiredArgs, pos, filename, output>>

\* verifyRequired names the last one missing first.
RequiredMissing ==
  /\ pc = "parsed"
  /\ ~HelpAsked
  /\ _remainingRequiredArgs # <<>>
  /\ _remainingRequiredArgs' =
       SubSeq(_remainingRequiredArgs, 1, Len(_remainingRequiredArgs) - 1)
  /\ Throw(-1, "Required arguments missing")

\* f.open(filename)
Open ==
  /\ pc = "parsed"
  /\ ~HelpAsked
  /\ _remainingRequiredArgs = <<>>
  /\ filename' = getFirstParam("--i")
  /\ \/ pc' = "translate" /\ UNCHANGED message
     \/ pc' = "exit" /\ message' = "Could not open"
  /\ UNCHANGED <<parsed, _remainingRequiredArgs, pos, output>>

\* process_file and output_bitcode, which Translator models, by how they end.
Translated ==
  /\ pc = "translate"
  /\ pc' = "exit"
  /\ output' = "rrpout.bc"
  /\ UNCHANGED <<parsed, _remainingRequiredArgs, message, pos, filename>>

TranslatorException ==
  /\ pc = "translate"
  /\ pc' = "exit"
  /\ message' = "Exception while processing file"
  /\ UNCHANGED <<parsed, _remainingRequiredArgs, pos, filename, output>>

\* Any other exception leaves main.
Terminated ==
  /\ pc = "translate"
  /\ pc' = "terminated"
  /\ UNCHANGED <<parsed, _remainingRequiredArgs, results>>

Stopped == {"exit", "terminated"}

Step == \/ InvalidArgument \/ MissingParameters \/ Argument \/ Constructed
        \/ Help \/ RequiredMissing \/ Open
        \/ Translated \/ TranslatorException \/ Terminated

Done == pc \in Stopped /\ UNCHANGED vars

Next == Step \/ Done

Spec == Init /\ [][Next]_vars

------------------------------------------------------------------------------
(* Properties.                                                             *)

Messages == {None, "Invalid argument", "Argument expected more parameters",
             "Required arguments missing", "Possible arguments",
             "Could not open", "Exception while processing file"}

(* The values of the variables.  Every option parsed is one there is, with *)
(* as many parameters as it expects, and control is inside the command     *)
(* line or at its end.                                                     *)
ArgObject == {o \in [name: argMap, params: Seq(STRING)] :
                Len(o.params) = additionalParams(o.name)}
TypeOK ==
  /\ argv \in Seq(STRING)
  /\ i \in 1..argc
  /\ _args \in Seq(ArgObject)
  /\ _remainingRequiredArgs \in {requiredArgs, <<"--i">>, <<"--o">>, <<>>}
  /\ pc \in {"parse", "parsed", "translate"} \cup Stopped
  /\ message \in Messages
  /\ pos \in -1..Len(argv)
  /\ filename \in {None} \cup STRING
  /\ output \in {None, "rrpout.bc"}

(* Which arguments are options and which are parameters, read off the      *)
(* command line alone: an option follows the parameters of the one before. *)
IsOption[j \in 1..Len(argv)] ==
  \/ j = 1
  \/ \E k \in 1..(j - 1) : /\ IsOption[k] /\ argv[k] \in argMap
                           /\ j = k + 1 + additionalParams(argv[k])
Faulty(j) == /\ IsOption[j]
             /\ \/ argv[j] \notin argMap
                \/ j + additionalParams(argv[j]) > Len(argv)
Given(name, j) == IsOption[j] /\ argv[j] = name
IsGiven(name)  == \E j \in 1..Len(argv) : Given(name, j)
WellFormed     == \A j \in 1..Len(argv) : ~Faulty(j)

Constructing == pc = "parse"

(* No argument is lost, repeated or reordered: the options parsed with     *)
(* their parameters are the command line up to where control is.           *)
SpelledUpTo[n \in 0..Len(_args)] ==
  IF n = 0 THEN <<>>
  ELSE SpelledUpTo[n - 1] \o <<_args[n].name>> \o _args[n].params
Spelled == SpelledUpTo[Len(_args)]
AllConsumed == Spelled = SubSeq(argv, 1, i - 1)

\* What the constructor reports.
UnknownOption == "Invalid argument"
TooFewParams  == "Argument expected more parameters"

(* The constructor refuses the malformed command lines and no others, with *)
(* the position of a faulty option and the message for its fault.  What is *)
(* malformed is by the table of options (see UsageAccepted); verifyRequired *)
(* may refuse a well-formed line after the constructor (see RequiredGiven). *)
FaultReported ==
  ~Constructing =>
    IF WellFormed
    THEN pos = -1 /\ message \notin {UnknownOption, TooFewParams}
    ELSE /\ pos \in 1..Len(argv) /\ Faulty(pos) /\ pc = "exit"
         /\ message = IF argv[pos] \in argMap THEN TooFewParams ELSE UnknownOption

(* What get and getFirstParam dereference exists when main calls them: an  *)
(* option that was required and is not missing was parsed, with its        *)
(* parameter.                                                              *)
GetDefined ==
  pc = "parsed" /\ _remainingRequiredArgs = <<>> =>
    \A name \in {"--i", "--o"} :
      \E n \in 1..Len(_args) : /\ _args[n].name = name
                              /\ _args[n].params # <<>>

(* A file is only translated if both required options were given, and they *)
(* are only called missing if one was not.                                 *)
RequiredGiven ==
  /\ pc = "translate" => IsGiven("--i") /\ IsGiven("--o")
  /\ message = "Required arguments missing" => ~(IsGiven("--i") /\ IsGiven("--o"))

(* The file translated is the parameter of the first --i that is an option *)
(* and not itself the parameter of another.                                *)
FirstInputTranslated ==
  pc = "translate" =>
    \E j \in 1..Len(argv) : /\ Given("--i", j) /\ filename = argv[j + 1]
                           /\ \A k \in 1..(j - 1) : ~Given("--i", k)

(* A well-formed command line with --h prints the syntax and nothing else  *)
(* happens, whatever is missing.                                           *)
HelpComesFirst ==
  pc \in Stopped \cup {"translate"} /\ WellFormed /\ IsGiven("--h") =>
    message = "Possible arguments" /\ filename = None /\ output = None

(* README.md:15, "Currently, RRP's syntax is as follows: rrpc <input 6502  *)
(* binary file>", as compile.sh:11 calls it: rrpc started with nothing but *)
(* a file name takes it for the input file.                                *)
UsageAccepted ==
  Len(argv) = 1 /\ argv[1] \notin argMap /\ pc \in Stopped =>
    filename = argv[1]
=============================================================================
