--------------------------------- MODULE Map ---------------------------------
(***************************************************************************)
(* What a map from keys to values promises its caller: a call is made, has *)
(* its effect on the contents at one moment, and returns a result that     *)
(* tells what the contents were at that moment.                            *)
(***************************************************************************)
CONSTANTS Keys, Values, None

VARIABLES
  contents,  \* the value of each key, or None
  request,   \* the call in progress: <op, key, value>
  result     \* what the last call returned

vars == <<contents, request, result>>

\* Calls that reorganise the map without changing what is in it.
Housekeeping == {"resize", "squash", "copy"}
Operations   == {"find", "index", "insert", "erase", "clear"} \cup Housekeeping

NoRequest == [op |-> None, key |-> None, value |-> None]

Init ==
  /\ contents = [k \in Keys |-> None]
  /\ request = NoRequest
  /\ result = None

Call ==
  /\ request = NoRequest
  /\ request' \in [op: Operations, key: Keys \cup {None},
                   value: Values \cup {None}]
  /\ result' = None
  /\ UNCHANGED contents

Present(k) == contents[k] # None

\* What the call in progress makes of the contents, and what it returns.
Updated ==
  IF request.op = "index" \/ (request.op = "insert" /\ ~Present(request.key))
  THEN [contents EXCEPT ![request.key] = request.value]
  ELSE IF request.op = "erase" THEN [contents EXCEPT ![request.key] = None]
  ELSE IF request.op = "clear" THEN [k \in Keys |-> None]
  ELSE contents

Answer ==
  IF request.op = "find" THEN contents[request.key]
  ELSE IF request.op = "insert" THEN ~Present(request.key)
  ELSE IF request.op = "erase" THEN Present(request.key)
  ELSE None

Return ==
  /\ request # NoRequest
  /\ contents' = Updated
  /\ result' = Answer
  /\ request' = NoRequest

Next == Call \/ Return

Spec == Init /\ [][Next]_vars
=============================================================================
