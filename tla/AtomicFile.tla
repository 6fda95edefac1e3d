---------------------------- MODULE AtomicFile -----------------------------
(***************************************************************************)
(* What every repository relies on: a file whose requests take effect one  *)
(* at a time and entirely or not at all.  A request that reports success   *)
(* has its effect, one that reports an error has none, one cut off by a    *)
(* crash may have either, and whoever reads is given the contents of the   *)
(* last request that took effect.  Three promises are weaker: the removal  *)
(* is best effort, once a call of the file system has failed, or in a      *)
(* crash, it may leave the file or bring back contents once asked for;     *)
(* once two calls have failed, an error leaves its caller in doubt; and    *)
(* once three have, an error or a crash of a write may bring back what was *)
(* asked for earlier.                                                      *)
(***************************************************************************)
EXTENDS Naturals

CONSTANTS Contents, Missing, NoRequest

VARIABLES
  value,     \* the contents of the file, or Missing
  offered,   \* Missing, and whatever was asked to be written
  request,   \* the request being served: its kind and what it writes
  answer,    \* what the reader or the updater was given
  result,    \* how the last request ended: "ok", "error" or "none"
  faults     \* how many calls of the file system have failed

vars == <<value, offered, request, answer, result, faults>>

Requests == [op : {"write", "update", "read", "remove"}, contents : Contents]

Init ==
  /\ value = Missing
  /\ offered = {Missing}
  /\ request = NoRequest
  /\ answer = Missing
  /\ result = "none"
  /\ faults = 0

Begin(r) ==
  /\ request = NoRequest
  /\ request' = r
  /\ result' = "none"
  /\ answer' = Missing
  /\ offered' = IF r.op \in {"write", "update"} THEN offered \cup {r.contents} ELSE offered
  /\ UNCHANGED value

Look ==
  /\ request # NoRequest /\ request.op \in {"read", "update"}
  /\ answer' = value
  /\ UNCHANGED <<value, offered, request, result>>

Writes == request # NoRequest /\ request.op \in {"write", "update"}

End(r) == request' = NoRequest /\ result' = r

Succeed ==
  /\ request # NoRequest
  /\ IF Writes THEN value' = request.contents
     ELSE IF request.op = "remove"
          THEN value' \in IF faults = 0 THEN {Missing} ELSE offered
     ELSE UNCHANGED value
  /\ IF request.op = "read" THEN answer' = value ELSE answer' = answer
  /\ UNCHANGED offered
  /\ End("ok")

Fail ==
  /\ request # NoRequest
  /\ \/ UNCHANGED value
     \/ faults' >= 2 /\ Writes /\ value' = request.contents
     \/ faults' >= 3 /\ Writes /\ value' \in offered
  /\ UNCHANGED <<offered, answer>>
  /\ End("error")

Crash ==
  /\ request # NoRequest
  /\ \/ UNCHANGED value
     \/ Writes /\ value' = request.contents
     \/ faults >= 3 /\ Writes /\ value' \in offered
     \/ request.op = "remove" /\ value' \in offered
  /\ UNCHANGED <<offered, answer>>
  /\ End("none")

\* A call may fail at any moment.
Next ==
  /\ faults' \in {faults, faults + 1}
  /\ \/ Look \/ Succeed \/ Fail \/ Crash \/ \E r \in Requests : Begin(r)
     \/ UNCHANGED <<value, offered, request, answer, result>>

Spec == Init /\ [][Next]_vars
=============================================================================
