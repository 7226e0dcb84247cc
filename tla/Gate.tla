-------------------------------- MODULE Gate --------------------------------
(***************************************************************************)
(* What pre-flight promises, without the editor, the daemon or the checks: *)
(* a line that is dangerous wherever it runs, if it was looked at at all,  *)
(* runs only after it was shown as blocked, once for each time it was.     *)
(***************************************************************************)

CONSTANTS
  Lines, \* what can be in the line editor
  None   \* no line

VARIABLES
  asks,    \* the lines that are dangerous wherever they run
  offered, \* the line whose block was shown and waits for the second Enter
  ran      \* the line that has just run and how, "confirmed" or "passed"

Nothing == [line |-> None, how |-> "nothing"]

Init ==
  /\ asks \subseteq Lines
  /\ offered = None
  /\ ran = Nothing

\* A block is shown.
Offer ==
  /\ offered' \in Lines \ {None}
  /\ ran' = Nothing

\* The line shown runs, and with that its showing is used up.
Confirm ==
  /\ offered # None
  /\ ran' = [line |-> offered, how |-> "confirmed"]
  /\ offered' = None

\* A line is found to be safe enough.
Pass ==
  /\ ran'.line \in Lines \ asks
  /\ ran' = [ran' EXCEPT !.how = "passed"]
  /\ offered' = None

\* Nobody looks: the checks are off, or nobody answers; or the user edits.
Other ==
  /\ ran' = Nothing
  /\ offered' \in {offered, None}

Next ==
  /\ asks' = asks
  /\ Offer \/ Confirm \/ Pass \/ Other

Spec == Init /\ [][Next]_<<asks, offered, ran>>
=============================================================================
