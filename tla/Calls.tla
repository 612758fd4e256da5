--------------------------------- MODULE Calls ---------------------------------
(***************************************************************************)
(* find_wrappers, locate and strip as their callers see them: a call takes  *)
(* a text, the one at hand or the one that strip returned, and answers.      *)
(***************************************************************************)
CONSTANTS
  Texts,
  Refusals(_),      \* what a text may be refused with before it is read
  Answers(_, _)     \* what a function may answer of a text

VARIABLES
  argument,      \* the text of the call
  operation,     \* the function called
  running,       \* whether the call has not answered yet
  answer         \* what it returned or raised

vars == <<argument, operation, running, answer>>

Init ==
  /\ argument \in Texts /\ operation = "find_wrappers"
  /\ running = FALSE /\ answer = [kind |-> "none"]

(* A refusal comes before anything is read.                                  *)
Ask ==
  /\ ~ running
  /\ operation' \in {"find_wrappers", "locate", "strip"}
  /\ \/ argument' = argument
     \/ answer.kind = "text" /\ argument' = answer.text
  /\ \/ Refusals(argument') = {} /\ running' = TRUE /\ answer' = [kind |-> "none"]
     \/ running' = FALSE /\ answer' \in Refusals(argument')

Answer ==
  /\ running /\ running' = FALSE
  /\ answer' \in Answers(operation, argument)
  /\ UNCHANGED <<argument, operation>>

Next == Ask \/ Answer

Spec == Init /\ [][Next]_vars
=============================================================================
