------------------------------ MODULE EventLoop -----------------------------
(***************************************************************************)
(* EventLoop::wait_next_event of src/util/eventloop.cc for rules on file   *)
(* descriptors.  A loop has a sequence of rules that have not been erased; *)
(* the code that owns it keeps the state x that their functions work on.   *)
(***************************************************************************)
EXTENDS SequencesExt

CONSTANTS Defunct(_, _),   \* of x and a rule: its descriptor is at its end, or closed
          Interest(_, _),  \* its interest function
          Cancel(_, _),    \* the state after its cancel function
          Callback(_, _),  \* the state after its callback
          Idle(_, _, _),   \* of x before and after the callback: it served nothing
          Pollable(_, _),  \* poll() reports the descriptor ready
          Hup(_, _)        \* poll() reports a hangup

\* Rules whose descriptor is at its end are cancelled and erased, in order; Wanted
\* are those of the others that were interested when their turn came.
Pruned(x, rules) ==
  FoldLeft(LAMBDA acc, rule :
             IF Defunct(acc.x, rule) THEN [acc EXCEPT !.x = Cancel(@, rule)]
             ELSE [acc EXCEPT !.rules = Append(@, rule),
                              !.wanted = @ \cup {r \in {rule} : Interest(acc.x, r)}],
           [x |-> x, rules |-> << >>, wanted |-> {}], rules)

\* What poll() reported of one rule's descriptor: it hung up and there is nothing
\* to wait for, or it is ready.
Ready(polled, rule) ==
  rule \in polled.wanted /\ Pollable(polled.x, rule)

Gone(polled, rule) ==
  /\ Hup(polled.x, rule)
  /\ \/ rule \in polled.wanted /\ ~Ready(polled, rule)
     \/ rule.direction = "Out"

\* A callback was run, and y is the state after it.  A rule that neither read nor
\* wrote and is still interested is taken for a busy wait: an exception.  No callback
\* of the programs closes the descriptor of its own rule.
CalledBack(acc, rule, y) ==
  [x |-> y, rules |-> Append(acc.rules, rule),
   result |-> IF Idle(acc.x, y, rule) /\ Interest(y, rule) THEN "BusyWait" ELSE "Success"]

\* The results of poll() in the order of the rules: those gone are cancelled and
\* erased until the first ready one is served.
Served(polled) ==
  FoldLeft(LAMBDA acc, rule :
             IF acc.result # "None" THEN [acc EXCEPT !.rules = Append(@, rule)]
             ELSE IF Gone(polled, rule) THEN [acc EXCEPT !.x = Cancel(@, rule)]
             ELSE IF Ready(polled, rule)
             THEN CalledBack(acc, rule, Callback(acc.x, rule))
             ELSE [acc EXCEPT !.rules = Append(@, rule)],
           [x |-> polled.x, rules |-> << >>, result |-> "None"], polled.rules)

\* The part of the call that follows the walk over the rules.
AfterPoll(polled) ==
  LET left(result) == [x |-> polled.x, rules |-> polled.rules, result |-> result]
  IN  IF polled.wanted = {} THEN left("Exit")
      ELSE IF \A i \in 1..Len(polled.rules) :
                /\ ~Ready(polled, polled.rules[i])
                /\ ~Hup(polled.x, polled.rules[i])
      THEN left("Timeout")
      ELSE [Served(polled) EXCEPT !.result = IF @ = "None" THEN "Success" ELSE @]

\* One call: the state afterwards, the rules that are left, and the result; one
\* rule is served at most.
WaitNextEvent(x, rules) == AfterPoll(Pruned(x, rules))

=============================================================================
