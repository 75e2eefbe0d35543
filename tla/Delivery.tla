------------------------------- MODULE Delivery -------------------------------
(***************************************************************************)
(* What the messenger promises about one message: the sender keeps a copy  *)
(* before the server sees it, the server accepts it at most once, and it   *)
(* arrives at most once.  A message the server has handed out may be gone. *)
(***************************************************************************)
CONSTANT Messages

VARIABLE stage   \* message -> how far it has come

Stages == {"new", "kept", "held", "arrived", "gone"}

Moves == {<<"new", "kept">>,      \* the sender's own copy is stored
          <<"kept", "held">>,     \* the server queues it
          <<"held", "arrived">>,  \* the recipient stores it
          <<"held", "gone">>}     \* it was handed out, and its taker is gone

TypeOK == stage \in [Messages -> Stages]

Init == stage = [m \in Messages |-> "new"]

\* Several messages move in one step when they are lost together.
Next ==
  /\ stage' \in [Messages -> Stages]
  /\ \A m \in Messages : stage'[m] # stage[m] => <<stage[m], stage'[m]>> \in Moves

Spec == Init /\ [][Next]_stage
=============================================================================
