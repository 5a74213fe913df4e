---------------------------- MODULE Consultation ----------------------------
(***************************************************************************)
(* What IActionCallback promises an action that asks a question            *)
(* (shared/include/insti/core/action_callback.h): the question stays open  *)
(* until it is answered, the answer is the one given to this question, and *)
(* the action goes on with it.                                             *)
(***************************************************************************)
CONSTANTS
    Questions,   \* what an action may ask
    Answers,     \* the answer to each question
    NoQuestion,  \* no question is open: not one of Questions
    NoReply      \* there is no answer yet: not one of Answers

VARIABLES
    asked,  \* the open question, or NoQuestion
    reply   \* its answer, or NoReply while there is none

Init == asked = NoQuestion /\ reply = NoReply

Ask(q) ==
    /\ asked = NoQuestion
    /\ asked' = q
    /\ UNCHANGED reply

Reply ==
    /\ asked # NoQuestion /\ reply = NoReply
    /\ reply' = Answers[asked]
    /\ UNCHANGED asked

Resume ==
    /\ reply # NoReply
    /\ asked' = NoQuestion /\ reply' = NoReply

Next == (\E q \in Questions : Ask(q)) \/ Reply \/ Resume

vars == <<asked, reply>>

\* What the dialogue may do; nobody has to ask.
Safety == Init /\ [][Next]_vars

\* Both sides answer for their half of it.
Spec == Safety /\ WF_vars(Reply) /\ WF_vars(Resume)
=============================================================================
