---------------------------- MODULE LinearHistory ----------------------------
(***************************************************************************)
(* What a document's undo history promises, whoever edits it: a line of    *)
(* states with one of them present.  An edit puts a state after the present *)
(* one and forgets the states ahead; Undo and Redo only walk the line.     *)
(* Nothing is ever put in the middle of it, and nothing behind the present  *)
(* is lost.  EditHistory implements it: every drag, field edit and deletion *)
(* of Edit Unit, however many writes it takes, is one Do.                   *)
(***************************************************************************)
EXTENDS Sequences, SequencesExt

CONSTANT State          \* what the document can hold

VARIABLES past,         \* the states behind the present one, oldest first
          present,      \* the last state a step left
          future        \* the states ahead, the nearest last

historyVars == <<past, present, future>>

Init == past \in Seq(State) /\ present \in State /\ future \in Seq(State)

Do(v) == /\ past' = Append(past, present)
         /\ present' = v
         /\ future' = << >>

\* An edit begun and then refused has already cost the states ahead.
Forget == future' = << >> /\ UNCHANGED <<past, present>>

Undo == /\ past # << >>
        /\ past' = Front(past)
        /\ present' = Last(past)
        /\ future' = Append(future, present)

Redo == /\ future # << >>
        /\ future' = Front(future)
        /\ present' = Last(future)
        /\ past' = Append(past, present)

Next == (\E v \in State : Do(v)) \/ Forget \/ Undo \/ Redo

LinearSpec == Init /\ [][Next]_historyVars
==============================================================================
