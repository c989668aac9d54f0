------------------------------ MODULE MCPrompt ------------------------------
(* Small instances of Prompt for TLC. *)
EXTENDS Prompt

Line(letters) == Append(letters, Newline)

\* Answers of one letter, of several letters and of none.
AnyAnswers == {Line(<<"y">>), Line(<<"Y">>), Line(<<"n">>), Line(<<"n", "a", "y">>), Line(<<>>)}
=============================================================================
