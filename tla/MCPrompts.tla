------------------------------ MODULE MCPrompts ------------------------------
(* Small instances of Prompts. *)
EXTENDS Prompts, TLC

CONSTANTS c1, t1, approval, command, input, other

Request(method, questions) ==
    [method |-> method, params |-> TRUE, strings |-> IdFields, questions |-> questions]

\* An approval of a file change, a user input, and one with a malformed question.
MCShape == approval :> Request("fileChange", {})
        @@ input    :> Request("userInput", {QuestionFields})
        @@ other    :> Request("userInput", {QuestionFields, {"id"}})
MCTurnOf == approval :> t1 @@ input :> t1 @@ other :> t1

\* An approval of a command, which may be amended, and a user input.
CommandShape == command :> Request("command", {})
             @@ input   :> Request("userInput", {QuestionFields})
CommandTurnOf == command :> t1 @@ input :> t1
=============================================================================
