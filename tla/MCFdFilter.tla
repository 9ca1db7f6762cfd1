---------------------------- MODULE MCFdFilter ------------------------------
(* The constants of FdFilter for TLC: files that fill the pipes (the pipe, *)
(* and the block the filter holds), short ones, empty ones, ones that      *)
(* cannot be read to the end, and every kind of command.                   *)
EXTENDS FdFilter

Input(len, fails, cmd) == [len |-> len, fails |-> fails, cmd |-> cmd]

MCInputs ==
  { Input(3, FALSE, "none"), Input(3, FALSE, "good"), Input(1, TRUE, "none"),
    Input(1, TRUE, "good"), Input(1, FALSE, "dies"), Input(1, FALSE, "missing"),
    Input(0, FALSE, "good") }
=============================================================================
