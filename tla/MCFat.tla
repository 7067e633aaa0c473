--------------------------------- MODULE MCFat ---------------------------------
(* Fat for TLC with two files in the root directory.                            *)
EXTENDS Fat

MCFiles == {<<"F">>, <<"G">>}
================================================================================
