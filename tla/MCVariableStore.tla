-------------------------- MODULE MCVariableStore ---------------------------
(* Variables with names of one to three characters.                        *)
EXTENDS VariableStore

StoreNames == {<<1>>, <<1, 1>>, <<2>>, <<1, 1, 1>>}

StoreValues == {<<>>, <<1>>, <<2, 2>>, <<1, 1, 1>>}
============================================================================
