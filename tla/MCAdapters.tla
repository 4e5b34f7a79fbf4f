----------------------------- MODULE MCAdapters -----------------------------
(***************************************************************************)
(* Small instances of Adapters for TLC.                                    *)
(***************************************************************************)
EXTENDS Adapters, TLC

MCCommand(op, value) == [op |-> op, value |-> value]
MCCommands == {MCCommand("SET_STOCK", 0), MCCommand("SET_STOCK", 3), MCCommand("SET_PRICE", 3),
               MCCommand("STOP_SALES", 0), MCCommand("RESUME_SALES", 0)}
MCProduct(status, auction) == [price |-> 2, stock |-> 2, status |-> status, auction |-> auction]
MCProducts == {MCProduct("sale", 0), MCProduct("sale", 2), MCProduct("stopped", 0),
               MCProduct("barred", 0)}

Symmetry == Permutations(Calls) \union Permutations(Tokens)
=============================================================================
