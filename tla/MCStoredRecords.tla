-------------------------- MODULE MCStoredRecords ---------------------------
(***************************************************************************)
(* Three wallets and a supply of three units.  A transfer can be paid once *)
(* and not twice, and one goes back to its sender; two of an unknown type  *)
(* may be paid or not, and one makes its balance overflow; the token       *)
(* amounts have a letter or a second digit.                                *)
(***************************************************************************)
EXTENDS StoredRecords

MCAccounts == {"root", "bob", "carol"}
MCRoot == "root"

Pay(id, from, to, amount) ==
    [id |-> id, from |-> from, to |-> to, type |-> "TRANSFER", amount |-> amount,
     token |-> Unparsable]

Odd(id, from, to, amount) == [Pay(id, from, to, amount) EXCEPT !.type = "OTHER"]

Issue(id, from, token, supply) ==
    [id |-> id, from |-> from, to |-> from, type |-> "CREATE_TOKENS",
     amount |-> supply, token |-> token]

MCTxs == {
    Pay("two", "root", "bob", 2), Pay("back", "bob", "root", 1),
    Odd("on", "bob", "carol", 2), Odd("self", "root", "root", 30),
    Issue("ten", "root", "coin", 10), Issue("unit", "root", "coin", 1),
    Issue("score", "root", "coin", 20) }
=============================================================================
