---------------------------- MODULE MCBlockchain ----------------------------
(***************************************************************************)
(* Two wallets and a supply of two units.  The shards hold a transfer; two *)
(* transfers of which the second cannot be paid once the first is, and a   *)
(* token; a transaction of an unknown type, which nobody can pay and which *)
(* makes a balance overflow, and a token whose bytecode does not parse;    *)
(* the same token issued twice, with an amount whose text has a letter.    *)
(***************************************************************************)
EXTENDS Blockchain

MCAccounts == {"root", "bob"}
MCRoot == "root"
MCResidues == {0, 2}

Pay(id, from, to, amount) ==
    [id |-> id, from |-> from, to |-> to, type |-> "TRANSFER", amount |-> amount,
     token |-> Unparsable]

Issue(id, from, token, supply) ==
    [id |-> id, from |-> from, to |-> from, type |-> "CREATE_TOKENS",
     amount |-> supply, token |-> token]

MCShards == {
    << Pay("pay", "root", "bob", 1) >>,
    << Pay("all", "root", "bob", 2), Pay("again", "root", "bob", 1),
       Issue("issue", "root", "coin", 3) >>,
    << [Pay("odd", "root", "bob", 15) EXCEPT !.type = "OTHER"],
       Issue("void", "root", Unparsable, 1) >>,
    << Issue("ten", "root", "dime", 10), Issue("more", "root", "dime", 1) >> }
=============================================================================
