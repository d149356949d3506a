---------------------------- MODULE MCRpcServer ----------------------------
(***************************************************************************)
(* RpcServer for TLC: one request of every kind the server tells apart.    *)
(***************************************************************************)
EXTENDS RpcServer, TLC

Tx(from, to, type, nonce, signed, amount) ==
    [from |-> from, to |-> to, type |-> type, nonce |-> nonce,
     signed |-> signed, amount |-> amount]

Post(method, params, id, tx) ==
    [verb |-> "post", json |-> TRUE, method |-> method, params |-> params,
     id |-> id, tx |-> tx]

MCAccounts == {"alice", "bob", "carol"}
MCBalance  == [alice |-> 2, bob |-> 0, carol |-> NoWallet]

Pay     == Tx("alice", "bob", 0, 1, TRUE, 2)
AnyTx   == Tx("alice", "alice", 0, 1, TRUE, 0)

\* Transfers that are pooled or refused for each reason.
Transfers ==
    {Post("transfer", TRUE, "integer", t) : t \in
        {Pay, Tx("bob", "carol", 0, 1, TRUE, 1), Tx("carol", "bob", 0, 1, TRUE, 1),
         Tx("alice", "bob", 0, 0, TRUE, 1), Tx("alice", "bob", 0, 1, FALSE, 1),
         Tx("alice", "bob", 1, 1, TRUE, 1), Tx("alice", "bob", 2, 1, TRUE, 1),
         Tx("bob", "alice", 3, 1, TRUE, 2)}}
    \cup {Post("transfer", TRUE, "string", Pay),
          Post("transfer", FALSE, "integer", Pay)}

\* Requests that change nothing.
Reads ==
    {[Post("transfer", TRUE, "integer", Pay) EXCEPT !.verb = "get"],
     [Post("transfer", TRUE, "integer", Pay) EXCEPT !.json = FALSE],
     Post("unknown", TRUE, "integer", AnyTx),
     Post("missing", TRUE, "integer", AnyTx),
     Post("unit_get_balance", TRUE, "missing", AnyTx),
     Post("unit_get_tx_pool_size", TRUE, "integer", AnyTx),
     Post("unit_get_tx_pool_size", TRUE, "missing", AnyTx),
     Post("unit_get_block_height", TRUE, "integer", AnyTx)}

MCRequests   == Transfers \cup Reads
LiveRequests == {Post("transfer", TRUE, "integer", Pay),
                 Post("unit_get_tx_pool_size", TRUE, "integer", AnyTx),
                 Post("unit_get_block_height", TRUE, "integer", AnyTx)}
=============================================================================
