---------------------------- MODULE MCWalletKeys ----------------------------
(***************************************************************************)
(* A small instance of WalletKeys: a group of seven points, entropies with *)
(* a few 1 bits, and the calls whose results are worth comparing.          *)
(***************************************************************************)
EXTENDS WalletKeys

(* Some function of the bytes. *)
MCShaTop(bytes) ==
    FoldLeft(LAMBDA v, b : (3 * v + b + 5) % 256, 0, bytes)

Secret == <<14, NotHex>>    \* a password that begins with an 'e'

Request(len, ones, account, change, password) ==
    [len |-> len, ones |-> ones, account |-> account, change |-> change, password |-> password]

\* A password that begins with a letter NFKD takes apart.
Accented == <<NotHex, 14>>
MCNfkd(password) == IF password = Accented THEN <<14, NotHex, NotHex>> ELSE password

\* 1 and 6 have the x-coordinate 2, and so on; 8 is not below N.
MCCoordinate == <<2, 3, 8>>

(* Numbers out of range, 0 and N, an r that is no x-coordinate.  *)
MCForged == {<<0, 3>>, <<7, 2>>, <<3, 0>>, <<4, 2>>, <<-8, 9>>}

MCRequests == {
    Request(12, {0, 9, 127}, 0, 0, Secret),
    Request(24, {7, 8, 200, 255}, 1, 1, <<>>),
    Request(12, {5}, 0, 0, Accented),
    Request(24, RandFailed, 0, 0, <<>>),
    Request(18, {0}, 0, 0, <<>>),
    Request(12, {0}, 0, 2, <<>>)}

MCShortSeeds == {<<generateMnemonic(12, {0, 9, 127}), <<>>>>}

Start(passphrase, index) == [passphrase |-> passphrase, walletIndex |-> index]

MCStarts == {Start(<<>>, 0), Start(<<14>>, 0), Start(Secret, 0), Start(<<14, 0, 3>>, 65536)}

(* Both kinds of bad answer and a wrap-around at the depths where the code  *)
(* treats them differently; elsewhere one good answer keeps the path going. *)
MCLefts(depth) ==
    CASE depth = 0 -> {0, 2, 3, 8}
      [] depth = 1 -> {1, 7}
      [] depth = 2 -> {1}
      [] depth = 3 -> {0, 1}
      [] depth = 4 -> {2, 3}
      [] OTHER     -> {1, 3}

MCShortRound == {<<4, 0>>, <<2, 1>>}

MCDatas == UNION {[1..n -> {0, 58, 255}] : n \in 1..2} \cup [1..3 -> {0, 255}]
=============================================================================
