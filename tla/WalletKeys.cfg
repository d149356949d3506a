CONSTANTS
    N = 7
    Field = 10
    Coordinate <- MCCoordinate
    Forged <- MCForged
    Nfkd <- MCNfkd
    Lefts <- MCLefts
    Hardened = 100000
    ShortX = {3}
    ShortSeeds <- MCShortSeeds
    ShortSha = {2}
    ShortRound <- MCShortRound
    Tails = {0, 1}
    ShaTop <- MCShaTop
    Digests = {0, 4}
    Requests <- MCRequests
    Indexes = {0, 1}
    Starts <- MCStarts
    Datas <- MCDatas
    MaxCalls = 2
SPECIFICATION Spec
CHECK_DEADLOCK FALSE
INVARIANTS VerdictIsStandard Base58Decodes
    PhraseIsStandard
    KeysAreStandard
    SameKeysSameOrigin
