CONSTANTS
    Kinds = {"SHA256", "SHA512", "SHA3-224", "SHA3-256", "SHA3-384", "SHA3-512", "kec256", "HMAC_512"}
    Chunks = {0, 1, 129}
    Shorter = {0, 1, 9, 17}
    MaxCalls = 6
    MaxBytes = 300
    Wrap = 2048
SPECIFICATION Spec
CHECK_DEADLOCK FALSE
INVARIANTS
    StreamIsMessage
    DigestIsStandard
    HmacIsStandard
