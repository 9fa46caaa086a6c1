CONSTANTS
  MaxKeys = 3
  MAX_JWKS_KEYS = 5
SPECIFICATION Spec
INVARIANT MintedTokenVerifies
