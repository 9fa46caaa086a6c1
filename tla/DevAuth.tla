------------------------------- MODULE DevAuth -------------------------------
(***************************************************************************)
(* Stub authentication: the key file that dev-auth.ts writes, for the      *)
(* dev-token route (dev-token.ts) and for the command line, and the        *)
(* verifier that reads it (verify.ts).  One server process at a time, which *)
(* may be restarted; each keeps the signer and the key set it loaded.      *)
(***************************************************************************)
EXTENDS Naturals, Sequences

CONSTANTS
  MaxKeys,       \* bound: key pairs ever made
  MAX_JWKS_KEYS  \* keys kept in the file

VARIABLES
  file,   \* the kids in jwks.json, oldest first; empty when it is absent or unreadable
  made,   \* kids made so far
  signer, \* the kid of the route's signer, or 0
  loaded, \* has the verifier loaded a key set?
  local,  \* localJwks: the kids in it
  tokens  \* kids of the tokens people hold

vars == <<file, made, signer, loaded, local, tokens>>

Init ==
  /\ file = <<>> /\ made = 0
  /\ signer = 0 /\ loaded = FALSE /\ local = {}
  /\ tokens = {}

Kids(f) == {f[i] : i \in DOMAIN f}

\* createDevSigner: a new pair, whose public key joins the most recent ones.
CreateDevSigner ==
  /\ made < MaxKeys /\ made' = made + 1
  /\ LET keys == Append(file, made + 1)
     IN file' = IF Len(keys) > MAX_JWKS_KEYS THEN Tail(keys) ELSE keys
  /\ tokens' = tokens \cup {made + 1}

\* POST /auth/dev-token.
MintByRoute ==
  /\ IF signer = 0
     THEN CreateDevSigner /\ signer' = made + 1
     ELSE tokens' = tokens \cup {signer} /\ UNCHANGED <<file, made, signer>>
  /\ UNCHANGED <<loaded, local>>

\* mint-dev-token.mjs.
MintByHand ==
  /\ CreateDevSigner
  /\ UNCHANGED <<signer, loaded, local>>

\* The first token that reaches the verifier makes it read the file, once.
Verify ==
  /\ tokens # {} /\ ~loaded /\ file # <<>>
  /\ loaded' = TRUE /\ local' = Kids(file)
  /\ UNCHANGED <<file, made, signer, tokens>>

Restart ==
  /\ signer' = 0 /\ loaded' = FALSE /\ local' = {}
  /\ UNCHANGED <<file, made, tokens>>

\* People remove .dev-auth, or leave something in it that is no key set.
Damage ==
  /\ file' = <<>>
  /\ UNCHANGED <<made, signer, loaded, local, tokens>>

Next == MintByRoute \/ MintByHand \/ Verify \/ Restart \/ Damage

Spec == Init /\ [][Next]_vars

\* What the verifier makes of a token with this kid.
Verifies(kid) == IF loaded THEN kid \in local ELSE kid \in Kids(file)

-----------------------------------------------------------------------------
(***************************************************************************)
(* What the repository says of the program and the program does not do.    *)
(***************************************************************************)
\* dev-token.ts:26-27 "a minted token verifies end-to-end against the file
\* this route just wrote": checked where the file still has the key.
MintedTokenVerifies == signer # 0 /\ signer \in Kids(file) => Verifies(signer)
=============================================================================
