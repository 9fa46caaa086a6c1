------------------------------- MODULE Session -------------------------------
(***************************************************************************)
(* The session of the mobile app: the two credentials in the secure store  *)
(* (host/index.ts), the Entra and the stub provider, the one door every    *)
(* API call goes through with its one retry after a 401 (api-client.ts),   *)
(* and the screens that sign in, sign out and delete the account.          *)
(*                                                                         *)
(* Everything between two awaits is one step.  Calls, a sign-in, a sign-   *)
(* out and a confirmed account deletion run side by side, and nothing      *)
(* locks the store.  Every route can be opened at any time, by its path or *)
(* by going back (_layout.tsx and the screens look at no credential), so   *)
(* no step waits for a screen: people sign in whether or not somebody is   *)
(* signed in.  The identity provider and the API server are external: they *)
(* mint tokens, and answer, refuse or fail.                                *)
(***************************************************************************)
EXTENDS Naturals

CONSTANTS
  Users,      \* people who sign in on this device
  Calls,      \* API calls, each of which is made again and again
  Deletion,   \* the call DELETE /api/me
  DeletesFail, \* can the secure store fail to delete?
  MaxTokens   \* bound: credentials the provider mints

ASSUME SessionAssumption ==
  /\ Deletion \in Calls /\ DeletesFail \in BOOLEAN /\ "nobody" \notin Users
  /\ MaxTokens \in Nat \ {0}

\* An access or refresh token: whose it is, and the grant it came with.
Token == [user : Users \cup {"nobody"}, n : 0..MaxTokens]
NoToken == [user |-> "nobody", n |-> 0]

VARIABLES
  canRefresh, \* the provider installed at boot: Entra (TRUE) or the dev stub
  access,     \* secure store: access_token
  refresh,    \* secure store: refresh_token
  minted,     \* tokens minted so far
  call,       \* Calls -> where apiFetch has got to, and (history) whose session it was meanwhile
  flow,       \* a sign-in, a sign-out and a deletion
  session,    \* history: whose session it is; nobody's after a sign-out, and two people's
              \* where one signed in beside credentials of the other
  torn        \* history: a sign-out did not have the store to itself

store == <<access, refresh>>
vars == <<canRefresh, access, refresh, minted, call, flow, session, torn>>

Flows == {"signin", "signout", "deletion"}
AtRest == [pc |-> "idle", token |-> NoToken]
NoCall == [pc |-> "idle", attempt |-> 1, carried |-> NoToken, bad |-> NoToken,
           token |-> NoToken, people |-> {}]

Settled  == {"idle", "ok"}
Storing  == {"storing", "storingGrant"}
Dropping == {"dropping", "droppingGrant"}

\* The call is about to write what its grant is renewed to.
Renews(c) == call[c].pc \in Storing \cup {"refreshing"}

\* Someone is about to write to the store while someone else empties it.
Overlap ==
  /\ \E f \in Flows : flow[f].pc \in Dropping
  /\ flow["signin"].pc \in Storing \/ \E c \in Calls : Renews(c)

\* A credential of somebody else than u is in the store, or on its way there.
LeftOver(u, kept) ==
  \/ kept # NoToken /\ kept.user # u
  \/ \E c \in Calls : Renews(c) /\ call[c].token.user # u

Init ==
  /\ canRefresh \in BOOLEAN
  /\ \/ \E u \in Users :
          /\ access = [user |-> u, n |-> 1]
          /\ refresh = IF canRefresh THEN access ELSE NoToken
          /\ session = {u} /\ minted = 1
     \/ /\ access = NoToken /\ refresh = NoToken
        /\ session = {} /\ minted = 0
  /\ call = [c \in Calls |-> NoCall] /\ flow = [f \in Flows |-> AtRest]
  /\ torn = FALSE

-----------------------------------------------------------------------------
(***************************************************************************)
(* The world outside the app.                                              *)
(***************************************************************************)
\* A new pair of tokens for u, one number for both.
Mint(u) ==
  /\ minted < MaxTokens
  /\ minted' = minted + 1
Minted(u) == [user |-> u, n |-> minted + 1]

-----------------------------------------------------------------------------
(***************************************************************************)
(* apiFetch.                                                               *)
(***************************************************************************)
Goes(c, pc) == call' = [call EXCEPT ![c].pc = pc]
\* Back to the caller.  Only the deletion's caller does more on success.
Ends(c, outcome) ==
  call' = [call EXCEPT ![c] =
             [NoCall EXCEPT !.pc = IF c = Deletion /\ outcome = "ok" THEN "ok" ELSE "idle"]]

Start(c) ==
  /\ call[c].pc \in Settled
  /\ call' = [call EXCEPT ![c] = [NoCall EXCEPT !.pc = "reading", !.people = session]]

\* An ordinary call of a screen; the deletion has a flow of its own.
StartCall(c) ==
  /\ c # Deletion
  /\ Start(c)
  /\ UNCHANGED <<canRefresh, store, minted, flow, session, torn>>

\* Wrong: the token is resolved once per call, not once per attempt.
WrongReadToken(c) ==
  /\ call[c].pc = "reading"
  /\ \/ /\ call[c].attempt = 1 /\ access # NoToken
        /\ call' = [call EXCEPT ![c] = [@ EXCEPT !.pc = "sent", !.carried = access]]
     \/ /\ call[c].attempt = 2
        /\ call' = [call EXCEPT ![c] = [@ EXCEPT !.pc = "sent", !.carried = call[c].bad]]
     \/ Ends(c, "failed")
  /\ UNCHANGED <<canRefresh, store, minted, flow, session, torn>>

\* send(): the stored token is resolved anew for each attempt.  A store that
\* cannot be read counts as signed out.
ReadToken(c) ==
  /\ call[c].pc = "reading"
  /\ \/ /\ access # NoToken
        /\ call' = [call EXCEPT ![c] = [@ EXCEPT !.pc = "sent", !.carried = access]]
     \/ Ends(c, "failed")
  /\ UNCHANGED <<canRefresh, store, minted, flow, session, torn>>

\* The first 401 of a call renews, if the provider can; any other ends it.
Answer(c) ==
  /\ call[c].pc = "sent"
  /\ \/ Ends(c, "ok")
     \/ Ends(c, "failed")
     \/ /\ call[c].attempt = 1 /\ canRefresh
        /\ call' = [call EXCEPT ![c] = [@ EXCEPT !.pc = "renewing", !.bad = call[c].carried,
                                                 !.carried = NoToken]]
  /\ UNCHANGED <<canRefresh, store, minted, flow, session, torn>>

\* Wrong: the call is sent again though nothing was renewed.
WrongGiveUp(c) == Goes(c, "reading")
\* refresh answers false: the 401 stands.
GiveUp(c) == Ends(c, "failed")

ReadGrant(c) ==
  /\ call[c].pc = "renewing"
  /\ \/ /\ refresh # NoToken
        /\ call' = [call EXCEPT ![c] = [@ EXCEPT !.pc = "refreshing", !.token = refresh]]
     \/ GiveUp(c)
  /\ UNCHANGED <<canRefresh, store, minted, flow, session>>
  /\ torn' = (torn \/ Overlap')

\* Entra answers with a new access token and, most often, a new refresh token.
IdpAnswers(c) ==
  /\ call[c].pc = "refreshing"
  /\ \/ /\ Mint(call[c].token.user)
        /\ call' = [call EXCEPT ![c] = [@ EXCEPT !.pc = "storing",
                                                 !.token = Minted(call[c].token.user)]]
     \/ GiveUp(c) /\ UNCHANGED minted
  /\ UNCHANGED <<canRefresh, store, flow, session, torn>>

\* The retry: no more than one.
Again(c) ==
  call' = [call EXCEPT ![c] = [@ EXCEPT !.pc = "reading", !.attempt = 2, !.token = NoToken]]

\* storeTokenResponse, first await; a store that cannot be written throws.
\* There is a second if the response has a refresh token.
StoreAccess(c) ==
  /\ call[c].pc = "storing"
  /\ \/ /\ access' = call[c].token
        /\ Goes(c, "storingGrant") \/ Again(c)
     \/ GiveUp(c) /\ UNCHANGED access
  /\ UNCHANGED <<canRefresh, refresh, minted, flow, session, torn>>

StoreGrant(c) ==
  /\ call[c].pc = "storingGrant"
  /\ \/ /\ refresh' = call[c].token
        /\ Again(c)
     \/ GiveUp(c) /\ UNCHANGED refresh
  /\ UNCHANGED <<canRefresh, access, minted, flow, session, torn>>

-----------------------------------------------------------------------------
(***************************************************************************)
(* Signing in.                                                             *)
(***************************************************************************)
Moves(f, pc) == flow' = [flow EXCEPT ![f].pc = pc]
Rests(f) == flow' = [flow EXCEPT ![f] = AtRest]

\* The sign-in button is disabled while a sign-in is pending.
BeginSignIn ==
  /\ flow["signin"].pc = "idle"
  /\ Moves("signin", "prompt")
  /\ UNCHANGED <<canRefresh, store, minted, call, session, torn>>

\* The prompt and the exchange (or the dev-token mint) succeed, or fail.
SignInAnswers ==
  /\ flow["signin"].pc = "prompt"
  /\ \/ \E u \in Users :
          /\ Mint(u)
          /\ flow' = [flow EXCEPT !["signin"] = [pc |-> "storing", token |-> Minted(u)]]
     \/ Rests("signin") /\ UNCHANGED minted
  /\ UNCHANGED <<canRefresh, store, call, session>>
  /\ torn' = (torn \/ Overlap')

\* The access token is stored first.  Whoever was signed in stays in the
\* session as long as their refresh token is there, or a call renews with it.
SignInStores ==
  /\ flow["signin"].pc = "storing"
  /\ LET token == flow["signin"].token
     IN \/ /\ access' = token
           /\ session' = {token.user} \cup IF LeftOver(token.user, refresh) THEN session ELSE {}
           /\ call' = [c \in Calls |->
                         IF call[c].pc \in Settled THEN call[c]
                         ELSE [call[c] EXCEPT !.people = @ \cup {token.user}]]
           /\ \/ canRefresh /\ Moves("signin", "storingGrant")
              \/ Rests("signin")
        \/ Rests("signin") /\ UNCHANGED <<access, call, session>>
  /\ UNCHANGED <<canRefresh, refresh, minted, torn>>

SignInStoresGrant ==
  /\ flow["signin"].pc = "storingGrant"
  /\ Rests("signin")
  /\ LET token == flow["signin"].token
     IN \/ /\ refresh' = token
           /\ session' = {token.user} \cup IF LeftOver(token.user, access) THEN session ELSE {}
        \/ UNCHANGED <<refresh, session>>
  /\ UNCHANGED <<canRefresh, access, minted, call, torn>>

-----------------------------------------------------------------------------
(***************************************************************************)
(* Signing out, by the person or after DELETE /api/me.                     *)
(***************************************************************************)
BeginSignOut ==
  /\ flow["signout"].pc = "idle"
  /\ Moves("signout", "dropping")
  /\ UNCHANGED <<canRefresh, store, minted, call, session>>
  /\ torn' = (torn \/ Overlap')

\* The second step of the native confirm: fire and forget.
ConfirmDeletion ==
  /\ flow["deletion"].pc = "idle"
  /\ Moves("deletion", "calling")
  /\ Start(Deletion)
  /\ UNCHANGED <<canRefresh, store, minted, session, torn>>

\* Only a deletion that succeeded drops the session.
DeletionAnswered ==
  /\ flow["deletion"].pc = "calling" /\ call[Deletion].pc \in Settled
  /\ Moves("deletion", IF call[Deletion].pc = "ok" THEN "dropping" ELSE "idle")
  /\ Goes(Deletion, "idle")
  /\ UNCHANGED <<canRefresh, store, minted, session>>
  /\ torn' = (torn \/ Overlap')

SignedOutNow(f) ==
  /\ Rests(f)
  /\ session' = {}

\* secureDeleteToken: a store that cannot be reached counts as deleted.  The
\* stub has no refresh token to drop.
DropAccess(f) ==
  /\ flow[f].pc = "dropping"
  /\ \/ access' = NoToken /\ torn' = torn
     \/ DeletesFail /\ access' = access /\ torn' = TRUE
  /\ \/ canRefresh /\ Moves(f, "droppingGrant") /\ UNCHANGED session
     \/ ~canRefresh /\ SignedOutNow(f)
  /\ UNCHANGED <<canRefresh, refresh, minted, call>>

\* Wrong: only the access token is dropped.
WrongDropGrant(f) ==
  /\ flow[f].pc = "droppingGrant"
  /\ refresh' = refresh /\ torn' = torn
  /\ SignedOutNow(f)
  /\ UNCHANGED <<canRefresh, access, minted, call>>

DropGrant(f) ==
  /\ flow[f].pc = "droppingGrant"
  /\ \/ refresh' = NoToken /\ torn' = torn
     \/ DeletesFail /\ refresh' = refresh /\ torn' = TRUE
  /\ SignedOutNow(f)
  /\ UNCHANGED <<canRefresh, access, minted, call>>

\* The app dies and is opened again; only the secure store survives.
Kill ==
  /\ call' = [c \in Calls |-> NoCall]
  /\ torn' = (torn \/ \E f \in Flows : flow[f].pc \in Dropping)
  /\ flow' = [f \in Flows |-> AtRest]
  /\ UNCHANGED <<canRefresh, store, minted, session>>

-----------------------------------------------------------------------------
CallSteps(c) ==
  ReadToken(c) \/ Answer(c) \/ ReadGrant(c) \/ IdpAnswers(c) \/ StoreAccess(c) \/ StoreGrant(c)

Next ==
  \/ \E c \in Calls : StartCall(c) \/ CallSteps(c)
  \/ BeginSignIn \/ SignInAnswers \/ SignInStores \/ SignInStoresGrant
  \/ BeginSignOut \/ ConfirmDeletion \/ DeletionAnswered
  \/ \E f \in Flows : DropAccess(f) \/ DropGrant(f)
  \/ Kill

\* Every await of apiFetch comes back, with an answer or an error.
Fairness == \A c \in Calls : WF_vars(CallSteps(c))

Spec == Init /\ [][Next]_vars /\ Fairness

-----------------------------------------------------------------------------
(***************************************************************************)
(* Properties.                                                             *)
(***************************************************************************)
\* Every variable holds a value of its kind.
TypeOK ==
  /\ canRefresh \in BOOLEAN /\ torn \in BOOLEAN
  /\ access \in Token /\ refresh \in Token
  /\ minted \in 0..MaxTokens
  /\ call \in [Calls -> [pc : Settled \cup Storing
                                \cup {"reading", "sent", "renewing", "refreshing"},
                         attempt : 1..2, carried : Token, bad : Token, token : Token,
                         people : SUBSET Users]]
  /\ flow \in [Flows -> [pc : Storing \cup Dropping \cup {"idle", "prompt", "calling"},
                         token : Token]]
  /\ session \subseteq Users

\* api-client.ts:159-161: the retry never carries the token that was refused,
\* whatever other calls and sign-ins do to the store in between.
RetryNeverRepeats ==
  \A c \in Calls : call[c].pc = "sent" /\ call[c].attempt = 2 => call[c].carried # call[c].bad

\* A sign-out that had the store to itself leaves no credential behind, until
\* the next sign-in stores one.
SignOutSticks == session = {} /\ ~torn => access = NoToken /\ refresh = NoToken

\* As long as sign-outs had the store to themselves, a call carries a token
\* of someone whose session it was when the call was made, or who has signed
\* in since.  A sign-out ends everybody's session, a sign-in ends everybody
\* else's unless it stores its tokens beside credentials of theirs.
OwnRequests ==
  ~torn => \A c \in Calls : call[c].pc = "sent" => call[c].carried.user \in call[c].people

\* One retry, never a loop: every call comes to an end, each time it is made.
CallsSettle == \A c \in Calls : []<>(call[c].pc \in Settled)

-----------------------------------------------------------------------------
(***************************************************************************)
(* What the repository says of the program and the program does not do.    *)
(***************************************************************************)
\* session.ts:16 "Drop the stored credential", entra.test.ts:129 "signOut
\* drops BOTH stored credentials": here with a store that never fails.
SignedOutStays == session = {} => access = NoToken /\ refresh = NoToken
=============================================================================
