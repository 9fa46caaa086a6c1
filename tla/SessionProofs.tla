---------------------------- MODULE SessionProofs ----------------------------
(***************************************************************************)
(* Proofs about Session, for every set of people, calls and minted tokens. *)
(***************************************************************************)
EXTENDS Session, TLAPS

-----------------------------------------------------------------------------
(***************************************************************************)
(* The invariant, in three parts.                                          *)
(*                                                                         *)
(* Tokens.  A token about to be stored has been nowhere else: nobody else  *)
(* stores it, the store does not hold it, no call carries it or had it     *)
(* refused.  So once a call has stored its new token the refused one       *)
(* cannot come back to the store.                                          *)
(***************************************************************************)
CallState == [pc : Settled \cup Storing \cup {"reading", "sent", "renewing", "refreshing"},
              attempt : 1..2, carried : Token, bad : Token, token : Token,
              people : SUBSET Users]
FlowState == [pc : Storing \cup Dropping \cup {"idle", "prompt", "calling"}, token : Token]

CallStores(c) == call[c].pc = "storing"
SignInStoring == flow["signin"].pc = "storing"

Unseen(n) ==
  /\ n \in 1..minted /\ n # access.n
  /\ \A c \in Calls : n # call[c].carried.n /\ n # call[c].bad.n

Tokens ==
  /\ \A c \in Calls : CallStores(c) => Unseen(call[c].token.n)
  /\ SignInStoring => Unseen(flow["signin"].token.n)
  /\ \A c, d \in Calls :
       CallStores(c) /\ CallStores(d) /\ call[c].token.n = call[d].token.n => c = d
  /\ \A c \in Calls :
       CallStores(c) /\ SignInStoring => call[c].token.n # flow["signin"].token.n
  /\ access = NoToken \/ access.n \in 1..minted

\* A call that renews had a token refused, and one that tries again does not
\* find it in the store.
Retries(c) ==
  /\ call[c].pc = "sent" => call[c].carried.n \in 1..minted
  /\ call[c].carried.n <= minted /\ call[c].bad.n <= minted
  /\ call[c].pc \in {"renewing", "refreshing"} \cup Storing \/ call[c].attempt = 2
     => call[c].bad.n \in 1..minted
  /\ call[c].pc = "storingGrant" \/ (call[c].pc = "reading" /\ call[c].attempt = 2)
     => access.n # call[c].bad.n
  /\ call[c].pc = "sent" /\ call[c].attempt = 2 => call[c].carried.n # call[c].bad.n

\* Whose session it is, a call under way knows of.
Known(c) == ~torn /\ call[c].pc \notin Settled => session \subseteq call[c].people

\* The stub has no refresh token, and its calls do not renew.
StubHasNoGrant ==
  ~canRefresh =>
    /\ refresh = NoToken /\ flow["signin"].pc # "storingGrant"
    /\ \A c \in Calls : call[c].pc \notin {"renewing", "refreshing"} \cup Storing
    /\ \A f \in Flows : flow[f].pc # "droppingGrant"

\* It is a person who signs in.
NamesSomeone == flow["signin"].pc \in Storing => flow["signin"].token.user \in Users

\* While sign-outs have the store to themselves, it holds what belongs to the
\* people of the session, and so do the calls that renew and the sign-in that
\* has stored its access token.  Nothing writes while a sign-out is under way.
Ours(c) ==
  /\ Renews(c) => call[c].token.user \in session
  /\ call[c].pc = "sent" => call[c].carried.user \in call[c].people
StoreIsOurs ==
  /\ ~Overlap
  /\ access = NoToken \/ access.user \in session
  /\ refresh = NoToken \/ refresh.user \in session
  /\ flow["signin"].pc = "storingGrant" => flow["signin"].token.user \in session
  /\ \A f \in Flows : flow[f].pc = "droppingGrant" => access = NoToken

Owned == ~torn => StoreIsOurs /\ \A c \in Calls : Ours(c)

IInv ==
  /\ TypeOK /\ Tokens /\ StubHasNoGrant /\ NamesSomeone /\ Owned
  /\ \A c \in Calls : Retries(c) /\ Known(c)

-----------------------------------------------------------------------------
(* What holds nothing.                                                     *)
LEMMA Nothing ==
  /\ NoToken \in Token /\ NoToken.n = 0 /\ NoCall \in CallState /\ AtRest \in FlowState
  /\ "signin" \in Flows /\ "signout" \in Flows /\ "deletion" \in Flows
  /\ Deletion \in Calls /\ MaxTokens \in Nat
BY SessionAssumption
   DEF NoToken, Token, NoCall, CallState, AtRest, FlowState, Settled, Flows

(* The types of what the steps read.                                       *)
LEMMA Types ==
  ASSUME IInv
  PROVE  /\ call \in [Calls -> CallState] /\ flow \in [Flows -> FlowState]
         /\ access \in Token /\ refresh \in Token /\ minted \in Nat
         /\ \A c \in Calls : /\ call[c].carried.n \in Nat /\ call[c].bad.n \in Nat
                             /\ call[c].token.n \in Nat
         /\ access.n \in Nat /\ flow["signin"].token.n \in Nat
BY Nothing DEF IInv, TypeOK, CallState, FlowState, Token

(* A call moves on, and nothing it shares with others changes: the store,  *)
(* the person, the tokens minted.                                          *)
LEMMA CallMoves ==
  ASSUME IInv, NEW c \in Calls, NEW new \in CallState, call' = [call EXCEPT ![c] = new],
         UNCHANGED <<canRefresh, access, refresh, minted, session>>,
         flow' \in [Flows -> FlowState], flow'["signin"] = flow["signin"],
         \A f \in Flows : flow'[f].pc = "droppingGrant" => flow[f].pc = "droppingGrant",
         \A f \in Flows : flow[f].pc = "droppingGrant" => flow'[f].pc = "droppingGrant",
         torn' \in BOOLEAN, torn => torn', ~torn' => ~Overlap',
         new.pc # "storing", new.pc = "storingGrant" => call[c].pc = "storingGrant",
         new.carried \in {NoToken, call[c].carried, access},
         new.bad \in {NoToken, call[c].bad, call[c].carried},
         Retries(c)', Known(c)',
         new.pc \in {"renewing", "refreshing"} \cup Storing => canRefresh,
         new.pc \in Storing \cup {"refreshing"} =>
           \/ Renews(c) /\ new.token = call[c].token
           \/ refresh # NoToken /\ new.token = refresh,
         ~torn /\ new.pc = "sent" => new.carried.user \in new.people
  PROVE  IInv'
<1>1. call \in [Calls -> CallState] /\ access.n \in Nat /\ minted \in Nat
      /\ \A d \in Calls : call[d].token.n \in Nat
  BY Types
<1>2. call' \in [Calls -> CallState] /\ call'[c] = new /\ \A d \in Calls \ {c} : call'[d] = call[d]
  BY <1>1
<1>3. TypeOK'
  BY <1>2 DEF IInv, TypeOK, CallState, FlowState
<1>4. \A n : Unseen(n) => Unseen(n)'
  BY <1>1, <1>2, Nothing DEF Unseen
<1>5. Tokens'
  BY <1>2, <1>4 DEF IInv, Tokens, CallStores, SignInStoring, Unseen
<1>6. StubHasNoGrant' /\ NamesSomeone'
  BY <1>2 DEF IInv, StubHasNoGrant, NamesSomeone
<1>7. \A d \in Calls : Retries(d)' /\ Known(d)'
  BY <1>2 DEF IInv, Retries, Known
<1>8. ASSUME ~torn' PROVE StoreIsOurs' /\ \A d \in Calls : Ours(d)'
  <2>1. StoreIsOurs /\ (\A d \in Calls : Ours(d)) /\ ~torn /\ ~Overlap'
    BY <1>8 DEF IInv, Owned
  <2>2. \A d \in Calls \ {c} : Ours(d)'
    BY <1>2, <2>1 DEF Ours, Renews
  <2>3. Ours(c)'
    BY <1>2, <2>1 DEF StoreIsOurs, Ours, Renews, Storing
  <2>4. StoreIsOurs'
    BY <2>1 DEF StoreIsOurs
  <2>5. QED
    BY <2>2, <2>3, <2>4
<1>9. QED
  BY <1>3, <1>5, <1>6, <1>7, <1>8 DEF IInv, Owned

(* A call comes back to its caller.                                        *)
LEMMA EndsIInv ==
  ASSUME IInv, NEW c \in Calls, NEW outcome, Ends(c, outcome),
         UNCHANGED <<canRefresh, access, refresh, minted, flow, session>>,
         torn' = torn \/ torn' = (torn \/ Overlap')
  PROVE  IInv'
<1> DEFINE pc  == IF c = Deletion /\ outcome = "ok" THEN "ok" ELSE "idle"
           new == [NoCall EXCEPT !.pc = pc]
<1>1. call' = [call EXCEPT ![c] = new] /\ pc \in Settled
  BY DEF Ends, Settled
<1> HIDE DEF pc
<1>2. /\ new \in CallState /\ new.pc = pc /\ new.carried = NoToken /\ new.bad = NoToken
      /\ new.attempt = 1
  BY <1>1, Nothing DEF CallState, NoCall
<1> HIDE DEF new
<1>3. call \in [Calls -> CallState] /\ flow \in [Flows -> FlowState] /\ minted \in Nat
  BY Types
<1>4. call'[c] = new /\ \A d \in Calls \ {c} : call'[d] = call[d]
  BY <1>1, <1>2, <1>3
<1>5. Retries(c)' /\ Known(c)'
  BY <1>1, <1>2, <1>3, <1>4, Nothing DEF Retries, Known, Settled, Storing
<1>6. ~torn => ~Overlap'
  <2>1. Overlap' => Overlap
    BY <1>1, <1>2, <1>4 DEF Overlap, Renews, Settled, Storing
  <2>2. QED
    BY <2>1 DEF IInv, Owned, StoreIsOurs
<1>7. torn' \in BOOLEAN /\ (torn => torn') /\ (~torn' => ~Overlap')
  BY <1>6 DEF IInv, TypeOK
<1>8. QED
  BY <1>1, <1>2, <1>3, <1>5, <1>7, CallMoves DEF Settled, Storing

(* A call starts, on a screen or for a deletion that has been confirmed.   *)
LEMMA StartIInv ==
  ASSUME IInv, NEW c \in Calls, Start(c),
         UNCHANGED <<canRefresh, access, refresh, minted, session, torn>>,
         flow' = flow \/ (Moves("deletion", "calling") /\ flow["deletion"].pc = "idle")
  PROVE  IInv'
<1> DEFINE new == [NoCall EXCEPT !.pc = "reading", !.people = session]
<1>1. call' = [call EXCEPT ![c] = new]
  BY DEF Start
<1>2. /\ new \in CallState /\ new.pc = "reading" /\ new.carried = NoToken /\ new.bad = NoToken
      /\ new.attempt = 1 /\ new.people = session
  BY Nothing DEF CallState, NoCall, IInv, TypeOK
<1> HIDE DEF new
<1>3. call \in [Calls -> CallState] /\ flow \in [Flows -> FlowState] /\ minted \in Nat
  BY Types
<1>4. call'[c] = new /\ \A d \in Calls \ {c} : call'[d] = call[d]
  BY <1>1, <1>2, <1>3
<1>5. Retries(c)' /\ Known(c)'
  BY <1>2, <1>3, <1>4, Nothing DEF Retries, Known, Settled, Storing
<1>6. /\ flow' \in [Flows -> FlowState] /\ flow'["signin"] = flow["signin"]
      /\ \A f \in Flows : flow'[f].pc = flow[f].pc \/ (flow'[f].pc = "calling" /\ flow[f].pc = "idle")
  <2>1. CASE flow' = flow
    BY <1>3, <2>1
  <2>2. CASE Moves("deletion", "calling") /\ flow["deletion"].pc = "idle"
    <3> DEFINE rest == [flow["deletion"] EXCEPT !.pc = "calling"]
    <3>1. flow' = [flow EXCEPT !["deletion"] = rest]
      BY <1>3, <2>2, Nothing DEF Moves
    <3>2. rest \in FlowState /\ rest.pc = "calling"
      BY <1>3, Nothing DEF FlowState
    <3> HIDE DEF rest
    <3>3. QED
      BY <1>3, <2>2, <3>1, <3>2, Nothing DEF Flows
  <2>3. QED
    BY <2>1, <2>2
<1>7. ~torn => ~Overlap'
  <2>1. Overlap' => Overlap
    BY <1>2, <1>4, <1>6 DEF Overlap, Renews, Storing, Dropping
  <2>2. QED
    BY <2>1 DEF IInv, Owned, StoreIsOurs
<1>8. torn' \in BOOLEAN /\ (torn => torn') /\ (~torn' => ~Overlap')
  BY <1>7 DEF IInv, TypeOK
<1>9. QED
  BY <1>1, <1>2, <1>5, <1>6, <1>8, CallMoves DEF Storing

(* The steps of apiFetch that leave the store alone.                       *)
LEMMA FetchIInv ==
  ASSUME IInv, NEW c \in Calls, ReadToken(c) \/ Answer(c) \/ ReadGrant(c)
  PROVE  IInv'
<1>1. /\ UNCHANGED <<canRefresh, access, refresh, minted, flow, session>>
      /\ torn' = torn \/ torn' = (torn \/ Overlap')
  BY DEF ReadToken, Answer, ReadGrant, store
<1>2. /\ call \in [Calls -> CallState] /\ call[c] \in CallState /\ flow \in [Flows -> FlowState]
      /\ minted \in Nat /\ access \in Token /\ refresh \in Token /\ access.n \in Nat
  BY Types
<1>3. torn' \in BOOLEAN /\ (torn => torn') /\ (torn' = (torn \/ Overlap') => (~torn' => ~Overlap'))
  BY <1>1 DEF IInv, TypeOK
<1>4. Retries(c) /\ Known(c)
  BY DEF IInv
<1>5. CASE \E outcome : Ends(c, outcome)
  BY <1>1, <1>5, EndsIInv
<1>6. CASE /\ ReadToken(c) /\ access # NoToken
           /\ call' = [call EXCEPT ![c] = [@ EXCEPT !.pc = "sent", !.carried = access]]
  <2> DEFINE new == [call[c] EXCEPT !.pc = "sent", !.carried = access]
  <2>1. call' = [call EXCEPT ![c] = new] /\ call[c].pc = "reading" /\ torn' = torn
    BY <1>2, <1>6 DEF ReadToken
  <2>2. /\ new \in CallState /\ new.pc = "sent" /\ new.carried = access /\ new.bad = call[c].bad
        /\ new.attempt = call[c].attempt /\ new.people = call[c].people
    BY <1>2 DEF CallState
  <2> HIDE DEF new
  <2>3. call'[c] = new /\ \A d \in Calls \ {c} : call'[d] = call[d]
    BY <1>2, <2>1, <2>2
  <2>4. access.n \in 1..minted
    BY <1>6 DEF IInv, Tokens
  <2>5. Retries(c)' /\ Known(c)'
    BY <1>1, <1>2, <1>4, <2>1, <2>2, <2>3, <2>4 DEF Retries, Known, Settled, Storing
  <2>6. ~torn => new.carried.user \in new.people
    BY <1>4, <1>6, <2>1, <2>2 DEF IInv, Owned, StoreIsOurs, Known, Settled
  <2>7. ~torn => ~Overlap'
    <3>1. Overlap' => Overlap
      BY <1>1, <2>2, <2>3 DEF Overlap, Renews, Storing
    <3>2. QED
      BY <3>1 DEF IInv, Owned, StoreIsOurs
  <2>8. QED
    BY <1>1, <1>2, <1>3, <2>1, <2>2, <2>5, <2>6, <2>7, CallMoves DEF Storing
<1>7. CASE /\ Answer(c) /\ call[c].attempt = 1 /\ canRefresh
           /\ call' = [call EXCEPT ![c] = [@ EXCEPT !.pc = "renewing", !.bad = call[c].carried,
                                                    !.carried = NoToken]]
  <2> DEFINE new == [call[c] EXCEPT !.pc = "renewing", !.bad = call[c].carried, !.carried = NoToken]
  <2>1. call' = [call EXCEPT ![c] = new] /\ call[c].pc = "sent" /\ torn' = torn
    BY <1>2, <1>7 DEF Answer
  <2>2. /\ new \in CallState /\ new.pc = "renewing" /\ new.carried = NoToken
        /\ new.bad = call[c].carried /\ new.attempt = 1 /\ new.people = call[c].people
    BY <1>2, <1>7, Nothing DEF CallState
  <2> HIDE DEF new
  <2>3. call'[c] = new /\ \A d \in Calls \ {c} : call'[d] = call[d]
    BY <1>2, <2>1, <2>2
  <2>4. Retries(c)' /\ Known(c)'
    BY <1>1, <1>2, <1>4, <2>1, <2>2, <2>3, Nothing DEF Retries, Known, Settled, Storing
  <2>5. ~torn => ~Overlap'
    <3>1. Overlap' => Overlap
      BY <1>1, <2>2, <2>3 DEF Overlap, Renews, Storing
    <3>2. QED
      BY <3>1 DEF IInv, Owned, StoreIsOurs
  <2>6. QED
    BY <1>1, <1>2, <1>3, <1>7, <2>1, <2>2, <2>4, <2>5, CallMoves DEF Storing
<1>8. CASE /\ ReadGrant(c) /\ refresh # NoToken
           /\ call' = [call EXCEPT ![c] = [@ EXCEPT !.pc = "refreshing", !.token = refresh]]
  <2> DEFINE new == [call[c] EXCEPT !.pc = "refreshing", !.token = refresh]
  <2>1. call' = [call EXCEPT ![c] = new] /\ call[c].pc = "renewing" /\ torn' = (torn \/ Overlap')
    BY <1>2, <1>8 DEF ReadGrant
  <2>2. /\ new \in CallState /\ new.pc = "refreshing" /\ new.carried = call[c].carried
        /\ new.bad = call[c].bad /\ new.attempt = call[c].attempt /\ new.people = call[c].people
        /\ new.token = refresh
    BY <1>2 DEF CallState
  <2> HIDE DEF new
  <2>3. call'[c] = new
    BY <1>2, <2>1, <2>2
  <2>4. Retries(c)' /\ Known(c)'
    BY <1>1, <1>4, <2>1, <2>2, <2>3 DEF Retries, Known, Settled, Storing
  <2>5. canRefresh
    BY <2>1 DEF IInv, StubHasNoGrant
  <2>6. QED
    BY <1>1, <1>2, <1>3, <1>8, <2>1, <2>2, <2>4, <2>5, CallMoves DEF Storing
<1>9. QED
  BY <1>5, <1>6, <1>7, <1>8 DEF ReadToken, Answer, ReadGrant, GiveUp

(* A token the provider mints is unseen.                                   *)
LEMMA NewToken ==
  ASSUME NEW u \in Users \cup {"nobody"}, minted \in Nat, minted < MaxTokens
  PROVE  Minted(u) \in Token /\ Minted(u).n = minted + 1 /\ Minted(u).user = u
BY Nothing DEF Minted, Token

(* The provider has answered with a new token, which nobody has seen.      *)
LEMMA IdpAnswersIInv ==
  ASSUME IInv, NEW c \in Calls, IdpAnswers(c)
  PROVE  IInv'
<1>1. /\ call \in [Calls -> CallState] /\ call[c] \in CallState /\ minted \in Nat
      /\ access \in Token /\ access.n \in Nat /\ refresh \in Token /\ torn \in BOOLEAN
      /\ \A d \in Calls : call[d].token.n \in Nat
      /\ UNCHANGED <<canRefresh, access, refresh, flow, session, torn>>
  BY Types DEF IdpAnswers, store, IInv, TypeOK
<1>2. CASE GiveUp(c) /\ UNCHANGED minted
  BY <1>1, <1>2, EndsIInv DEF GiveUp
<1>3. CASE /\ call[c].pc = "refreshing" /\ Mint(call[c].token.user)
           /\ call' = [call EXCEPT ![c] = [@ EXCEPT !.pc = "storing",
                                                    !.token = Minted(call[c].token.user)]]
  <2>2. minted' = minted + 1 /\ minted < MaxTokens
    BY <1>3 DEF Mint
  <2>3. PICK token \in Token : /\ token = Minted(call[c].token.user) /\ token.n = minted + 1
                              /\ token.user = call[c].token.user
    <3>1. call[c].token.user \in Users \cup {"nobody"}
      BY <1>1 DEF CallState, Token
    <3>2. QED
      BY <1>1, <2>2, <3>1, NewToken
  <2> DEFINE new == [call[c] EXCEPT !.pc = "storing", !.token = token]
  <2>4. call' = [call EXCEPT ![c] = new]
    BY <1>1, <1>3, <2>3
  <2>5. /\ new \in CallState /\ new.pc = "storing" /\ new.token = token /\ new.attempt = call[c].attempt
        /\ new.carried = call[c].carried /\ new.bad = call[c].bad /\ new.people = call[c].people
    BY <1>1, <2>3 DEF CallState, Storing
  <2> HIDE DEF new
  <2>6. call' \in [Calls -> CallState] /\ call'[c] = new /\ \A d \in Calls \ {c} : call'[d] = call[d]
    BY <1>1, <2>4, <2>5
  <2>7. TypeOK'
    BY <1>1, <2>2, <2>6, Nothing DEF IInv, TypeOK, CallState
  <2>8. \A d \in Calls : call'[d].carried = call[d].carried /\ call'[d].bad = call[d].bad
    BY <2>5, <2>6
  <2>9. \A d \in Calls : Retries(d)' /\ Known(d)'
    <3>1. \A d \in Calls \ {c} : Retries(d)' /\ Known(d)'
      BY <1>1, <2>2, <2>6, Types DEF IInv, Retries, Known
    <3>2. Retries(c)' /\ Known(c)'
      BY <1>1, <1>3, <2>2, <2>5, <2>6, Types DEF IInv, Retries, Known, Settled, Storing
    <3>3. QED
      BY <3>1, <3>2
  <2>10. /\ \A n : Unseen(n) => Unseen(n)' /\ n # minted + 1
         /\ Unseen(token.n)'
    <3>1. \A n : Unseen(n) => Unseen(n)' /\ n # minted + 1
      BY <1>1, <2>2, <2>8 DEF Unseen
    <3>2. \A d \in Calls : call[d].carried.n <= minted /\ call[d].bad.n <= minted
      BY DEF IInv, Retries
    <3>3. access.n <= minted
      BY <1>1, Nothing DEF IInv, Tokens
    <3>4. Unseen(token.n)'
      BY <1>1, <2>2, <2>3, <2>8, <3>2, <3>3, Types DEF Unseen
    <3>5. QED
      BY <3>1, <3>4
  <2>11. Tokens'
    <3>1. \A d \in Calls \ {c} : CallStores(d)' => Unseen(call[d].token.n) /\ call'[d] = call[d]
      BY <2>6 DEF IInv, Tokens, CallStores
    <3>2. \A d \in Calls : CallStores(d)' => Unseen(call[d].token.n)'
      <4>1. \A d \in Calls \ {c} : CallStores(d)' => Unseen(call[d].token.n)'
        BY <2>6, <2>10, <3>1 DEF Unseen
      <4>2. Unseen(call[c].token.n)'
        BY <2>5, <2>6, <2>10 DEF Unseen
      <4>3. QED
        BY <4>1, <4>2
    <3>3. SignInStoring' => Unseen(flow["signin"].token.n) /\ Unseen(flow["signin"].token.n)'
      BY <1>1, <2>10 DEF IInv, Tokens, SignInStoring, Unseen
    <3>4. \A d \in Calls \ {c} : CallStores(d)' => call'[d].token.n # call'[c].token.n
      BY <2>3, <2>5, <2>6, <2>10, <3>1
    <3>5. \A d, e \in Calls : CallStores(d)' /\ CallStores(e)' /\ call'[d].token.n = call'[e].token.n
                               => d = e
      BY <2>6, <3>4 DEF IInv, Tokens, CallStores
    <3>6. \A d \in Calls : CallStores(d)' /\ SignInStoring' => call'[d].token.n # flow'["signin"].token.n
      BY <1>1, <2>3, <2>5, <2>6, <2>10, <3>3 DEF IInv, Tokens, CallStores, SignInStoring
    <3>7. access' = NoToken \/ access'.n \in 1..minted'
      BY <1>1, <2>2 DEF IInv, Tokens
    <3>8. QED
      BY <3>2, <3>3, <3>5, <3>6, <3>7 DEF Tokens
  <2>12. StubHasNoGrant' /\ NamesSomeone'
    BY <1>1, <1>3, <2>6 DEF IInv, StubHasNoGrant, NamesSomeone
  <2>13. ASSUME ~torn' PROVE StoreIsOurs' /\ \A d \in Calls : Ours(d)'
    <3>1. StoreIsOurs /\ \A d \in Calls : Ours(d)
      BY <1>1, <2>13 DEF IInv, Owned
    <3>2. \A d \in Calls : Renews(d)' <=> Renews(d)
      BY <1>3, <2>5, <2>6 DEF Renews, Storing
    <3>3. Overlap' => Overlap
      BY <1>1, <3>2 DEF Overlap
    <3>4. StoreIsOurs'
      BY <1>1, <3>1, <3>2, <3>3 DEF StoreIsOurs
    <3>5. \A d \in Calls : Ours(d)'
      BY <1>1, <1>3, <2>3, <2>5, <2>6, <3>1 DEF Ours, Renews
    <3>6. QED
      BY <3>4, <3>5
  <2>14. QED
    BY <2>7, <2>9, <2>11, <2>12, <2>13 DEF IInv, Owned
<1>4. QED
  BY <1>2, <1>3 DEF IdpAnswers

(* A call tries again.                                                     *)
LEMMA AgainGoes ==
  ASSUME IInv, NEW c \in Calls, Again(c)
  PROVE  \E new \in CallState :
           /\ call' = [call EXCEPT ![c] = new]
           /\ new.pc = "reading" /\ new.attempt = 2 /\ new.carried = call[c].carried
           /\ new.bad = call[c].bad /\ new.people = call[c].people
<1> DEFINE new == [call[c] EXCEPT !.pc = "reading", !.attempt = 2, !.token = NoToken]
<1>1. call \in [Calls -> CallState] /\ call[c] \in CallState
  BY Types
<1>2. call' = [call EXCEPT ![c] = new]
  BY <1>1 DEF Again
<1>3. new.pc = "reading" /\ new.attempt = 2 /\ new.token = NoToken
  BY <1>1 DEF CallState
<1>4. new.carried = call[c].carried /\ new.bad = call[c].bad /\ new.people = call[c].people
  BY <1>1 DEF CallState
<1>5. new \in CallState
  <2>1. NoToken \in Token /\ 2 \in 1..2
    BY Nothing
  <2>2. QED
    BY <1>1, <2>1 DEF CallState
<1> HIDE DEF new
<1>6. QED
  BY <1>2, <1>3, <1>4, <1>5

(* storeTokenResponse: the access token.  The refused one cannot be it.    *)
LEMMA StoreAccessIInv ==
  ASSUME IInv, NEW c \in Calls, StoreAccess(c)
  PROVE  IInv'
<1>1. /\ call \in [Calls -> CallState] /\ call[c] \in CallState /\ minted \in Nat
      /\ access \in Token /\ access.n \in Nat /\ refresh \in Token /\ torn \in BOOLEAN
      /\ call[c].pc = "storing"
      /\ UNCHANGED <<canRefresh, refresh, minted, flow, session, torn>>
  BY Types DEF StoreAccess, IInv, TypeOK
<1>2. CASE GiveUp(c) /\ UNCHANGED access
  BY <1>1, <1>2, EndsIInv DEF GiveUp
<1>3. CASE /\ access' = call[c].token
           /\ Goes(c, "storingGrant") \/ Again(c)
  <2>1. PICK new \in CallState :
          /\ call' = [call EXCEPT ![c] = new]
          /\ new.carried = call[c].carried /\ new.bad = call[c].bad /\ new.people = call[c].people
          /\ \/ new.pc = "storingGrant" /\ new.token = call[c].token /\ new.attempt = call[c].attempt
             \/ new.pc = "reading" /\ new.attempt = 2
    <3>1. CASE Goes(c, "storingGrant")
      <4> DEFINE new == [call[c] EXCEPT !.pc = "storingGrant"]
      <4>1. call' = [call EXCEPT ![c] = new]
        BY <1>1, <3>1 DEF Goes
      <4>2. /\ new \in CallState /\ new.pc = "storingGrant" /\ new.token = call[c].token
            /\ new.attempt = call[c].attempt /\ new.carried = call[c].carried
            /\ new.bad = call[c].bad /\ new.people = call[c].people
        BY <1>1 DEF CallState, Storing
      <4> HIDE DEF new
      <4>3. QED
        BY <4>1, <4>2
    <3>2. CASE Again(c)
      BY <3>2, AgainGoes
    <3>3. QED
      BY <1>3, <3>1, <3>2
  <2>2. call' \in [Calls -> CallState] /\ call'[c] = new /\ \A d \in Calls \ {c} : call'[d] = call[d]
    BY <1>1, <2>1
  <2>3. Unseen(call[c].token.n) /\ call[c].token \in Token
    BY <1>1 DEF IInv, Tokens, CallStores, CallState
  <2>4. access'.n \in 1..minted /\ access' # NoToken
    BY <1>3, <2>3, Nothing DEF Unseen
  <2>5. TypeOK'
    BY <1>1, <1>3, <2>2, <2>3 DEF IInv, TypeOK, CallState
  <2>6. \A d \in Calls : call'[d].carried = call[d].carried /\ call'[d].bad = call[d].bad
    BY <2>1, <2>2
  <2>7. \A d \in Calls : Retries(d)' /\ Known(d)'
    <3>1. \A d \in Calls : access'.n # call[d].bad.n
      BY <1>3, <2>3 DEF Unseen
    <3>2. \A d \in Calls \ {c} : Retries(d)' /\ Known(d)'
      BY <1>1, <2>2, <3>1 DEF IInv, Retries, Known
    <3>3. Retries(c)' /\ Known(c)'
      BY <1>1, <2>1, <2>2, <3>1 DEF IInv, Retries, Known, Settled, Storing
    <3>4. QED
      BY <3>2, <3>3
  <2>8. Tokens'
    <3>1. \A n : Unseen(n) /\ n # call[c].token.n => Unseen(n)'
      BY <1>1, <1>3, <2>6 DEF Unseen
    <3>2. \A d \in Calls \ {c} : CallStores(d)' =>
            /\ Unseen(call[d].token.n) /\ call[d].token.n # call[c].token.n
            /\ CallStores(d) /\ call'[d] = call[d]
      BY <1>1, <2>2 DEF IInv, Tokens, CallStores
    <3>3. ~CallStores(c)'
      BY <2>1, <2>2 DEF CallStores
    <3>4. \A d \in Calls : CallStores(d)' => Unseen(call[d].token.n)'
      BY <3>1, <3>2, <3>3 DEF Unseen
    <3>5. SignInStoring' => /\ Unseen(flow["signin"].token.n)
                           /\ flow["signin"].token.n # call[c].token.n
      BY <1>1 DEF IInv, Tokens, SignInStoring, CallStores
    <3>6. SignInStoring' => Unseen(flow["signin"].token.n)'
      BY <1>1, <3>1, <3>5 DEF Unseen
    <3>7. /\ \A d, e \in Calls : CallStores(d)' /\ CallStores(e)' /\ call'[d].token.n = call'[e].token.n
                                 => d = e
          /\ \A d \in Calls : CallStores(d)' /\ SignInStoring'
                              => call'[d].token.n # flow'["signin"].token.n
      BY <1>1, <3>2, <3>3 DEF IInv, Tokens, SignInStoring
    <3>8. QED
      BY <1>1, <2>4, <3>4, <3>6, <3>7 DEF Tokens
  <2>9. StubHasNoGrant' /\ NamesSomeone'
    BY <1>1, <2>2 DEF IInv, StubHasNoGrant, NamesSomeone, Storing
  <2>10. ASSUME ~torn' PROVE StoreIsOurs' /\ \A d \in Calls : Ours(d)'
    <3>1. StoreIsOurs /\ \A d \in Calls : Ours(d)
      BY <1>1, <2>10 DEF IInv, Owned
    <3>2. call[c].token.user \in session /\ Renews(c)
      BY <1>1, <3>1 DEF Ours, Renews, Storing
    <3>3. Overlap' => Overlap
      BY <1>1, <2>1, <2>2, <3>2 DEF Overlap, Renews, Storing
    <3>4. \A f \in Flows : flow[f].pc \notin Dropping
      BY <3>1, <3>2 DEF StoreIsOurs, Overlap
    <3>5. StoreIsOurs'
      BY <1>1, <1>3, <3>1, <3>2, <3>3, <3>4 DEF StoreIsOurs, Dropping
    <3>6. \A d \in Calls : Ours(d)'
      BY <1>1, <2>1, <2>2, <3>1, <3>2 DEF Ours, Renews, Storing
    <3>7. QED
      BY <3>5, <3>6
  <2>11. QED
    BY <2>5, <2>7, <2>8, <2>9, <2>10 DEF IInv, Owned
<1>4. QED
  BY <1>2, <1>3 DEF StoreAccess

(* storeTokenResponse: the refresh token.                                  *)
LEMMA StoreGrantIInv ==
  ASSUME IInv, NEW c \in Calls, StoreGrant(c)
  PROVE  IInv'
<1>1. /\ call \in [Calls -> CallState] /\ call[c] \in CallState /\ minted \in Nat
      /\ access \in Token /\ access.n \in Nat /\ torn \in BOOLEAN
      /\ call[c].pc = "storingGrant"
      /\ UNCHANGED <<canRefresh, access, minted, flow, session, torn>>
  BY Types DEF StoreGrant, IInv, TypeOK
<1>2. CASE GiveUp(c) /\ UNCHANGED refresh
  BY <1>1, <1>2, EndsIInv DEF GiveUp
<1>3. CASE refresh' = call[c].token /\ Again(c)
  <2>1. PICK new \in CallState :
          /\ call' = [call EXCEPT ![c] = new]
          /\ new.pc = "reading" /\ new.attempt = 2 /\ new.carried = call[c].carried
          /\ new.bad = call[c].bad /\ new.people = call[c].people
    BY <1>3, AgainGoes
  <2>2. call' \in [Calls -> CallState] /\ call'[c] = new /\ \A d \in Calls \ {c} : call'[d] = call[d]
    BY <1>1, <2>1
  <2>3. TypeOK'
    BY <1>1, <1>3, <2>2 DEF IInv, TypeOK, CallState
  <2>4. \A d \in Calls : call'[d].carried = call[d].carried /\ call'[d].bad = call[d].bad
    BY <2>1, <2>2
  <2>5. \A d \in Calls : Retries(d)' /\ Known(d)'
    <3>1. \A d \in Calls \ {c} : Retries(d)' /\ Known(d)'
      BY <1>1, <2>2 DEF IInv, Retries, Known
    <3>2. Retries(c)' /\ Known(c)'
      BY <1>1, <2>1, <2>2 DEF IInv, Retries, Known, Settled, Storing
    <3>3. QED
      BY <3>1, <3>2
  <2>6. Tokens'
    <3>1. \A n : Unseen(n) => Unseen(n)'
      BY <1>1, <2>4 DEF Unseen
    <3>2. QED
      BY <1>1, <2>1, <2>2, <3>1 DEF IInv, Tokens, CallStores, SignInStoring, Unseen
  <2>7. StubHasNoGrant' /\ NamesSomeone'
    BY <1>1, <2>1, <2>2 DEF IInv, StubHasNoGrant, NamesSomeone, Storing
  <2>8. ASSUME ~torn' PROVE StoreIsOurs' /\ \A d \in Calls : Ours(d)'
    <3>1. StoreIsOurs /\ \A d \in Calls : Ours(d)
      BY <1>1, <2>8 DEF IInv, Owned
    <3>2. call[c].token.user \in session /\ Renews(c)
      BY <1>1, <3>1 DEF Ours, Renews, Storing
    <3>3. Overlap' => Overlap
      BY <1>1, <2>1, <2>2, <3>2 DEF Overlap, Renews, Storing
    <3>4. StoreIsOurs'
      BY <1>1, <1>3, <3>1, <3>2, <3>3 DEF StoreIsOurs
    <3>5. \A d \in Calls : Ours(d)'
      BY <1>1, <2>1, <2>2, <3>1 DEF Ours, Renews, Storing
    <3>6. QED
      BY <3>4, <3>5
  <2>9. QED
    BY <2>3, <2>5, <2>6, <2>7, <2>8 DEF IInv, Owned
<1>4. QED
  BY <1>2, <1>3 DEF StoreGrant

-----------------------------------------------------------------------------
(* Signing in and out: a flow moves on and the rest stays as it is.        *)
LEMMA FlowMoves ==
  ASSUME IInv, NEW f \in Flows, NEW new \in FlowState, flow' = [flow EXCEPT ![f] = new],
         UNCHANGED <<canRefresh, access, refresh, minted, call, session>>,
         torn' \in BOOLEAN, torn => torn', ~torn' => ~Overlap',
         new.pc \notin Storing, new.pc # "droppingGrant"
  PROVE  IInv'
<1>1. flow \in [Flows -> FlowState] /\ "signin" \in Flows
  BY Types DEF Flows
<1>2. flow' \in [Flows -> FlowState] /\ flow'[f] = new /\ \A g \in Flows \ {f} : flow'[g] = flow[g]
  BY <1>1
<1>3. \/ f = "signin" /\ flow'["signin"] = new
      \/ f # "signin" /\ flow'["signin"] = flow["signin"]
  BY <1>1, <1>2
<1>4. TypeOK'
  BY <1>2 DEF IInv, TypeOK, FlowState
<1>5. \A n : Unseen(n) => Unseen(n)'
  BY DEF Unseen
<1>6. Tokens'
  BY <1>3, <1>5 DEF IInv, Tokens, CallStores, SignInStoring, Unseen, Storing
<1>7. StubHasNoGrant'
  BY <1>2, <1>3 DEF IInv, StubHasNoGrant, Storing
<1>8. NamesSomeone'
  BY <1>3 DEF IInv, NamesSomeone
<1>9. \A d \in Calls : Retries(d)' /\ Known(d)'
  BY DEF IInv, Retries, Known
<1>10. ASSUME ~torn' PROVE StoreIsOurs' /\ \A d \in Calls : Ours(d)'
  <2>1. StoreIsOurs /\ (\A d \in Calls : Ours(d)) /\ ~Overlap'
    BY <1>10 DEF IInv, Owned
  <2>2. \A g \in Flows : flow'[g].pc = "droppingGrant" => flow[g].pc = "droppingGrant"
    BY <1>2
  <2>3. StoreIsOurs'
    BY <1>3, <2>1, <2>2 DEF StoreIsOurs, Storing
  <2>4. \A d \in Calls : Ours(d)'
    BY <2>1 DEF Ours, Renews
  <2>5. QED
    BY <2>3, <2>4
<1>11. QED
  BY <1>4, <1>6, <1>7, <1>8, <1>9, <1>10 DEF IInv, Owned

(* A flow gives up, and rests.                                             *)
LEMMA RestsIInv ==
  ASSUME IInv, NEW f \in Flows, Rests(f),
         UNCHANGED <<canRefresh, access, refresh, minted, call, session>>,
         torn' = torn \/ torn' = (torn \/ Overlap')
  PROVE  IInv'
<1>1. flow' = [flow EXCEPT ![f] = AtRest] /\ flow \in [Flows -> FlowState]
  BY Types DEF Rests
<1>2. AtRest \in FlowState /\ AtRest.pc = "idle"
  BY Nothing DEF AtRest
<1>3. flow'[f] = AtRest /\ \A g \in Flows \ {f} : flow'[g] = flow[g]
  BY <1>1, <1>2
<1>4. Overlap' => Overlap
  BY <1>2, <1>3 DEF Overlap, Renews, Dropping, Storing, Flows
<1>5. torn' \in BOOLEAN /\ (torn => torn') /\ (~torn' => ~Overlap')
  BY <1>4 DEF IInv, TypeOK, Owned, StoreIsOurs
<1>6. QED
  BY <1>1, <1>2, <1>5, FlowMoves DEF Storing

(* The person is asked to sign in, or begins to sign out.                  *)
LEMMA BeginIInv ==
  ASSUME IInv, BeginSignIn \/ BeginSignOut
  PROVE  IInv'
<1>1. PICK f \in Flows, pc \in {"prompt", "dropping"} :
        /\ Moves(f, pc) /\ flow[f].pc = "idle"
        /\ pc = "prompt" => torn' = torn
        /\ pc = "dropping" => torn' = (torn \/ Overlap')
  BY Nothing DEF BeginSignIn, BeginSignOut
<1>2. UNCHANGED <<canRefresh, access, refresh, minted, call, session>>
  BY DEF BeginSignIn, BeginSignOut, store
<1> DEFINE new == [flow[f] EXCEPT !.pc = pc]
<1>3. flow \in [Flows -> FlowState] /\ flow[f] \in FlowState
  BY Types
<1>4. flow' = [flow EXCEPT ![f] = new]
  BY <1>1, <1>3 DEF Moves
<1>5. new \in FlowState /\ new.pc = pc
  BY <1>3 DEF FlowState, Dropping
<1> HIDE DEF new
<1>6. flow'[f] = new /\ \A g \in Flows \ {f} : flow'[g] = flow[g]
  BY <1>3, <1>4, <1>5
<1>7. pc = "prompt" /\ Overlap' => Overlap
  BY <1>1, <1>2, <1>5, <1>6, Nothing DEF Overlap, Renews, Dropping, Storing
<1>8. torn' \in BOOLEAN /\ (torn => torn') /\ (~torn' => ~Overlap')
  <2>1. torn \in BOOLEAN /\ (~torn => ~Overlap)
    BY DEF IInv, TypeOK, Owned, StoreIsOurs
  <2>2. CASE pc = "prompt"
    BY <1>1, <1>7, <2>1, <2>2
  <2>3. CASE pc = "dropping"
    BY <1>1, <2>1, <2>3
  <2>4. QED
    BY <2>2, <2>3
<1>9. QED
  BY <1>1, <1>2, <1>4, <1>5, <1>8, FlowMoves DEF Storing

(* DELETE /api/me has been answered.                                       *)
LEMMA DeletionAnsweredIInv ==
  ASSUME IInv, DeletionAnswered
  PROVE  IInv'
<1> DEFINE pc   == IF call[Deletion].pc = "ok" THEN "dropping" ELSE "idle"
           rest == [flow["deletion"] EXCEPT !.pc = pc]
           new  == [call[Deletion] EXCEPT !.pc = "idle"]
<1>1. /\ UNCHANGED <<canRefresh, access, refresh, minted, session>>
      /\ torn' = (torn \/ Overlap') /\ call[Deletion].pc \in Settled
      /\ flow["deletion"].pc = "calling"
  BY DEF DeletionAnswered, store
<1>2. /\ call \in [Calls -> CallState] /\ flow \in [Flows -> FlowState] /\ minted \in Nat
      /\ call[Deletion] \in CallState /\ flow["deletion"] \in FlowState
  BY Types, Nothing
<1>3. flow' = [flow EXCEPT !["deletion"] = rest] /\ call' = [call EXCEPT ![Deletion] = new]
  BY <1>2 DEF DeletionAnswered, Moves, Goes
<1>4. pc \in {"dropping", "idle"}
  OBVIOUS
<1> HIDE DEF pc
<1>5. rest \in FlowState /\ rest.pc = pc
  BY <1>2, <1>4 DEF FlowState, Dropping
<1>6. /\ new \in CallState /\ new.pc = "idle" /\ new.carried = call[Deletion].carried
      /\ new.bad = call[Deletion].bad /\ new.attempt = call[Deletion].attempt
  BY <1>2 DEF CallState, Settled
<1> HIDE DEF rest, new
<1>7. /\ flow' \in [Flows -> FlowState] /\ flow'["signin"] = flow["signin"]
      /\ flow'["deletion"] = rest
      /\ \A f \in Flows \ {"deletion"} : flow'[f] = flow[f]
  BY <1>2, <1>3, <1>5, Nothing DEF Flows
<1>8. \A f \in Flows : flow'[f].pc = "droppingGrant" <=> flow[f].pc = "droppingGrant"
  BY <1>1, <1>4, <1>5, <1>7
<1>9. call'[Deletion] = new
  BY <1>2, <1>3, <1>6, Nothing
<1>10. Retries(Deletion)' /\ Known(Deletion)'
  BY <1>1, <1>2, <1>6, <1>9, Nothing DEF IInv, Retries, Known, Settled, Storing
<1>11. torn' \in BOOLEAN /\ (torn => torn') /\ (~torn' => ~Overlap')
  BY <1>1 DEF IInv, TypeOK
<1>12. QED
  BY <1>1, <1>3, <1>6, <1>7, <1>8, <1>10, <1>11, Nothing, CallMoves DEF Storing

(* Somebody has proved who they are, and has a token nobody has seen.      *)
LEMMA SignInAnswersIInv ==
  ASSUME IInv, SignInAnswers
  PROVE  IInv'
<1>1. /\ call \in [Calls -> CallState] /\ flow \in [Flows -> FlowState] /\ minted \in Nat
      /\ access \in Token /\ access.n \in Nat /\ refresh \in Token /\ torn \in BOOLEAN
      /\ \A d \in Calls : call[d].token.n \in Nat
      /\ flow["signin"].pc = "prompt" /\ torn' = (torn \/ Overlap')
      /\ UNCHANGED <<canRefresh, access, refresh, call, session>>
  BY Types DEF SignInAnswers, store, IInv, TypeOK
<1>2. CASE Rests("signin") /\ UNCHANGED minted
  BY <1>1, <1>2, Nothing, RestsIInv
<1>3. ASSUME NEW u \in Users, Mint(u),
             flow' = [flow EXCEPT !["signin"] = [pc |-> "storing", token |-> Minted(u)]]
      PROVE  IInv'
  <2>1. minted' = minted + 1 /\ minted < MaxTokens
    BY <1>3 DEF Mint
  <2>2. PICK token \in Token : token = Minted(u) /\ token.n = minted + 1 /\ token.user = u
    BY <1>1, <2>1, NewToken
  <2> DEFINE new == [pc |-> "storing", token |-> token]
  <2>3. flow' = [flow EXCEPT !["signin"] = new]
    BY <1>3, <2>2
  <2>4. new \in FlowState /\ new.pc = "storing" /\ new.token = token
    BY DEF FlowState, Storing
  <2> HIDE DEF new
  <2>5. /\ flow' \in [Flows -> FlowState] /\ flow'["signin"] = new
        /\ \A f \in Flows \ {"signin"} : flow'[f] = flow[f]
    BY <1>1, <2>3, <2>4, Nothing
  <2>6. TypeOK'
    BY <1>1, <2>1, <2>5, Nothing DEF IInv, TypeOK, FlowState
  <2>7. \A d \in Calls : Retries(d)' /\ Known(d)'
    BY <1>1, <2>1, Types DEF IInv, Retries, Known
  <2>8. Tokens'
    <3>1. \A n : Unseen(n) => Unseen(n)' /\ n # minted + 1
      BY <1>1, <2>1 DEF Unseen
    <3>2. Unseen(token.n)'
      <4>1. \A d \in Calls : call[d].carried.n <= minted /\ call[d].bad.n <= minted
        BY DEF IInv, Retries
      <4>2. access.n <= minted
        BY <1>1, Nothing DEF IInv, Tokens
      <4>3. QED
        BY <1>1, <2>1, <2>2, <4>1, <4>2, Types DEF Unseen
    <3>3. \A d \in Calls : CallStores(d)' => Unseen(call[d].token.n) /\ Unseen(call[d].token.n)'
      BY <1>1, <3>1 DEF IInv, Tokens, CallStores, Unseen
    <3>4. Unseen(flow["signin"].token.n)'
      BY <2>4, <2>5, <3>2 DEF Unseen
    <3>5. \A d \in Calls : CallStores(d)' => call'[d].token.n # flow'["signin"].token.n
      BY <1>1, <2>2, <2>4, <2>5, <3>1, <3>3
    <3>6. \A d, e \in Calls : CallStores(d)' /\ CallStores(e)' /\ call'[d].token.n = call'[e].token.n
                               => d = e
      BY <1>1 DEF IInv, Tokens, CallStores
    <3>7. access' = NoToken \/ access'.n \in 1..minted'
      BY <1>1, <2>1 DEF IInv, Tokens
    <3>8. QED
      BY <3>3, <3>4, <3>5, <3>6, <3>7 DEF Tokens
  <2>9. StubHasNoGrant'
    BY <1>1, <1>3, <2>4, <2>5 DEF IInv, StubHasNoGrant
  <2>10. NamesSomeone'
    BY <2>2, <2>4, <2>5 DEF NamesSomeone
  <2>11. ASSUME ~torn' PROVE StoreIsOurs' /\ \A d \in Calls : Ours(d)'
    <3>1. StoreIsOurs /\ (\A d \in Calls : Ours(d)) /\ ~Overlap'
      BY <1>1, <2>11 DEF IInv, Owned
    <3>2. \A d \in Calls : Ours(d)'
      BY <1>1, <3>1 DEF Ours, Renews
    <3>3. \A f \in Flows : flow'[f].pc = "droppingGrant" => flow[f].pc = "droppingGrant"
      BY <2>4, <2>5
    <3>4. StoreIsOurs'
      BY <1>1, <2>4, <2>5, <3>1, <3>3 DEF StoreIsOurs
    <3>5. QED
      BY <3>2, <3>4
  <2>12. QED
    BY <2>6, <2>7, <2>8, <2>9, <2>10, <2>11 DEF IInv, Owned
<1>4. QED
  BY <1>2, <1>3 DEF SignInAnswers

(* What becomes of the session when somebody signs in: they are in it, it  *)
(* has nobody new but them, and whoever is left out has left nothing over. *)
LEMMA Joins ==
  ASSUME NEW u, NEW kept, session' = {u} \cup IF LeftOver(u, kept) THEN session ELSE {}
  PROVE  /\ u \in session' /\ session' \subseteq session \cup {u}
         /\ \/ session \subseteq session'
            \/ /\ kept = NoToken \/ kept.user = u
               /\ \A c \in Calls : Renews(c) => call[c].token.user = u
<1>1. CASE LeftOver(u, kept)
  BY <1>1
<1>2. CASE ~LeftOver(u, kept)
  BY <1>2 DEF LeftOver
<1>3. QED
  BY <1>1, <1>2

(* The access token of the person signing in.  Every call under way knows  *)
(* of them from here on.                                                   *)
LEMMA SignInStoresIInv ==
  ASSUME IInv, SignInStores
  PROVE  IInv'
<1>1. /\ call \in [Calls -> CallState] /\ flow \in [Flows -> FlowState] /\ minted \in Nat
      /\ access \in Token /\ access.n \in Nat /\ refresh \in Token /\ torn \in BOOLEAN
      /\ flow["signin"].pc = "storing" /\ flow["signin"] \in FlowState
      /\ UNCHANGED <<canRefresh, refresh, minted, torn>>
  BY Types, Nothing DEF SignInStores, IInv, TypeOK
<1>2. CASE Rests("signin") /\ UNCHANGED <<access, call, session>>
  BY <1>1, <1>2, Nothing, RestsIInv
<1>3. ASSUME NEW token \in Token, token = flow["signin"].token, access' = token,
             session' = {token.user} \cup IF LeftOver(token.user, refresh) THEN session ELSE {},
             call' = [c \in Calls |->
                        IF call[c].pc \in Settled THEN call[c]
                        ELSE [call[c] EXCEPT !.people = @ \cup {token.user}]],
             \/ canRefresh /\ Moves("signin", "storingGrant")
             \/ Rests("signin")
      PROVE  IInv'
  <2>1. PICK new \in FlowState :
          /\ flow' = [flow EXCEPT !["signin"] = new]
          /\ \/ new.pc = "storingGrant" /\ new.token = token /\ canRefresh
             \/ new.pc = "idle"
    <3>1. CASE canRefresh /\ Moves("signin", "storingGrant")
      <4> DEFINE new == [flow["signin"] EXCEPT !.pc = "storingGrant"]
      <4>1. flow' = [flow EXCEPT !["signin"] = new]
        BY <1>1, <3>1 DEF Moves
      <4>2. new \in FlowState /\ new.pc = "storingGrant" /\ new.token = token
        BY <1>1, <1>3 DEF FlowState, Storing
      <4> HIDE DEF new
      <4>3. QED
        BY <3>1, <4>1, <4>2
    <3>2. CASE Rests("signin")
      BY <3>2, Nothing DEF Rests, AtRest
    <3>3. QED
      BY <1>3, <3>1, <3>2
  <2>2. /\ flow' \in [Flows -> FlowState] /\ flow'["signin"] = new
        /\ \A f \in Flows \ {"signin"} : flow'[f] = flow[f]
    BY <1>1, <2>1, Nothing
  <2>3. /\ token.user \in Users /\ token.user \in session'
        /\ session' \subseteq session \cup {token.user}
        /\ \/ session \subseteq session'
           \/ /\ refresh = NoToken \/ refresh.user = token.user
              /\ \A c \in Calls : Renews(c) => call[c].token.user = token.user
    <3>1. token.user \in Users
      BY <1>1, <1>3 DEF IInv, NamesSomeone, Storing
    <3>2. QED
      BY <1>3, <3>1, Joins
  <2>4. \A c \in Calls :
          /\ call'[c] \in CallState /\ call'[c].pc = call[c].pc
          /\ call'[c].attempt = call[c].attempt /\ call'[c].carried = call[c].carried
          /\ call'[c].bad = call[c].bad /\ call'[c].token = call[c].token
          /\ call[c].people \subseteq call'[c].people
          /\ call[c].pc \notin Settled => token.user \in call'[c].people
    <3> TAKE c \in Calls
    <3>1. call[c] \in CallState
      BY <1>1
    <3>2. CASE call[c].pc \in Settled
      BY <1>3, <3>1, <3>2
    <3>3. CASE call[c].pc \notin Settled
      <4> DEFINE more == [call[c] EXCEPT !.people = @ \cup {token.user}]
      <4>1. call'[c] = more
        BY <1>3, <3>3
      <4>2. /\ more.pc = call[c].pc /\ more.attempt = call[c].attempt
            /\ more.carried = call[c].carried /\ more.bad = call[c].bad
            /\ more.token = call[c].token /\ more.people = call[c].people \cup {token.user}
        BY <3>1 DEF CallState
      <4>3. more \in CallState
        BY <2>3, <3>1 DEF CallState
      <4> HIDE DEF more
      <4>4. QED
        BY <4>1, <4>2, <4>3
    <3>4. QED
      BY <3>2, <3>3
  <2>5. call' \in [Calls -> CallState]
    BY <1>3, <2>4
  <2>6. Unseen(token.n) /\ access'.n \in 1..minted /\ access' # NoToken
    BY <1>1, <1>3, Nothing DEF IInv, Tokens, SignInStoring, Unseen
  <2>7. TypeOK'
    BY <1>1, <1>3, <2>2, <2>3, <2>5 DEF IInv, TypeOK, CallState, FlowState
  <2>8. \A d \in Calls : Retries(d)' /\ Known(d)'
    <3> TAKE d \in Calls
    <3>1. Retries(d)'
      BY <1>1, <1>3, <2>4, <2>6 DEF IInv, Retries, Unseen
    <3>2. Known(d)'
      BY <1>1, <2>3, <2>4 DEF IInv, Known
    <3>3. QED
      BY <3>1, <3>2
  <2>9. Tokens'
    <3>1. \A n : Unseen(n) /\ n # token.n => Unseen(n)'
      BY <1>1, <1>3, <2>4 DEF Unseen
    <3>2. \A d \in Calls : CallStores(d)' => Unseen(call[d].token.n) /\ call[d].token.n # token.n
      BY <1>1, <1>3, <2>4 DEF IInv, Tokens, CallStores, SignInStoring
    <3>3. \A d \in Calls : CallStores(d)' => Unseen(call[d].token.n)'
      BY <2>4, <3>1, <3>2 DEF Unseen
    <3>4. ~SignInStoring'
      BY <2>1, <2>2 DEF SignInStoring
    <3>5. \A d, e \in Calls : CallStores(d)' /\ CallStores(e)' /\ call'[d].token.n = call'[e].token.n
                               => d = e
      BY <2>4 DEF IInv, Tokens, CallStores
    <3>6. QED
      BY <1>1, <2>6, <3>3, <3>4, <3>5 DEF Tokens
  <2>10. StubHasNoGrant'
    BY <1>1, <2>1, <2>2, <2>4 DEF IInv, StubHasNoGrant
  <2>11. NamesSomeone'
    BY <2>1, <2>2, <2>3 DEF NamesSomeone, Storing
  <2>12. ASSUME ~torn' PROVE StoreIsOurs' /\ \A d \in Calls : Ours(d)'
    <3>1. StoreIsOurs /\ \A d \in Calls : Ours(d)
      BY <1>1, <2>12 DEF IInv, Owned
    <3>2. \A d \in Calls : Renews(d)' <=> Renews(d)
      BY <2>4 DEF Renews
    <3>3. \A f \in Flows : flow[f].pc \notin Dropping /\ flow'[f].pc \notin Dropping
      BY <1>1, <2>1, <2>2, <3>1 DEF StoreIsOurs, Overlap, Storing, Dropping
    <3>4. refresh' = NoToken \/ refresh'.user \in session'
      BY <1>1, <2>3, <3>1 DEF StoreIsOurs
    <3>5. StoreIsOurs'
      BY <1>3, <2>1, <2>2, <2>3, <3>3, <3>4 DEF StoreIsOurs, Overlap, Dropping
    <3>6. \A d \in Calls : Ours(d)'
      BY <2>3, <2>4, <3>1, <3>2 DEF Ours
    <3>7. QED
      BY <3>5, <3>6
  <2>13. QED
    BY <2>7, <2>8, <2>9, <2>10, <2>11, <2>12 DEF IInv, Owned
<1>4. flow["signin"].token \in Token
  BY <1>1 DEF FlowState
<1>5. QED
  BY <1>2, <1>3, <1>4 DEF SignInStores

(* The refresh token of the person signing in.                             *)
LEMMA SignInStoresGrantIInv ==
  ASSUME IInv, SignInStoresGrant
  PROVE  IInv'
<1>1. /\ flow \in [Flows -> FlowState] /\ refresh \in Token /\ torn \in BOOLEAN
      /\ flow["signin"].pc = "storingGrant" /\ flow["signin"] \in FlowState
      /\ Rests("signin") /\ UNCHANGED <<canRefresh, access, minted, call, torn>>
  BY Types, Nothing DEF SignInStoresGrant, IInv, TypeOK
<1>2. CASE UNCHANGED <<refresh, session>>
  BY <1>1, <1>2, Nothing, RestsIInv
<1>3. ASSUME NEW token \in Token, token = flow["signin"].token, refresh' = token,
             session' = {token.user} \cup IF LeftOver(token.user, access) THEN session ELSE {}
      PROVE  IInv'
  <2>1. flow' = [flow EXCEPT !["signin"] = AtRest]
    BY <1>1 DEF Rests
  <2>2. AtRest \in FlowState /\ AtRest.pc = "idle"
    BY Nothing DEF AtRest
  <2>3. /\ flow' \in [Flows -> FlowState] /\ flow'["signin"] = AtRest
        /\ \A f \in Flows \ {"signin"} : flow'[f] = flow[f]
    BY <1>1, <2>1, <2>2, Nothing
  <2>4. token.user \in Users
    BY <1>1, <1>3 DEF IInv, NamesSomeone, Storing
  <2>5. /\ token.user \in session' /\ session' \subseteq session \cup {token.user}
        /\ \/ session \subseteq session'
           \/ /\ access = NoToken \/ access.user = token.user
              /\ \A c \in Calls : Renews(c) => call[c].token.user = token.user
    BY <1>3, Joins
  <2>6. TypeOK'
    BY <1>1, <1>3, <2>3, <2>4, <2>5 DEF IInv, TypeOK, FlowState
  <2>7. \A d \in Calls : Retries(d)' /\ Known(d)'
    <3>1. ~torn => session' \subseteq session
      BY <1>1, <1>3, <2>5 DEF IInv, Owned, StoreIsOurs
    <3>2. QED
      BY <1>1, <3>1 DEF IInv, Retries, Known
  <2>8. Tokens'
    BY <1>1, <2>2, <2>3 DEF IInv, Tokens, CallStores, SignInStoring, Unseen
  <2>9. StubHasNoGrant' /\ NamesSomeone'
    <3>1. canRefresh /\ canRefresh'
      BY <1>1 DEF IInv, StubHasNoGrant
    <3>2. QED
      BY <2>2, <2>3, <3>1 DEF StubHasNoGrant, NamesSomeone, Storing
  <2>10. ASSUME ~torn' PROVE StoreIsOurs' /\ \A d \in Calls : Ours(d)'
    <3>1. StoreIsOurs /\ \A d \in Calls : Ours(d)
      BY <1>1, <2>10 DEF IInv, Owned
    <3>2. \A d \in Calls : Renews(d)' <=> Renews(d)
      BY <1>1 DEF Renews
    <3>3. \A f \in Flows : flow[f].pc \notin Dropping /\ flow'[f].pc \notin Dropping
      BY <1>1, <2>2, <2>3, <3>1 DEF StoreIsOurs, Overlap, Storing, Dropping
    <3>4. access' = NoToken \/ access'.user \in session'
      BY <1>1, <2>5, <3>1 DEF StoreIsOurs
    <3>5. StoreIsOurs'
      BY <1>3, <2>2, <2>3, <2>5, <3>3, <3>4 DEF StoreIsOurs, Overlap, Dropping
    <3>6. \A d \in Calls : Ours(d)'
      BY <1>1, <2>5, <3>1, <3>2 DEF Ours
    <3>7. QED
      BY <3>5, <3>6
  <2>11. QED
    BY <2>6, <2>7, <2>8, <2>9, <2>10 DEF IInv, Owned
<1>4. flow["signin"].token \in Token
  BY <1>1 DEF FlowState
<1>5. QED
  BY <1>2, <1>3, <1>4 DEF SignInStoresGrant

(* A sign-out drops the access token; the stub is done then.               *)
LEMMA DropAccessIInv ==
  ASSUME IInv, NEW f \in Flows, DropAccess(f)
  PROVE  IInv'
<1>1. /\ flow \in [Flows -> FlowState] /\ flow[f] \in FlowState /\ minted \in Nat
      /\ access \in Token /\ refresh \in Token /\ torn \in BOOLEAN /\ access.n \in Nat
      /\ call \in [Calls -> CallState] /\ flow[f].pc = "dropping"
      /\ \A d \in Calls : call[d].carried.n \in Nat /\ call[d].bad.n \in Nat
      /\ UNCHANGED <<canRefresh, refresh, minted, call>>
  BY Types DEF DropAccess, IInv, TypeOK
<1>2. PICK new \in FlowState :
        /\ flow' = [flow EXCEPT ![f] = new]
        /\ \/ new.pc = "droppingGrant" /\ canRefresh /\ session' = session
           \/ new.pc = "idle" /\ ~canRefresh /\ session' = {}
  <2>1. CASE canRefresh /\ Moves(f, "droppingGrant") /\ UNCHANGED session
    <3> DEFINE new == [flow[f] EXCEPT !.pc = "droppingGrant"]
    <3>1. flow' = [flow EXCEPT ![f] = new]
      BY <1>1, <2>1 DEF Moves
    <3>2. new \in FlowState /\ new.pc = "droppingGrant"
      BY <1>1 DEF FlowState, Dropping
    <3> HIDE DEF new
    <3>3. QED
      BY <2>1, <3>1, <3>2
  <2>2. CASE ~canRefresh /\ SignedOutNow(f)
    BY <2>2, Nothing DEF SignedOutNow, Rests, AtRest
  <2>3. QED
    BY <2>1, <2>2 DEF DropAccess
<1>3. flow' \in [Flows -> FlowState] /\ flow'[f] = new /\ \A g \in Flows \ {f} : flow'[g] = flow[g]
  BY <1>1, <1>2
<1>4. \/ access' = NoToken /\ torn' = torn
      \/ access' = access /\ torn' = TRUE
  BY DEF DropAccess
<1>5. access' \in Token /\ (access' = NoToken \/ access' = access) /\ torn' \in BOOLEAN
  BY <1>1, <1>4, Nothing
<1>6. TypeOK'
  BY <1>1, <1>2, <1>3, <1>5 DEF IInv, TypeOK, FlowState
<1>7. \A d \in Calls : Retries(d)' /\ Known(d)'
  <2>1. session' \subseteq session /\ (~torn' => ~torn)
    BY <1>2, <1>4
  <2>2. QED
    BY <1>1, <1>5, <2>1, Nothing DEF IInv, Retries, Known, Storing
<1>8. /\ flow'["signin"].pc \in Storing => flow'["signin"] = flow["signin"]
      /\ "signin" \in Flows
  <2>1. CASE f = "signin"
    BY <1>2, <1>3, <2>1, Nothing DEF Storing
  <2>2. CASE f # "signin"
    BY <1>3, <2>2, Nothing
  <2>3. QED
    BY <2>1, <2>2
<1>9. Tokens'
  <2>1. \A n : Unseen(n) => Unseen(n)'
    BY <1>1, <1>5, Nothing DEF Unseen
  <2>2. \A d \in Calls : CallStores(d)' => Unseen(call[d].token.n)'
    BY <1>1, <2>1 DEF IInv, Tokens, CallStores, Unseen
  <2>3. SignInStoring' => SignInStoring /\ flow'["signin"] = flow["signin"]
    BY <1>8 DEF SignInStoring, Storing
  <2>4. SignInStoring' => Unseen(flow["signin"].token.n)'
    BY <2>1, <2>3 DEF IInv, Tokens, Unseen
  <2>5. QED
    BY <1>1, <1>5, <2>2, <2>3, <2>4 DEF IInv, Tokens, CallStores
<1>10. StubHasNoGrant'
  BY <1>1, <1>2, <1>3, <1>8 DEF IInv, StubHasNoGrant, Storing
<1>11. NamesSomeone'
  BY <1>8 DEF IInv, NamesSomeone
<1>12. ASSUME ~torn' PROVE StoreIsOurs' /\ \A d \in Calls : Ours(d)'
  <2>1. StoreIsOurs /\ (\A d \in Calls : Ours(d)) /\ access' = NoToken
    BY <1>1, <1>4, <1>12 DEF IInv, Owned
  <2>2. flow["signin"].pc \notin Storing /\ \A d \in Calls : ~Renews(d) /\ ~Renews(d)'
    BY <1>1, <2>1 DEF StoreIsOurs, Overlap, Dropping, Renews
  <2>3. flow'["signin"].pc \notin Storing
    BY <1>8, <2>2
  <2>4. \A d \in Calls : Ours(d)'
    BY <1>1, <2>1, <2>2 DEF Ours, Renews, Storing
  <2>5. ~canRefresh => refresh = NoToken
    BY DEF IInv, StubHasNoGrant
  <2>6. ~Overlap'
    BY <2>2, <2>3 DEF Overlap, Renews
  <2>7. refresh' = NoToken \/ refresh'.user \in session'
    BY <1>1, <1>2, <2>1, <2>5 DEF StoreIsOurs
  <2>8. StoreIsOurs'
    BY <2>1, <2>3, <2>6, <2>7 DEF StoreIsOurs, Storing
  <2>9. QED
    BY <2>4, <2>8
<1>13. QED
  BY <1>6, <1>7, <1>9, <1>10, <1>11, <1>12 DEF IInv, Owned

(* A sign-out drops the refresh token, and is over.                        *)
LEMMA DropGrantIInv ==
  ASSUME IInv, NEW f \in Flows, DropGrant(f)
  PROVE  IInv'
<1>1. /\ flow \in [Flows -> FlowState] /\ flow[f].pc = "droppingGrant"
      /\ refresh \in Token /\ torn \in BOOLEAN
      /\ UNCHANGED <<canRefresh, access, minted, call>>
      /\ session' = {} /\ flow' = [flow EXCEPT ![f] = AtRest]
  BY Types DEF DropGrant, SignedOutNow, Rests, IInv, TypeOK
<1>2. AtRest \in FlowState /\ AtRest.pc = "idle"
  BY Nothing DEF AtRest
<1>3. flow' \in [Flows -> FlowState] /\ flow'[f] = AtRest /\ \A g \in Flows \ {f} : flow'[g] = flow[g]
  BY <1>1, <1>2
<1>4. \/ refresh' = NoToken /\ torn' = torn
      \/ refresh' = refresh /\ torn' = TRUE
  BY DEF DropGrant
<1>5. TypeOK'
  <2>1. refresh' \in Token /\ torn' \in BOOLEAN
    BY <1>1, <1>4, Nothing
  <2>2. QED
    BY <1>1, <1>3, <2>1 DEF IInv, TypeOK, FlowState
<1>6. \A d \in Calls : Retries(d)' /\ Known(d)'
  BY <1>1 DEF IInv, Retries, Known
<1>7. flow'["signin"].pc \in Storing => flow'["signin"] = flow["signin"]
  BY <1>2, <1>3, Nothing DEF Storing
<1>8. Tokens'
  BY <1>1, <1>7 DEF IInv, Tokens, CallStores, SignInStoring, Unseen, Storing
<1>9. StubHasNoGrant'
  <2>1. canRefresh
    BY <1>1 DEF IInv, StubHasNoGrant
  <2>2. QED
    BY <1>1, <2>1 DEF StubHasNoGrant
<1>10. NamesSomeone'
  BY <1>7 DEF IInv, NamesSomeone
<1>11. ASSUME ~torn' PROVE StoreIsOurs' /\ \A d \in Calls : Ours(d)'
  <2>1. StoreIsOurs /\ (\A d \in Calls : Ours(d)) /\ refresh' = NoToken /\ access = NoToken
    BY <1>1, <1>4, <1>11 DEF IInv, Owned, StoreIsOurs
  <2>2. flow["signin"].pc \notin Storing /\ \A d \in Calls : ~Renews(d) /\ ~Renews(d)'
    BY <1>1, <2>1 DEF StoreIsOurs, Overlap, Dropping, Renews
  <2>3. flow'["signin"].pc \notin Storing
    BY <1>7, <2>2
  <2>4. \A d \in Calls : Ours(d)'
    BY <1>1, <2>1, <2>2 DEF Ours, Renews, Storing
  <2>5. ~Overlap'
    BY <2>2, <2>3 DEF Overlap, Renews
  <2>6. StoreIsOurs'
    BY <1>1, <2>1, <2>2, <2>3, <2>5 DEF StoreIsOurs, Storing
  <2>7. QED
    BY <2>4, <2>6
<1>12. QED
  BY <1>5, <1>6, <1>8, <1>9, <1>10, <1>11 DEF IInv, Owned

(* The app dies.  A sign-out it was in the middle of did not come to pass. *)
LEMMA KillIInv ==
  ASSUME IInv, Kill
  PROVE  IInv'
<1>1. /\ UNCHANGED <<canRefresh, access, refresh, minted, session>>
      /\ torn \in BOOLEAN /\ torn' = (torn \/ \E f \in Flows : flow[f].pc \in Dropping)
      /\ minted \in Nat /\ access.n \in Nat
  BY Types DEF Kill, store, IInv, TypeOK
<1>2. \A c \in Calls : call'[c] = NoCall
  BY DEF Kill
<1>3. \A f \in Flows : flow'[f] = AtRest
  BY DEF Kill
<1>4. call' \in [Calls -> CallState] /\ flow' \in [Flows -> FlowState]
  BY Nothing DEF Kill
<1>5. /\ NoCall.pc = "idle" /\ NoCall.attempt = 1 /\ NoCall.carried = NoToken
      /\ NoCall.bad = NoToken /\ AtRest.pc = "idle"
  BY DEF NoCall, AtRest
<1>6. TypeOK'
  BY <1>1, <1>4 DEF IInv, TypeOK, CallState, FlowState
<1>7. \A c \in Calls : Retries(c)' /\ Known(c)'
  BY <1>1, <1>2, <1>5, Nothing DEF Retries, Known, Settled, Storing
<1>8. Tokens'
  BY <1>1, <1>2, <1>3, <1>5, Nothing DEF IInv, Tokens, CallStores, SignInStoring
<1>9. StubHasNoGrant' /\ NamesSomeone'
  BY <1>1, <1>2, <1>3, <1>5, Nothing DEF IInv, StubHasNoGrant, NamesSomeone, Storing
<1>10. ASSUME ~torn' PROVE StoreIsOurs' /\ \A c \in Calls : Ours(c)'
  <2>1. StoreIsOurs /\ \A f \in Flows : flow[f].pc \notin Dropping
    BY <1>1, <1>10 DEF IInv, Owned
  <2>2. \A c \in Calls : Ours(c)' /\ ~Renews(c)'
    BY <1>2, <1>5 DEF Ours, Renews, Storing
  <2>3. ~Overlap'
    BY <1>3, <1>5 DEF Overlap, Dropping
  <2>4. StoreIsOurs'
    BY <1>1, <1>3, <1>5, <2>1, <2>3, Nothing DEF StoreIsOurs
  <2>5. QED
    BY <2>2, <2>4
<1>11. QED
  BY <1>6, <1>7, <1>8, <1>9, <1>10 DEF IInv, Owned

-----------------------------------------------------------------------------
(* Nothing is under way when the app is first opened.                      *)
LEMMA InitIInv == Init => IInv
<1> SUFFICES ASSUME Init PROVE IInv
  OBVIOUS
<1>1. /\ call \in [Calls -> CallState] /\ flow \in [Flows -> FlowState]
      /\ (\A c \in Calls : call[c] = NoCall) /\ (\A f \in Flows : flow[f] = AtRest)
  BY Nothing DEF Init
<1>2. /\ access \in Token /\ refresh \in {access, NoToken}
      /\ access = NoToken \/ (access.n \in 1..minted /\ access.user \in session)
      /\ minted \in 0..MaxTokens /\ session \subseteq Users
      /\ ~canRefresh => refresh = NoToken
  <2>1. CASE \E u \in Users :
               /\ access = [user |-> u, n |-> 1]
               /\ refresh = IF canRefresh THEN access ELSE NoToken
               /\ session = {u} /\ minted = 1
    BY <2>1, SessionAssumption DEF Token, NoToken
  <2>2. CASE /\ access = NoToken /\ refresh = NoToken
             /\ session = {} /\ minted = 0
    BY <2>2, Nothing
  <2>3. QED
    BY <2>1, <2>2 DEF Init
<1>3. canRefresh \in BOOLEAN /\ ~torn
  BY DEF Init
<1>4. /\ NoCall.pc = "idle" /\ NoCall.attempt = 1 /\ NoCall.carried = NoToken
      /\ NoCall.bad = NoToken /\ AtRest.pc = "idle"
  BY DEF NoCall, AtRest
<1>5. TypeOK
  <2>1. torn \in BOOLEAN
    BY DEF Init
  <2>2. QED
    BY <1>1, <1>2, <1>3, <2>1, Nothing DEF TypeOK, CallState, FlowState
<1>6. \A c \in Calls : Retries(c) /\ Known(c)
  BY <1>1, <1>2, <1>4, Nothing DEF Retries, Known, Settled, Storing
<1>7. Tokens
  BY <1>1, <1>2, <1>4, Nothing DEF Tokens, CallStores, SignInStoring
<1>8. StubHasNoGrant /\ NamesSomeone
  BY <1>1, <1>2, <1>4, Nothing DEF StubHasNoGrant, NamesSomeone, Storing
<1>9. StoreIsOurs /\ \A c \in Calls : Ours(c)
  <2>1. \A c \in Calls : Ours(c) /\ ~Renews(c)
    BY <1>1, <1>4 DEF Ours, Renews, Storing
  <2>2. QED
    BY <1>1, <1>2, <1>3, <1>4, <2>1, Nothing DEF StoreIsOurs, Overlap, Dropping
<1>10. QED
  BY <1>5, <1>6, <1>7, <1>8, <1>9 DEF IInv, Owned

(* The invariant is inductive.                                             *)
LEMMA NextIInv == IInv /\ [Next]_vars => IInv'
<1> SUFFICES ASSUME IInv, [Next]_vars PROVE IInv'
  OBVIOUS
<1>1. ASSUME NEW c \in Calls, StartCall(c) PROVE IInv'
  BY <1>1, StartIInv DEF StartCall, store
<1>2. ASSUME NEW c \in Calls, CallSteps(c) PROVE IInv'
  BY <1>2, FetchIInv, IdpAnswersIInv, StoreAccessIInv, StoreGrantIInv DEF CallSteps
<1>3. CASE BeginSignIn \/ BeginSignOut
  BY <1>3, BeginIInv
<1>4. CASE SignInAnswers
  BY <1>4, SignInAnswersIInv
<1>5. CASE SignInStores
  BY <1>5, SignInStoresIInv
<1>6. CASE SignInStoresGrant
  BY <1>6, SignInStoresGrantIInv
<1>7. CASE ConfirmDeletion
  BY <1>7, Nothing, StartIInv DEF ConfirmDeletion, store
<1>8. CASE DeletionAnswered
  BY <1>8, DeletionAnsweredIInv
<1>9. ASSUME NEW f \in Flows, DropAccess(f) \/ DropGrant(f) PROVE IInv'
  BY <1>9, DropAccessIInv, DropGrantIInv
<1>10. CASE Kill
  BY <1>10, KillIInv
<1>11. CASE UNCHANGED vars
  BY <1>11 DEF vars, store, IInv, TypeOK, Tokens, Unseen, CallStores, SignInStoring,
     StubHasNoGrant, NamesSomeone, Owned, StoreIsOurs, Ours, Renews, Overlap, Retries, Known
<1>12. QED
  BY <1>1, <1>2, <1>3, <1>4, <1>5, <1>6, <1>7, <1>8, <1>9, <1>10, <1>11 DEF Next

(* It holds of every reachable state.                                      *)
LEMMA Invariant == Spec => []IInv
BY InitIInv, NextIInv, PTL DEF Spec

-----------------------------------------------------------------------------
(* Every variable holds a value of its kind, whatever is interleaved.      *)
THEOREM TypeCorrect == Spec => []TypeOK
<1>1. IInv => TypeOK
  BY DEF IInv
<1>2. QED
  BY <1>1, Invariant, PTL

(* The retry carries another token than the one refused: the renewed one   *)
(* has a number nobody has seen, and a refused one, once replaced in the   *)
(* store, is never stored again.                                           *)
THEOREM NoRepeat == Spec => []RetryNeverRepeats
<1>1. IInv => RetryNeverRepeats
  BY DEF IInv, Retries, RetryNeverRepeats
<1>2. QED
  BY <1>1, Invariant, PTL

(* A sign-out that had the store to itself leaves no credential behind.    *)
THEOREM NothingLeft == Spec => []SignOutSticks
<1>1. IInv => SignOutSticks
  BY DEF IInv, Owned, StoreIsOurs, SignOutSticks
<1>2. QED
  BY <1>1, Invariant, PTL

(* As long as sign-outs had the store to themselves, a call carries a      *)
(* token of someone whose session it was when it was made, or who has      *)
(* signed in since.                                                        *)
THEOREM NobodyElses == Spec => []OwnRequests
<1>1. IInv => OwnRequests
  BY DEF IInv, Owned, Ours, OwnRequests
<1>2. QED
  BY <1>1, Invariant, PTL
=============================================================================
