-------------------------- MODULE ConsoleAuthProofs --------------------------
(***************************************************************************)
(* Signing in and out of the web console (module ConsoleAuth), for every   *)
(* number of accounts, pages, lists, tokens and unanswered requests.       *)
(*                                                                         *)
(* Beside what is to be shown the invariant says which tokens there are    *)
(* (the first n, so that a fresh one was never signed out), that a request *)
(* carries a token that was issued, that a sign-in request names its       *)
(* account, a sign-out request its token, and that a list request whose    *)
(* effect is current carries the token that is signed in.                  *)
(***************************************************************************)
EXTENDS ConsoleAuth, FiniteSetTheorems, TLAPS

CallType == [kind : Kinds, tok : Tokens \cup {None}, user : Users \cup {None},
             active : BOOLEAN, ok : BOOLEAN, steps : SUBSET Steps]

(* A request of a tab where the tokens in I were issued and a is signed in. *)
GoodCall(c, I, a) ==
  /\ c \in CallType /\ c.tok \in I \cup {None}
  /\ c.kind \in {"login", "passkey"} => c.user \in Users
  /\ c.kind = "logout" => c.tok \in I
  /\ c.kind \in Lists /\ c.active => c.tok = a
GoodCalls(cs, I, a) == \A c \in cs : GoodCall(c, I, a)

(* The parts of the invariant: the server, what the browser keeps, the tab. *)
Numbered == \E n \in 0..MaxTokens : Issued = 1..n
ServerOK ==
  /\ owner \in [Tokens -> Users \cup {None}] /\ live \subseteq Issued
  /\ setup \in [Users -> SUBSET Steps] /\ Numbered
BrowserOK ==
  /\ saved \in Issued \cup {None} /\ other \in Issued \cup {None}
  /\ returnTo \in Pages \cup {None}
  /\ signedOut \subseteq Issued /\ StaysSignedOut
TabOK ==
  /\ auth \in Issued \cup {None} /\ TokensAgree
  /\ route \in Pages \cup {"/login"}
  /\ boot \in [required : BOOLEAN, steps : SUBSET Steps]
  /\ data \in [Lists -> Issued \cup {None}]
FormOK == mfa \in MfaSteps /\ recent \in BOOLEAN
CallsOK == GoodCalls(calls, Issued, auth)
Signed == ServerOK /\ BrowserOK /\ TabOK /\ FormOK /\ CallsOK

-----------------------------------------------------------------------------
(* None is no token, no account and no page.                                *)
LEMMA NoneIsNone ==
  None \notin Tokens /\ None \notin Users /\ None \notin Pages /\ Tokens \subseteq Nat
BY AuthAssumption DEF AuthAssumption, Tokens

(* A request of a loader or a form, with the token that is signed in.       *)
LEMMA GoodCallOf ==
  ASSUME NEW I \in SUBSET Tokens, NEW t \in I \cup {None}, NEW ok \in BOOLEAN,
         NEW steps \in SUBSET Steps, NEW k \in Kinds \ {"login", "passkey"},
         k = "logout" => t # None
  PROVE  GoodCall(Call(k, t, ok, steps), I, t)
<1> DEFINE c == Call(k, t, ok, steps)
<1>1. c \in CallType /\ c.kind = k /\ c.tok = t
  <2>1. k \in Kinds /\ t \in Tokens \cup {None}
    OBVIOUS
  <2> QED BY <2>1 DEF Call, CallType
<1> HIDE DEF c
<1>2. GoodCall(c, I, t)
  BY <1>1 DEF GoodCall
<1> QED BY <1>2 DEF c

(* A request of the sign-in form, while nobody is signed in.                *)
LEMMA GoodSentFor ==
  ASSUME NEW I \in SUBSET Tokens, NEW u \in Users, NEW k \in {"login", "passkey"}
  PROVE  GoodCall(SentFor(k, u), I, None)
<1> DEFINE c == SentFor(k, u)
<1>1. c \in CallType /\ c.kind = k /\ c.tok = None /\ c.user = u
  BY DEF SentFor, Call, CallType, Kinds
<1> HIDE DEF c
<1>2. GoodCall(c, I, None)
  BY <1>1 DEF GoodCall
<1> QED BY <1>2 DEF c

(* The loaders that start when a token is signed in.                        *)
LEMMA LoadGood ==
  ASSUME NEW I \in SUBSET Tokens, NEW t \in I, NEW ok \in BOOLEAN,
         NEW steps \in SUBSET Steps
  PROVE  GoodCalls(Load(t, ok, steps), I, t)
<1> SUFFICES ASSUME NEW c \in Load(t, ok, steps) PROVE GoodCall(c, I, t)
  BY DEF GoodCalls
<1>1. \A l \in Lists : l \in Kinds \ {"login", "passkey"} /\ l # "logout"
  BY AuthAssumption DEF AuthAssumption, Kinds
<1>2. ASSUME NEW l \in Lists, c = Served(l, t, ok, steps) PROVE GoodCall(c, I, t)
  <2>1. c = Call(l, t, ok /\ steps = {}, {})
    BY <1>2 DEF Served
  <2>2. (ok /\ steps = {}) \in BOOLEAN /\ {} \in SUBSET Steps
    OBVIOUS
  <2> DEFINE b == ok /\ steps = {}
  <2> HIDE DEF b
  <2>3. c = Call(l, t, b, {}) /\ b \in BOOLEAN
    BY <2>1, <2>2 DEF b
  <2> QED BY <1>1, <2>2, <2>3, GoodCallOf
<1>3. CASE c = Call("bootstrap", t, ok, steps)
  <2>1. "bootstrap" \in Kinds \ {"login", "passkey"} /\ "bootstrap" # "logout"
    BY DEF Kinds
  <2> QED BY <1>3, <2>1, GoodCallOf
<1>4. c = Call("bootstrap", t, ok, steps) \/ \E l \in Lists : c = Served(l, t, ok, steps)
  BY DEF Load
<1> QED BY <1>2, <1>3, <1>4

(* When another token is signed in or none, the cleanup of the effects      *)
(* leaves no list request current.                                          *)
LEMMA CleanupGood ==
  ASSUME NEW cs, NEW I \in SUBSET Tokens, NEW a, NEW b, GoodCalls(cs, I, a)
  PROVE  GoodCalls(Cleanup(cs), I, b)
<1> SUFFICES ASSUME NEW e \in Cleanup(cs) PROVE GoodCall(e, I, b)
  BY DEF GoodCalls
<1>1. PICK c \in cs :
        e = IF c.kind \in Loaders THEN [c EXCEPT !.active = FALSE] ELSE c
  BY DEF Cleanup
<1>2. GoodCall(c, I, a)
  BY DEF GoodCalls
<1>3. CASE c.kind \in Loaders
  <2>1. e = [c EXCEPT !.active = FALSE] /\ c \in CallType
    BY <1>1, <1>2, <1>3 DEF GoodCall
  <2>2. /\ e \in CallType /\ e.kind = c.kind /\ e.tok = c.tok /\ e.user = c.user
        /\ e.active = FALSE
    BY <2>1 DEF CallType
  <2> QED BY <1>2, <2>2 DEF GoodCall
<1>4. CASE c.kind \notin Loaders
  BY <1>1, <1>2, <1>4 DEF GoodCall, Loaders
<1> QED BY <1>3, <1>4

(* Requests stay good when they are answered, joined, or a token is issued. *)
LEMMA GoodJoin ==
  ASSUME NEW I, NEW a, NEW cs, NEW ds, GoodCalls(cs, I, a), GoodCalls(ds, I, a)
  PROVE  GoodCalls(cs \cup ds, I, a)
BY DEF GoodCalls

(* ... with more tokens issued.                                             *)
LEMMA GoodGrows ==
  ASSUME NEW I, NEW J, I \subseteq J, NEW a, NEW cs, GoodCalls(cs, I, a),
         NEW ds \in SUBSET cs
  PROVE  GoodCalls(ds, J, a)
BY DEF GoodCalls, GoodCall

(* The server gives a token it never gave before.                           *)
LEMMA IssueStep ==
  ASSUME ServerOK, NEW t \in Fresh, NEW u \in Users, Issue(t, u)
  PROVE  /\ ServerOK' /\ t \notin Issued /\ Issued' = Issued \cup {t}
         /\ t \in Tokens
<1>1. PICK n \in 0..MaxTokens : Issued = 1..n
  BY DEF ServerOK, Numbered
<1>2. MaxTokens \in Nat /\ n \in Nat /\ Tokens = 1..MaxTokens
  BY AuthAssumption DEF AuthAssumption, Tokens
<1>3. Cardinality(1..n) = n
  BY <1>2, FS_Interval
<1>4. t = n + 1 /\ t \in Tokens
  BY <1>1, <1>3 DEF Fresh
<1>5. owner' = [owner EXCEPT ![t] = u] /\ owner \in [Tokens -> Users \cup {None}]
      /\ live' = live \cup {t} /\ live \subseteq Issued
      /\ setup' = setup /\ setup \in [Users -> SUBSET Steps]
  BY DEF Issue, ServerOK
<1>6. Issued' = Issued \cup {t}
  <2>1. Issued' = {x \in Tokens : owner'[x] # None}
    BY DEF Issued
  <2>2. \A x \in Tokens : owner'[x] = IF x = t THEN u ELSE owner[x]
    BY <1>4, <1>5
  <2> QED BY <1>4, <2>1, <2>2, NoneIsNone DEF Issued
<1>7. t \notin Issued
  BY <1>1, <1>2, <1>4
<1>8. Issued' = 1..(n + 1) /\ n + 1 \in 0..MaxTokens
  BY <1>1, <1>2, <1>4, <1>6
<1>9. Numbered'
  BY <1>8 DEF Numbered
<1>10. owner' \in [Tokens -> Users \cup {None}]
  BY <1>4, <1>5
<1>11. live' \subseteq Issued'
  BY <1>5, <1>6
<1> QED BY <1>4, <1>5, <1>6, <1>7, <1>9, <1>10, <1>11 DEF ServerOK

-----------------------------------------------------------------------------
(* Facts of a state that satisfies the invariant.                           *)
LEMMA StateFacts ==
  ASSUME Signed
  PROVE  /\ Issued \in SUBSET Tokens /\ authToken = auth
         /\ GoodCalls(calls, Issued, auth)
         /\ (auth = None \/ auth \in Issued) /\ (saved = None \/ saved \in Issued)
         /\ takeReturnTo \in Pages
         /\ \A x : rememberReturnTo(x) \in Pages \cup {None}
         /\ \A t \in Issued : owner[t] \in Users
<1>1. Issued \in SUBSET Tokens /\ \A t \in Issued : owner[t] \in Users
  BY DEF Issued, Signed, ServerOK
<1>2. takeReturnTo \in Pages /\ \A x : rememberReturnTo(x) \in Pages \cup {None}
  BY AuthAssumption
  DEF AuthAssumption, takeReturnTo, rememberReturnTo, Signed, BrowserOK
<1> QED
  BY <1>1, <1>2 DEF Signed, TabOK, BrowserOK, CallsOK, TokensAgree

(* The steps that end a session, as they leave the tab.                     *)
LEMMA SignedOutTab ==
  ASSUME Signed, UNCHANGED owner, NEW cs \in SUBSET calls,
         auth' = None, authToken' = None, route' = "/login", boot' = NoSetup,
         mfa' = NoChallenge, data' = Cleared, calls' = Cleanup(cs),
         recent' \in BOOLEAN
  PROVE  TabOK' /\ FormOK' /\ CallsOK'
<1>1. Issued' = Issued
  BY DEF Issued
<1>2. TabOK'
  <2>1. data' \in [Lists -> Issued' \cup {None}]
    BY DEF Cleared
  <2>2. boot' \in [required : BOOLEAN, steps : SUBSET Steps]
    BY DEF NoSetup
  <2> QED BY <2>1, <2>2 DEF TabOK, TokensAgree
<1>3. FormOK'
  BY DEF FormOK, NoChallenge, MfaSteps, Signed
<1>4. GoodCalls(cs, Issued, auth)
  BY StateFacts, GoodGrows
<1>5. GoodCalls(Cleanup(cs), Issued, None)
  BY <1>4, StateFacts, CleanupGood
<1> QED BY <1>1, <1>2, <1>3, <1>5 DEF CallsOK

(* The page is loaded again.                                                *)
LEMMA PageLoadStep ==
  ASSUME Signed, UNCHANGED <<owner, saved, other, signedOut>>,
         NEW ok \in BOOLEAN, NEW steps \in SUBSET Steps, NEW e \in BOOLEAN,
         PageLoad(ok, steps, e)
  PROVE  BrowserOK' /\ TabOK' /\ FormOK' /\ CallsOK'
<1>1. Issued' = Issued /\ Issued \in SUBSET Tokens
  BY StateFacts DEF Issued
<1>2. BrowserOK'
  BY <1>1, StateFacts DEF PageLoad, BrowserOK, Signed, StaysSignedOut
<1>3. FormOK'
  BY DEF FormOK, PageLoad, MfaSteps
<1>4. TabOK'
  <2>1. /\ auth' = saved /\ authToken' = saved /\ route' = Redirect(saved, route)
        /\ boot' = NoSetup /\ data' = Cleared
    BY DEF PageLoad
  <2>2. saved \in Issued \cup {None} /\ route \in Pages \cup {"/login"}
    BY DEF Signed, BrowserOK, TabOK
  <2>3. route' \in Pages \cup {"/login"} /\ (route' = "/login" <=> saved = None)
    BY <2>1, <2>2, AuthAssumption DEF AuthAssumption, Redirect
  <2>4. data' \in [Lists -> Issued' \cup {None}]
    BY <2>1 DEF Cleared
  <2>5. boot' \in [required : BOOLEAN, steps : SUBSET Steps]
    BY <2>1 DEF NoSetup
  <2> QED BY <1>1, <2>1, <2>2, <2>3, <2>4, <2>5 DEF TabOK, TokensAgree
<1>5. CallsOK'
  <2>1. auth' = saved
    BY DEF PageLoad
  <2>2. CASE saved = None
    <3>1. calls' = {}
      BY <2>2 DEF PageLoad
    <3> QED BY <3>1 DEF CallsOK, GoodCalls
  <2>3. CASE saved # None
    <3> DEFINE x == Call("logout", saved, FALSE, {})
               ld == Load(saved, ok, steps)
    <3>1. saved \in Issued
      BY <2>3, StateFacts
    <3>2. GoodCalls(ld, Issued, saved)
      BY <1>1, <3>1, LoadGood
    <3>3. GoodCall(x, Issued, saved)
      <4>1. "logout" \in Kinds \ {"login", "passkey"} /\ {} \in SUBSET Steps
        BY DEF Kinds
      <4> QED BY <1>1, <2>3, <3>1, <4>1, GoodCallOf
    <3>4. calls' = ld \cup (IF e THEN {x} ELSE {})
      BY <2>3 DEF PageLoad
    <3> HIDE DEF x, ld
    <3>5. GoodCalls(calls', Issued, saved)
      BY <3>2, <3>3, <3>4 DEF GoodCalls
    <3> QED BY <1>1, <2>1, <3>5 DEF CallsOK
  <2> QED BY <2>2, <2>3
<1> QED BY <1>2, <1>3, <1>4, <1>5

(* A sign-in is answered with a token.                                      *)
LEMMA SignedInStep ==
  ASSUME Signed, NEW c \in calls, c.kind \in {"login", "passkey"},
         NEW t \in Fresh, SignedIn(t, c.user, calls \ {c}),
         authToken' = t, mfa' = "no"
  PROVE  Signed'
<1>1. c.user \in Users /\ ServerOK /\ Issue(t, c.user)
  BY StateFacts DEF GoodCalls, GoodCall, SignedIn, Signed
<1>2. ServerOK' /\ t \notin Issued /\ Issued' = Issued \cup {t} /\ t \in Tokens
  BY <1>1, IssueStep
<1>3. t # None /\ Issued \in SUBSET Tokens /\ Issued' \in SUBSET Tokens
  BY <1>2, NoneIsNone, StateFacts
<1>4. /\ auth' = t /\ saved' = t /\ boot' = SetupOf(setup[c.user])
      /\ route' = takeReturnTo /\ returnTo' = None
      /\ calls' = Cleanup(calls \ {c}) \cup Load(t, TRUE, setup[c.user])
      /\ UNCHANGED <<other, data, recent, signedOut>>
  BY DEF SignedIn, navigate
<1>5. BrowserOK'
  <2>1. other \in Issued \cup {None} /\ signedOut \subseteq Issued
    BY DEF Signed, BrowserOK
  <2> QED BY <1>2, <1>4, <2>1 DEF BrowserOK, StaysSignedOut
<1>6. setup[c.user] \in SUBSET Steps
  BY <1>1 DEF ServerOK
<1>7. TabOK'
  <2>1. takeReturnTo \in Pages /\ "/login" \notin Pages
    BY StateFacts, AuthAssumption DEF AuthAssumption
  <2>2. boot' \in [required : BOOLEAN, steps : SUBSET Steps]
    BY <1>4, <1>6 DEF SetupOf
  <2>3. data' \in [Lists -> Issued' \cup {None}]
    BY <1>2, <1>4 DEF Signed, TabOK
  <2> QED BY <1>2, <1>3, <1>4, <2>1, <2>2, <2>3 DEF TabOK, TokensAgree
<1>8. FormOK'
  BY <1>4 DEF FormOK, MfaSteps, Signed
<1>9. CallsOK'
  <2> DEFINE ld == Load(t, TRUE, setup[c.user])
             cl == Cleanup(calls \ {c})
  <2>1. GoodCalls(calls \ {c}, Issued', auth)
    BY <1>2, StateFacts, GoodGrows
  <2>2. GoodCalls(cl, Issued', t)
    BY <1>3, <2>1, CleanupGood
  <2>3. GoodCalls(ld, Issued', t)
    BY <1>2, <1>3, <1>6, LoadGood
  <2> HIDE DEF ld, cl
  <2>4. GoodCalls(cl \cup ld, Issued', t)
    BY <2>2, <2>3, GoodJoin
  <2> QED BY <1>4, <2>4 DEF CallsOK, ld, cl
<1> QED BY <1>2, <1>5, <1>7, <1>8, <1>9 DEF Signed

(* A step that only sends or drops requests, and may touch the form.        *)
LEMMA RequestStep ==
  ASSUME Signed, UNCHANGED <<server, saved, other, signedOut, tab>>,
         returnTo' \in Pages \cup {None}, FormOK',
         GoodCalls(calls', Issued, auth)
  PROVE  Signed'
<1> USE DEF server, tab
<1>1. Issued' = Issued
  BY DEF Issued
<1>2. ServerOK'
  BY <1>1 DEF Signed, ServerOK, Numbered
<1>3. BrowserOK'
  BY <1>1 DEF Signed, BrowserOK, StaysSignedOut
<1>4. TabOK'
  BY <1>1 DEF Signed, TabOK, TokensAgree
<1> QED BY <1>1, <1>2, <1>3, <1>4 DEF Signed, CallsOK

(* The forms and the header send a request.                                 *)
LEMMA SendSteps ==
  ASSUME Signed
  PROVE  /\ \A u \in Users : SubmitLogin(u) \/ SubmitPasskey(u) => Signed'
         /\ \A r \in BOOLEAN : StartLogout(r) => Signed'
         /\ \A l \in Lists : Poll(l) => Signed'
         /\ \A s \in Steps : SubmitSetup(s) => Signed'
<1>1. /\ Issued \in SUBSET Tokens /\ authToken = auth
      /\ GoodCalls(calls, Issued, auth) /\ auth \in Issued \cup {None}
      /\ returnTo \in Pages \cup {None} /\ FormOK
  BY StateFacts DEF Signed, BrowserOK
<1>2. ASSUME NEW x, GoodCall(x, Issued, auth), calls' = calls \cup {x},
             UNCHANGED <<server, saved, other, tab, mfa, recent, signedOut>>,
             returnTo' \in Pages \cup {None}
      PROVE  Signed'
  <2>1. GoodCalls(calls', Issued, auth)
    BY <1>1, <1>2 DEF GoodCalls
  <2>2. FormOK'
    BY <1>1, <1>2 DEF FormOK
  <2> QED BY <1>2, <2>1, <2>2, RequestStep
<1>3. ASSUME NEW u \in Users, NEW k \in {"login", "passkey"}, auth = None,
             calls' = calls \cup {SentFor(k, u)},
             UNCHANGED <<server, browser, tab, mfa, recent, signedOut>>
      PROVE  Signed'
  <2>1. GoodCall(SentFor(k, u), Issued, auth)
    BY <1>1, <1>3, GoodSentFor
  <2> QED BY <1>1, <1>2, <1>3, <2>1 DEF browser
<1>4. ASSUME NEW u \in Users, SubmitLogin(u) \/ SubmitPasskey(u)
      PROVE  Signed'
  BY <1>3, <1>4 DEF SubmitLogin, SubmitPasskey
<1>5. ASSUME NEW r \in BOOLEAN, StartLogout(r)
      PROVE  Signed'
  <2>1. "logout" \in Kinds \ {"login", "passkey"} /\ {} \in SUBSET Steps
    BY DEF Kinds
  <2>2. auth # None /\ Sent("logout", {}) = Call("logout", auth, FALSE, {})
    BY <1>1, <1>5 DEF StartLogout, Sent
  <2>3. GoodCall(Sent("logout", {}), Issued, auth)
    BY <1>1, <2>1, <2>2, GoodCallOf
  <2>4. returnTo' \in Pages \cup {None}
    BY <1>1, <1>5, StateFacts DEF StartLogout
  <2> QED BY <1>2, <1>5, <2>3, <2>4 DEF StartLogout
<1>6. ASSUME NEW l \in Lists, Poll(l)
      PROVE  Signed'
  <2> DEFINE b == authToken \in live /\ Owed(authToken) = {}
             x == Served(l, authToken, authToken \in live, Owed(authToken))
  <2>1. x = Call(l, auth, b, {}) /\ b \in BOOLEAN
    BY <1>1 DEF Served
  <2>2. /\ calls' = calls \cup {x}
        /\ UNCHANGED <<server, browser, tab, mfa, recent, signedOut>>
    BY <1>6 DEF Poll
  <2> HIDE DEF b, x
  <2>3. l \in Kinds \ {"login", "passkey"} /\ l # "logout" /\ {} \in SUBSET Steps
    BY AuthAssumption DEF AuthAssumption, Kinds
  <2>4. GoodCall(x, Issued, auth)
    BY <1>1, <2>1, <2>3, GoodCallOf
  <2> QED BY <1>1, <1>2, <2>2, <2>4 DEF browser
<1>7. ASSUME NEW s \in Steps, SubmitSetup(s)
      PROVE  Signed'
  <2> DEFINE k == IF s = "mfa" THEN "factor" ELSE "password"
             st == IF s # "mfa" /\ boot.required THEN boot.steps ELSE {}
             x == Call(k, auth, FALSE, st)
  <2>1. boot.steps \in SUBSET Steps
    BY DEF Signed, TabOK
  <2>2. k \in Kinds \ {"login", "passkey"} /\ k # "logout" /\ st \in SUBSET Steps
    BY <2>1 DEF Kinds
  <2>3. calls' = calls \cup {x}
    BY <1>1, <1>7 DEF SubmitSetup, Sent
  <2>4. UNCHANGED <<server, browser, tab, mfa, recent, signedOut>>
    BY <1>7 DEF SubmitSetup
  <2>5. GoodCall(x, Issued, auth)
    <3> HIDE DEF k, st
    <3> QED BY <1>1, <2>2, GoodCallOf
  <2> HIDE DEF x
  <2> QED BY <1>1, <1>2, <2>3, <2>4, <2>5 DEF browser
<1> QED BY <1>4, <1>5, <1>6, <1>7

(* A 401: the tab is signed out, or one did so less than 1.5 s ago.         *)
LEMMA UnauthorizedStep ==
  ASSUME Signed, NEW cs \in SUBSET calls, notifyUnauthorized(cs),
         UNCHANGED <<server, returnTo, other, signedOut>>
  PROVE  Signed'
<1>1. CASE recent /\ calls' = cs /\ UNCHANGED <<saved, tab, mfa, recent>>
  <2>1. GoodCalls(calls', Issued, auth)
    BY <1>1, StateFacts, GoodGrows
  <2>2. FormOK' /\ returnTo' \in Pages \cup {None}
    BY <1>1 DEF FormOK, Signed, BrowserOK
  <2> QED BY <1>1, <2>1, <2>2, RequestStep
<1>2. CASE /\ ~recent /\ recent' = TRUE /\ authToken' = None /\ saved' = None
           /\ onUnauthorized(cs)
  <2>1. TabOK' /\ FormOK' /\ CallsOK'
    <3>1. recent' \in BOOLEAN /\ UNCHANGED owner
      BY <1>2 DEF server
    <3> QED BY <1>2, <3>1, SignedOutTab DEF onUnauthorized, navigate
  <2>2. Issued' = Issued
    BY DEF server, Issued
  <2>3. ServerOK'
    BY <2>2 DEF Signed, ServerOK, Numbered, server
  <2>4. BrowserOK'
    <3>1. signedOut \subseteq Issued /\ None \notin Issued
      BY NoneIsNone DEF Signed, BrowserOK, Issued
    <3> QED BY <1>2, <2>2, <3>1 DEF Signed, BrowserOK, StaysSignedOut
  <2> QED BY <2>1, <2>3, <2>4 DEF Signed
<1> QED BY <1>1, <1>2 DEF notifyUnauthorized

(* A sign-in form is answered: a token, a further factor, or a refusal.     *)
LEMMA LoginStep ==
  ASSUME Signed, NEW c \in calls, onLogin(c) \/ onLoginWithPasskey(c)
  PROVE  Signed'
<1>1. ASSUME calls' = calls \ {c}, mfa' \in MfaSteps,
             UNCHANGED <<server, browser, tab, recent, signedOut>>
      PROVE  Signed'
  <2>1. GoodCalls(calls', Issued, auth)
    BY <1>1, StateFacts, GoodGrows
  <2>2. FormOK' /\ returnTo' \in Pages \cup {None}
    BY <1>1 DEF FormOK, Signed, BrowserOK, browser
  <2> QED BY <1>1, <2>1, <2>2, RequestStep DEF browser
<1>2. ASSUME NEW t \in Fresh, SignedIn(t, c.user, calls \ {c}), authToken' = t,
             mfa' = "no", c.kind \in {"login", "passkey"}
      PROVE  Signed'
  BY <1>2, SignedInStep
<1>3. mfa \in MfaSteps
  BY DEF Signed, FormOK
<1>4. CASE onLogin(c)
  BY <1>1, <1>2, <1>3, <1>4 DEF onLogin, MfaSteps
<1>5. CASE onLoginWithPasskey(c)
  BY <1>1, <1>2, <1>3, <1>5 DEF onLoginWithPasskey, MfaSteps
<1> QED BY <1>4, <1>5

(* A sign-out is answered, or its request failed.                           *)
LEMMA LogoutStep ==
  ASSUME Signed, NEW c \in calls, onLogout(c)
  PROVE  Signed'
<1>1. TabOK' /\ FormOK' /\ CallsOK'
  <2>1. recent' \in BOOLEAN
    BY DEF onLogout, Signed, FormOK
  <2>2. calls \ {c} \in SUBSET calls /\ UNCHANGED owner
    BY DEF onLogout
  <2> QED BY <2>1, <2>2, SignedOutTab DEF onLogout, navigate
<1>2. Issued' = Issued /\ None \notin Issued
  BY NoneIsNone DEF onLogout, Issued
<1>3. ServerOK'
  <2>1. live' \subseteq live /\ UNCHANGED <<owner, setup>>
    BY DEF onLogout
  <2> QED BY <1>2, <2>1 DEF Signed, ServerOK, Numbered
<1>4. BrowserOK'
  <2>1. c.tok \in Issued
    BY StateFacts DEF onLogout, GoodCalls, GoodCall
  <2>2. /\ saved' = None /\ signedOut' = signedOut \cup {c.tok}
        /\ UNCHANGED <<returnTo, other>>
    BY DEF onLogout
  <2> QED BY <1>2, <2>1, <2>2 DEF Signed, BrowserOK, StaysSignedOut
<1> QED BY <1>1, <1>3, <1>4 DEF Signed

(* What a step of the first-login setup leaves.                             *)
LEMMA AfterSetupStep ==
  ASSUME Signed, ServerOK', UNCHANGED <<owner, saved, other, signedOut>>,
         NEW left \in SUBSET Steps, NEW cs \in SUBSET calls, NEW acc,
         AfterSetup(left, cs, acc)
  PROVE  Signed'
<1>1. CASE auth # None /\ boot.required /\ left = {}
  <2> DEFINE st == IF saved = None THEN {} ELSE setup'[owner[saved]]
             ok == saved \in acc
  <2>1. st \in SUBSET Steps
    <3>1. CASE saved = None
      BY <3>1
    <3>2. CASE saved # None
      <4>1. owner[saved] \in Users
        BY <3>2, StateFacts
      <4> QED BY <3>2, <4>1 DEF ServerOK
    <3> QED BY <3>1, <3>2
  <2>2. PageLoad(ok, st, FALSE)
    BY <1>1, Zenon DEF AfterSetup
  <2>3. ok \in BOOLEAN
    OBVIOUS
  <2> HIDE DEF st, ok
  <2>4. BrowserOK' /\ TabOK' /\ FormOK' /\ CallsOK'
    BY <2>1, <2>2, <2>3, PageLoadStep
  <2> QED BY <2>4 DEF Signed
<1>2. CASE ~(auth # None /\ boot.required /\ left = {})
  <2>1. /\ boot' = SetupOf(left) /\ calls' = cs
        /\ UNCHANGED <<auth, authToken, route, data, mfa, recent, returnTo>>
    BY <1>2 DEF AfterSetup
  <2>2. Issued' = Issued
    BY DEF Issued
  <2>3. BrowserOK'
    BY <2>1, <2>2 DEF Signed, BrowserOK, StaysSignedOut
  <2>4. boot' \in [required : BOOLEAN, steps : SUBSET Steps]
    BY <2>1 DEF SetupOf
  <2>5. TabOK'
    BY <2>1, <2>2, <2>4 DEF Signed, TabOK, TokensAgree
  <2>6. FormOK'
    BY <2>1 DEF Signed, FormOK
  <2>7. GoodCalls(cs, Issued, auth)
    BY StateFacts, GoodGrows
  <2> QED BY <2>1, <2>2, <2>3, <2>5, <2>6, <2>7 DEF Signed, CallsOK
<1> QED BY <1>1, <1>2

(* The two steps of the first-login setup, and of My account.               *)
LEMMA SetupSteps ==
  ASSUME Signed, NEW c \in calls, onChangePassword(c) \/ onAddFactor(c)
  PROVE  Signed'
<1>1. ServerOK /\ calls \ {c} \in SUBSET calls
  BY DEF Signed
<1>2. c.tok \in live
  BY DEF onChangePassword, onAddFactor
<1>3. owner[c.tok] \in Users
  BY <1>1, <1>2, StateFacts DEF ServerOK
<1> DEFINE u == owner[c.tok]
<1> HIDE DEF u
<1>4. ASSUME NEW s, setup' = [setup EXCEPT ![u] = @ \ {s}], live' \subseteq live,
             UNCHANGED owner
      PROVE  ServerOK' /\ setup'[u] \in SUBSET Steps
  <2>1. u \in Users
    BY <1>3 DEF u
  <2>2. setup' \in [Users -> SUBSET Steps]
    BY <1>1, <1>4, <2>1 DEF ServerOK
  <2>3. Issued' = Issued
    BY <1>4 DEF Issued
  <2> QED BY <1>1, <1>4, <2>1, <2>2, <2>3 DEF ServerOK, Numbered
<1>5. CASE onChangePassword(c)
  <2>1. /\ setup' = [setup EXCEPT ![u] = @ \ {"password"}] /\ live' \subseteq live
        /\ AfterSetup(setup'[u], calls \ {c}, live')
        /\ UNCHANGED <<owner, saved, other, signedOut>>
    BY <1>5 DEF onChangePassword, u
  <2>2. ServerOK' /\ setup'[u] \in SUBSET Steps
    BY <1>4, <2>1
  <2> QED BY <1>1, <2>1, <2>2, AfterSetupStep
<1>6. CASE onAddFactor(c)
  <2>1. /\ setup' = [setup EXCEPT ![u] = @ \ {"mfa"}] /\ live' \subseteq live
        /\ AfterSetup(setup'[u], calls \ {c}, live)
        /\ UNCHANGED <<owner, saved, other, signedOut>>
    BY <1>6 DEF onAddFactor, u
  <2>2. ServerOK' /\ setup'[u] \in SUBSET Steps
    BY <1>4, <2>1
  <2> QED BY <1>1, <2>1, <2>2, AfterSetupStep
<1> QED BY <1>5, <1>6

(* Another tab of the browser.                                              *)
LEMMA OtherTabStep ==
  ASSUME Signed, OtherTab
  PROVE  Signed'
<1>1. UNCHANGED <<returnTo, tab, mfa, calls, recent>>
  BY DEF OtherTab
<1>2. ASSUME Issued \subseteq Issued', ServerOK', BrowserOK'
      PROVE  Signed'
  <2>1. FormOK'
    BY <1>1 DEF Signed, FormOK
  <2>2. TabOK'
    BY <1>1, <1>2 DEF Signed, TabOK, TokensAgree, tab
  <2>3. GoodCalls(calls, Issued', auth)
    BY <1>2, StateFacts, GoodGrows
  <2> QED BY <1>1, <1>2, <2>1, <2>2, <2>3 DEF Signed, CallsOK, tab
<1>3. /\ saved \in Issued \cup {None} /\ other \in Issued \cup {None}
      /\ returnTo \in Pages \cup {None} /\ signedOut \subseteq Issued
      /\ saved \notin signedOut /\ ServerOK /\ None \notin Issued
  BY NoneIsNone DEF Signed, BrowserOK, StaysSignedOut, Issued
<1>4. CASE other' = saved /\ UNCHANGED <<server, saved, signedOut>>
  <2>1. Issued' = Issued
    BY <1>4 DEF Issued, server
  <2>2. ServerOK'
    BY <1>3, <1>4, <2>1 DEF ServerOK, Numbered, server
  <2>3. BrowserOK'
    BY <1>1, <1>3, <1>4, <2>1 DEF BrowserOK, StaysSignedOut
  <2> QED BY <1>2, <2>1, <2>2, <2>3
<1>5. ASSUME NEW u \in Users, NEW t \in Fresh, Issue(t, u), other' = t, saved' = t,
             UNCHANGED signedOut
      PROVE  Signed'
  <2>1. ServerOK' /\ t \notin Issued /\ Issued' = Issued \cup {t}
    BY <1>3, <1>5, IssueStep
  <2>2. BrowserOK'
    BY <1>1, <1>3, <1>5, <2>1 DEF BrowserOK, StaysSignedOut
  <2> QED BY <1>2, <2>1, <2>2
<1>6. CASE /\ other # None /\ live' = live \ {other} /\ saved' = None /\ other' = None
           /\ signedOut' = signedOut \cup {other} /\ UNCHANGED <<owner, setup>>
  <2>1. Issued' = Issued
    BY <1>6 DEF Issued
  <2>2. ServerOK'
    BY <1>3, <1>6, <2>1 DEF ServerOK, Numbered
  <2>3. BrowserOK'
    BY <1>1, <1>3, <1>6, <2>1 DEF BrowserOK, StaysSignedOut
  <2> QED BY <1>2, <2>1, <2>2, <2>3
<1> QED BY <1>4, <1>5, <1>6 DEF OtherTab

(* Every step keeps the invariant.                                          *)
LEMMA SignedStep == Signed /\ [Next]_vars => Signed'
<1> SUFFICES ASSUME Signed, [Next]_vars PROVE Signed'
  OBVIOUS
<1>1. /\ GoodCalls(calls, Issued, auth) /\ returnTo \in Pages \cup {None}
      /\ FormOK /\ ServerOK /\ BrowserOK /\ TabOK
  BY StateFacts DEF Signed, BrowserOK
<1>2. CASE \E u \in Users : SubmitLogin(u) \/ SubmitPasskey(u)
  BY <1>2, SendSteps
<1>3. CASE onCancelMfa
  <2>1. /\ mfa' = "no" /\ UNCHANGED <<server, browser, tab, calls, recent, signedOut>>
    BY <1>3 DEF onCancelMfa
  <2>2. FormOK'
    BY <1>1, <2>1 DEF FormOK, MfaSteps
  <2> QED BY <1>1, <2>1, <2>2, RequestStep DEF browser
<1>4. CASE Reload
  <2>1. PICK e \in BOOLEAN : PageLoad(saved \in live, Owed(saved), e)
    BY <1>4 DEF Reload
  <2>2. UNCHANGED <<server, saved, other, signedOut>>
    BY <1>4 DEF Reload
  <2>3. Owed(saved) \in SUBSET Steps
    BY <1>1, StateFacts DEF Owed, ServerOK
  <2> DEFINE ok == saved \in live
  <2>4. ok \in BOOLEAN
    OBVIOUS
  <2>5. UNCHANGED <<owner, saved, other, signedOut>>
    BY <2>2 DEF server
  <2> HIDE DEF ok
  <2>6. BrowserOK' /\ TabOK' /\ FormOK' /\ CallsOK'
    BY <2>1, <2>3, <2>4, <2>5, PageLoadStep DEF ok
  <2>7. ServerOK'
    BY <1>1, <2>2 DEF ServerOK, Numbered, Issued, server
  <2> QED BY <2>6, <2>7 DEF Signed
<1>5. CASE DebounceEnds
  <2>1. recent' = FALSE /\ UNCHANGED <<server, browser, tab, mfa, calls, signedOut>>
    BY <1>5 DEF DebounceEnds
  <2>2. FormOK'
    BY <1>1, <2>1 DEF FormOK
  <2> QED BY <1>1, <2>1, <2>2, RequestStep DEF browser
<1>6. CASE ClickLogout \/ Reconnect \/ ExpiryTimer
  BY <1>6, SendSteps DEF ClickLogout, Reconnect, ExpiryTimer
<1>7. ASSUME NEW p, route' = p, p \in Pages \cup {"/login"},
             p = "/login" <=> auth = None,
             UNCHANGED <<server, browser, auth, authToken, boot, data, mfa, calls,
                         recent, signedOut>>
      PROVE  Signed'
  <2>1. Issued' = Issued
    BY <1>7 DEF Issued, server
  <2>2. ServerOK'
    BY <1>1, <1>7, <2>1 DEF ServerOK, Numbered, server
  <2>3. BrowserOK'
    BY <1>1, <1>7, <2>1 DEF BrowserOK, StaysSignedOut, browser
  <2>4. TabOK'
    BY <1>1, <1>7, <2>1 DEF TabOK, TokensAgree
  <2>5. FormOK' /\ CallsOK'
    BY <1>1, <1>7, <2>1 DEF FormOK, CallsOK
  <2> QED BY <2>2, <2>3, <2>4, <2>5 DEF Signed
<1>8. ASSUME NEW p \in Pages, go(p)
      PROVE  Signed'
  <2>1. p # "/login"
    BY AuthAssumption DEF AuthAssumption
  <2> QED BY <1>7, <1>8, <2>1 DEF go, navigate
<1>9. ASSUME NEW p \in Pages \cup {"/login"}, handlePopState(p)
      PROVE  Signed'
  <2>1. /\ Redirect(auth, p) \in Pages \cup {"/login"}
        /\ Redirect(auth, p) = "/login" <=> auth = None
    BY AuthAssumption DEF AuthAssumption, Redirect
  <2> QED BY <1>7, <1>9, <2>1 DEF handlePopState
<1>10. CASE \/ \E l \in Lists : Poll(l)
            \/ \E s \in Steps : SubmitSetup(s)
  BY <1>10, SendSteps
<1>11. ASSUME NEW t \in Tokens, Revoke(t)
       PROVE  Signed'
  <2>1. live' \subseteq live /\ UNCHANGED <<owner, setup, browser, tab, mfa, calls,
                                          recent, signedOut>>
    BY <1>11 DEF Revoke
  <2>2. Issued' = Issued
    BY <2>1 DEF Issued
  <2>3. ServerOK'
    BY <1>1, <2>1, <2>2 DEF ServerOK, Numbered
  <2>4. BrowserOK'
    BY <1>1, <2>1, <2>2 DEF BrowserOK, StaysSignedOut, browser
  <2>5. TabOK'
    BY <1>1, <2>1, <2>2 DEF TabOK, TokensAgree, tab
  <2>6. FormOK' /\ CallsOK'
    BY <1>1, <2>1, <2>2 DEF FormOK, CallsOK, tab
  <2> QED BY <2>3, <2>4, <2>5, <2>6 DEF Signed
<1>12. ASSUME NEW c \in calls, ListAnswer(c)
       PROVE  Signed'
  <2>1. /\ UNCHANGED <<server, browser, auth, authToken, route, boot, mfa, recent,
                      signedOut>>
        /\ calls' = calls \ {c} /\ c.kind \in Lists
        /\ data' = IF c.active THEN [data EXCEPT ![c.kind] = c.tok] ELSE data
    BY <1>12 DEF ListAnswer
  <2>2. Issued' = Issued
    BY <2>1 DEF Issued, server
  <2>3. ServerOK'
    BY <1>1, <2>1, <2>2 DEF ServerOK, Numbered, server
  <2>4. BrowserOK'
    BY <1>1, <2>1, <2>2 DEF BrowserOK, StaysSignedOut, browser
  <2>5. c.tok \in Issued \cup {None}
    BY <1>1 DEF GoodCalls, GoodCall
  <2>6. data' \in [Lists -> Issued \cup {None}]
    BY <1>1, <2>1, <2>5 DEF TabOK
  <2>7. TabOK'
    BY <1>1, <2>1, <2>2, <2>6 DEF TabOK, TokensAgree
  <2>8. FormOK'
    BY <1>1, <2>1 DEF FormOK
  <2>9. CallsOK'
    BY <1>1, <2>1, <2>2 DEF GoodCalls, CallsOK
  <2> QED BY <2>3, <2>4, <2>7, <2>8, <2>9 DEF Signed
<1>13. ASSUME NEW c \in calls, BootstrapAnswer(c)
       PROVE  Signed'
  <2>1. /\ UNCHANGED <<server, browser, auth, authToken, route, data, mfa, recent,
                      signedOut>>
        /\ calls' = calls \ {c}
        /\ boot' = IF c.active THEN SetupOf(c.steps) ELSE boot
    BY <1>13 DEF BootstrapAnswer
  <2>2. Issued' = Issued
    BY <2>1 DEF Issued, server
  <2>3. ServerOK'
    BY <1>1, <2>1, <2>2 DEF ServerOK, Numbered, server
  <2>4. BrowserOK'
    BY <1>1, <2>1, <2>2 DEF BrowserOK, StaysSignedOut, browser
  <2>5. c.steps \in SUBSET Steps
    BY <1>1 DEF GoodCalls, GoodCall, CallType
  <2>6. SetupOf(c.steps) \in [required : BOOLEAN, steps : SUBSET Steps]
    BY <2>5 DEF SetupOf
  <2>7. TabOK'
    BY <1>1, <2>1, <2>2, <2>6 DEF TabOK, TokensAgree
  <2>8. FormOK'
    BY <1>1, <2>1 DEF FormOK
  <2>9. CallsOK'
    BY <1>1, <2>1, <2>2 DEF GoodCalls, CallsOK
  <2> QED BY <2>3, <2>4, <2>7, <2>8, <2>9 DEF Signed
<1>14. ASSUME NEW c \in calls, Unauthorized(c) \/ Mistyped(c)
       PROVE  Signed'
  <2>1. calls \ {c} \in SUBSET calls
    OBVIOUS
  <2> QED BY <1>14, <2>1, UnauthorizedStep DEF Unauthorized, Mistyped
<1>15. ASSUME NEW c \in calls, CallFails(c)
       PROVE  Signed'
  <2>1. /\ calls' = calls \ {c}
        /\ UNCHANGED <<server, browser, tab, mfa, recent, signedOut>>
    BY <1>15 DEF CallFails
  <2>2. FormOK' /\ GoodCalls(calls', Issued, auth)
    BY <1>1, <2>1 DEF FormOK, GoodCalls
  <2> QED BY <1>1, <2>1, <2>2, RequestStep DEF browser
<1>16. ASSUME NEW c \in calls,
              \/ onLogin(c) \/ onLoginWithPasskey(c) \/ onLogout(c)
              \/ onChangePassword(c) \/ onAddFactor(c)
       PROVE  Signed'
  BY <1>16, LoginStep, LogoutStep, SetupSteps
<1>17. CASE UNCHANGED vars
  <2>1. UNCHANGED <<server, browser, tab, mfa, calls, recent, signedOut>>
    BY <1>17 DEF vars
  <2>2. FormOK'
    BY <1>1, <2>1 DEF FormOK
  <2> QED BY <1>1, <2>1, <2>2, RequestStep DEF browser
<1> QED
  BY <1>2, <1>3, <1>4, <1>5, <1>6, <1>8, <1>9, <1>10, <1>11, <1>12, <1>13, <1>14,
     <1>15, <1>16, <1>17, OtherTabStep DEF Next

(* A tab opened for the first time.                                         *)
LEMMA SignedInit == Init => Signed
<1> SUFFICES ASSUME Init PROVE Signed
  OBVIOUS
<1> USE DEF Init
<1>1. Issued = {}
  BY DEF Issued
<1>2. ServerOK
  <2>1. 0 \in 0..MaxTokens /\ Issued = 1..0
    BY <1>1, AuthAssumption DEF AuthAssumption
  <2>2. Numbered
    BY <2>1 DEF Numbered
  <2> QED BY <1>1, <2>2, AuthAssumption DEF AuthAssumption, ServerOK, Steps
<1>3. BrowserOK
  BY <1>1 DEF BrowserOK, StaysSignedOut
<1>4. TabOK
  BY <1>1 DEF TabOK, TokensAgree, Cleared, NoSetup
<1>5. FormOK /\ CallsOK
  BY DEF FormOK, CallsOK, GoodCalls, MfaSteps
<1> QED BY <1>2, <1>3, <1>4, <1>5 DEF Signed

(* The invariant implies the types.                                         *)
LEMMA SignedTypes == Signed => TypeOK
<1> SUFFICES ASSUME Signed PROVE TypeOK
  OBVIOUS
<1>1. calls \subseteq CallType /\ Issued \subseteq Tokens
  BY StateFacts DEF GoodCalls, GoodCall
<1> QED
  BY <1>1
  DEF TypeOK, Signed, ServerOK, BrowserOK, TabOK, FormOK, TokensAgree, CallType

(* The variables of the tab, the browser and the server keep their types.   *)
THEOREM AuthTypesAlways == Spec => []TypeOK
BY SignedInit, SignedStep, SignedTypes, PTL DEF Spec

(* The account on screen is the one requests are made for, in whatever      *)
(* order sign-ins, sign-outs and refusals are answered (App.jsx, api.js).   *)
THEOREM TokensAgreeAlways == Spec => []TokensAgree
<1>1. Signed => TokensAgree
  BY DEF Signed, TabOK
<1> QED BY <1>1, SignedInit, SignedStep, PTL DEF Spec

(* A token that was signed out never is the saved one again: sign-ins only  *)
(* save fresh tokens, and every sign-out clears the storage (App.jsx).      *)
THEOREM StaysSignedOutAlways == Spec => []StaysSignedOut
<1>1. Signed => StaysSignedOut
  BY DEF Signed, BrowserOK
<1> QED BY <1>1, SignedInit, SignedStep, PTL DEF Spec

(* The lists on screen are left, cleared, or replaced by an answer.         *)
LEMMA DataStep ==
  ASSUME [Next]_vars
  PROVE  data' = data \/ data' = Cleared \/ \E c \in calls : ListAnswer(c)
<1>1. ASSUME NEW cs, notifyUnauthorized(cs)
      PROVE  data' = data \/ data' = Cleared
  BY <1>1 DEF notifyUnauthorized, onUnauthorized, tab
<1>2. ASSUME NEW left, NEW cs, NEW acc, AfterSetup(left, cs, acc)
      PROVE  data' = data \/ data' = Cleared
  BY <1>2, Zenon DEF AfterSetup, PageLoad
<1>3. CASE \/ \E u \in Users : SubmitLogin(u) \/ SubmitPasskey(u)
           \/ onCancelMfa \/ DebounceEnds \/ OtherTab
           \/ \E l \in Lists : Poll(l)
           \/ \E s \in Steps : SubmitSetup(s)
           \/ \E t \in Tokens : Revoke(t)
           \/ \E c \in calls : CallFails(c)
  BY <1>3, Zenon DEF SubmitLogin, SubmitPasskey, onCancelMfa, DebounceEnds, OtherTab,
              Poll, SubmitSetup, Revoke, CallFails, tab
<1>4. CASE ClickLogout \/ Reconnect \/ ExpiryTimer
  BY <1>4 DEF ClickLogout, Reconnect, ExpiryTimer, StartLogout, tab
<1>5. CASE Reload
  BY <1>5 DEF Reload, PageLoad
<1>6. CASE \/ \E p \in Pages : go(p)
           \/ \E p \in Pages \cup {"/login"} : handlePopState(p)
  BY <1>6 DEF go, handlePopState
<1>7. CASE \E c \in calls : onLogin(c) \/ onLoginWithPasskey(c)
  BY <1>7, Zenon DEF onLogin, onLoginWithPasskey, SignedIn, tab
<1>8. CASE \E c \in calls : onLogout(c) \/ BootstrapAnswer(c)
  BY <1>8, Zenon DEF onLogout, BootstrapAnswer
<1>9. CASE \E c \in calls : Unauthorized(c) \/ Mistyped(c)
  BY <1>1, <1>9, Zenon DEF Unauthorized, Mistyped
<1>10. CASE \E c \in calls : onChangePassword(c) \/ onAddFactor(c)
  BY <1>2, <1>10, Zenon DEF onChangePassword, onAddFactor
<1>11. CASE UNCHANGED vars
  BY <1>11 DEF vars, tab
<1> QED
  BY <1>3, <1>4, <1>5, <1>6, <1>7, <1>8, <1>9, <1>10, <1>11, Zenon DEF Next

(* A list is put on screen only while the token it was loaded with is       *)
(* signed in: the cleanup of the effects outlasts every order of answers    *)
(* (the `active` flag of App.jsx).                                          *)
THEOREM FreshListsAlways == Spec => FreshLists
<1> DEFINE Arrives == \A l \in Lists : data'[l] \notin {data[l], None} => data'[l] = auth'
<1>1. Signed /\ [Next]_vars => Arrives
  <2> SUFFICES ASSUME Signed, [Next]_vars, NEW l \in Lists,
                      data'[l] # data[l], data'[l] # None
               PROVE  data'[l] = auth'
    OBVIOUS
  <2>1. PICK c \in calls : ListAnswer(c)
    BY DataStep DEF Cleared
  <2>2. data \in [Lists -> Issued \cup {None}]
    BY DEF Signed, TabOK
  <2>3. c.kind = l /\ c.active /\ data'[l] = c.tok /\ auth' = auth
    BY <2>1, <2>2 DEF ListAnswer
  <2>4. c.tok = auth
    BY <2>3, StateFacts DEF GoodCalls, GoodCall
  <2> QED BY <2>3, <2>4
<1>2. Signed /\ [Next]_vars => [Arrives]_vars
  BY <1>1
<1> QED BY <1>2, SignedInit, SignedStep, PTL DEF Spec, FreshLists
=============================================================================
