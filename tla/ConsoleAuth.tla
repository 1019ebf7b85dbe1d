----------------------------- MODULE ConsoleAuth -----------------------------
(***************************************************************************)
(* Who is signed in, in one browser tab of the web console: sign-in with a *)
(* password, a code or a passkey, sign-out, expiry, answers 401, reload,   *)
(* first-login setup, and the lists that are loaded for the account.       *)
(*                                                                         *)
(* The token is kept three times: in React state (auth), in api.js         *)
(* (authToken, the one requests carry) and in localStorage (saved), which  *)
(* every tab of the browser shares.  Requests are asynchronous: a call is  *)
(* a record in calls from the moment it is sent until its answer is        *)
(* handled, and answers come in any order, late or never.  A React state   *)
(* change and the effects it triggers are one step; so are a request that  *)
(* nothing waits behind and its answer.  Wall-clock time is left out:      *)
(* a timer may fire whenever it is armed.                                  *)
(***************************************************************************)
EXTENDS Naturals, FiniteSets

CONSTANTS
  Users,      \* accounts of the bastion
  Pages,      \* paths of the shell
  Home,       \* the page "/"
  Lists,      \* lists that App loads in an effect of auth.token
  FirstSetup, \* first sign-in steps the server asks of each account
  MaxTokens,  \* bound: sign-ins, hence tokens
  MaxCalls,   \* bound: requests not answered when a further one is sent
  None

ASSUME AuthAssumption ==
  /\ Home \in Pages /\ "/login" \notin Pages
  /\ MaxTokens \in Nat \ {0} /\ MaxCalls \in Nat \ {0}
  /\ None \notin Users \cup Pages \cup Nat
  /\ FirstSetup \in [Users -> SUBSET {"password", "mfa"}]
  /\ Lists \cap {"bootstrap", "login", "passkey", "logout", "password", "factor"} = {}

Tokens == 1 .. MaxTokens
Steps == {"password", "mfa"}

VARIABLES
  owner,     \* server: account of each issued token
  live,      \* server: tokens it accepts
  setup,     \* server: first sign-in steps each account still owes
  saved,     \* localStorage 'endoriumfort_auth'
  returnTo,  \* sessionStorage 'endoriumfort_return_to'
  other,     \* token in the memory of another tab of this browser
  auth,      \* auth.token of this tab
  authToken, \* the token api.js puts on requests
  route,     \* the path shown
  mfa,       \* step of the sign-in form: twoFARequired, and whether
             \* webauthnLoginOptions holds a challenge
  boot,      \* bootstrapState
  data,      \* token each list on screen was loaded with
  calls,     \* requests of this tab that are not answered
  recent,    \* the last 401 was less than 1.5 s ago (lastUnauthorizedAt)
  signedOut  \* history: tokens that a completed sign-out ended

server == <<owner, live, setup>>
browser == <<saved, returnTo, other>>
tab == <<auth, authToken, route, boot, data>>
vars == <<server, browser, tab, mfa, calls, recent, signedOut>>

NoSetup == [required |-> FALSE, steps |-> {}]
SetupOf(steps) == [required |-> steps # {}, steps |-> steps]
MfaSteps == {"no", "code", "passkey"}
NoChallenge == IF mfa = "passkey" THEN "code" ELSE mfa
webauthnBusy == \E c \in calls : c.kind = "passkey"

(* A request: what it is, the token it carries, the account typed in the   *)
(* sign-in form (sign-in only), whether the effect that sent it is still   *)
(* current (`active`), whether the server had accepted it when it was sent *)
(* (loaders) and the setup steps that were due (as the server knew them,   *)
(* for "bootstrap"; as the tab showed them, for "password").               *)
Kinds == Lists \cup {"bootstrap", "login", "passkey", "logout", "password", "factor"}
Call(k, t, ok, steps) ==
  [kind |-> k, tok |-> t, user |-> None, active |-> TRUE, ok |-> ok, steps |-> steps]
Owed(t) == IF t = None THEN {} ELSE setup[owner[t]]
Sent(k, steps) == Call(k, authToken, FALSE, steps)
SentFor(k, u) == [Call(k, None, FALSE, {}) EXCEPT !.user = u]
MayCall == Cardinality(calls) < MaxCalls

(* Effects of auth.token.  The cleanup of every loader clears its `active` *)
(* flag; with a token the loaders start again.                             *)
Loaders == Lists \cup {"bootstrap"}
Cleanup(cs) == {IF c.kind \in Loaders THEN [c EXCEPT !.active = FALSE] ELSE c : c \in cs}
Served(l, t, ok, steps) == Call(l, t, ok /\ steps = {}, {})
Load(t, ok, steps) ==
  {Served(l, t, ok, steps) : l \in Lists} \cup {Call("bootstrap", t, ok, steps)}
Cleared == [l \in Lists |-> None]

MutRememberReturnTo(path) == path
rememberReturnTo(path) == IF path \in Pages THEN path ELSE returnTo
takeReturnTo == IF returnTo = None THEN Home ELSE returnTo

(* A change of path, and the effect that follows every change of the path  *)
(* or the token: no page but the login page without a token, and the login *)
(* page only without.                                                      *)
navigate(path) == route' = path
Redirect(token, path) ==
  IF token = None THEN "/login" ELSE IF path = "/login" THEN Home ELSE path

(* App's listener for 'endoriumfort:unauthorized', with the effects that   *)
(* follow from the empty token.                                            *)
onUnauthorized(cs) ==
  /\ auth' = None /\ navigate("/login") /\ boot' = NoSetup
  /\ mfa' = NoChallenge
  /\ data' = Cleared /\ calls' = Cleanup(cs)

MutNotifyUnauthorized(cs) == calls' = cs /\ UNCHANGED <<saved, tab, mfa, recent>>

(* api.js: the token of the request plays no part; any 401 signs the tab   *)
(* out, unless another one did within the last 1.5 s.                      *)
notifyUnauthorized(cs) ==
  \/ recent /\ calls' = cs /\ UNCHANGED <<saved, tab, mfa, recent>>
  \/ /\ ~recent /\ recent' = TRUE
     /\ authToken' = None /\ saved' = None
     /\ onUnauthorized(cs)

Issued == {t \in Tokens : owner[t] # None}
Fresh == {Cardinality(Issued) + 1} \cap Tokens
Issue(t, u) == owner' = [owner EXCEPT ![t] = u] /\ live' = live \cup {t} /\ UNCHANGED setup

(* What onLogin and onLoginWithPasskey do with a token.                    *)
SignedIn(t, u, cs) ==
  /\ Issue(t, u)
  /\ auth' = t /\ saved' = t /\ boot' = SetupOf(setup[u])
  /\ navigate(takeReturnTo) /\ returnTo' = None
  /\ calls' = Cleanup(cs) \cup Load(t, TRUE, setup[u])
  /\ UNCHANGED <<other, data, recent, signedOut>>

-----------------------------------------------------------------------------
Init ==
  /\ owner = [t \in Tokens |-> None] /\ live = {} /\ setup = FirstSetup
  /\ saved = None /\ returnTo = None /\ other = None
  /\ auth = None /\ authToken = None /\ route = "/login"
  /\ mfa = "no" /\ boot = NoSetup /\ data = Cleared
  /\ calls = {} /\ recent = FALSE /\ signedOut = {}

(* The sign-in form, first half of onLogin: there is no busy flag, so the  *)
(* form can be sent again, also for another account.                       *)
SubmitLogin(u) ==
  /\ auth = None /\ MayCall
  /\ calls' = calls \cup {SentFor("login", u)}
  /\ UNCHANGED <<server, browser, tab, mfa, recent, signedOut>>

(* Second half of onLogin: a second factor is asked for (with a passkey    *)
(* challenge or not), a token is given, or the sign-in is refused.         *)
onLogin(c) ==
  /\ c.kind = "login"
  /\ \/ /\ mfa' \in {"code", "passkey"}
        /\ calls' = calls \ {c}
        /\ UNCHANGED <<server, browser, tab, recent, signedOut>>
     \/ \E t \in Fresh :
          /\ SignedIn(t, c.user, calls \ {c})
          /\ authToken' = t
          /\ mfa' = "no"
     \/ /\ calls' = calls \ {c}
        /\ UNCHANGED <<server, browser, tab, mfa, recent, signedOut>>

(* The passkey button of the second step, disabled while busy or without a *)
(* challenge.                                                              *)
SubmitPasskey(u) ==
  /\ auth = None /\ mfa = "passkey" /\ ~webauthnBusy /\ MayCall
  /\ calls' = calls \cup {SentFor("passkey", u)}
  /\ UNCHANGED <<server, browser, tab, mfa, recent, signedOut>>

MutLoginWithPasskey(c) ==
  /\ c.kind = "passkey"
  /\ \/ \E t \in Fresh : SignedIn(t, c.user, calls \ {c}) /\ mfa' = "no" /\ UNCHANGED authToken
     \/ /\ mfa' \in IF mfa = "no" THEN {"no"} ELSE {"code", "passkey"}
        /\ calls' = calls \ {c}
        /\ UNCHANGED <<server, browser, tab, recent, signedOut>>

(* The rest of onLoginWithPasskey: a token is given, or the browser's      *)
(* ceremony fails or the server asks again, with a new challenge or none.  *)
onLoginWithPasskey(c) ==
  /\ c.kind = "passkey"
  /\ \/ \E t \in Fresh :
          /\ SignedIn(t, c.user, calls \ {c})
          /\ authToken' = t
          /\ mfa' = "no"
     \/ /\ mfa' \in IF mfa = "no" THEN {"no"} ELSE {"code", "passkey"}
        /\ calls' = calls \ {c}
        /\ UNCHANGED <<server, browser, tab, recent, signedOut>>

(* "Back" on the second step.                                              *)
onCancelMfa ==
  /\ auth = None /\ mfa # "no"
  /\ mfa' = "no"
  /\ UNCHANGED <<server, browser, tab, calls, recent, signedOut>>

(* First half of onLogout: by the user (also from the first-login dialog), *)
(* from the banner of the last minutes or by the expiry timer; the last    *)
(* two remember the page.                                                  *)
StartLogout(remember) ==
  /\ auth # None /\ MayCall
  /\ calls' = calls \cup {Sent("logout", {})}
  /\ returnTo' = IF remember THEN rememberReturnTo(route) ELSE returnTo
  /\ UNCHANGED <<server, saved, other, tab, mfa, recent, signedOut>>

ClickLogout == StartLogout(FALSE)
Reconnect == StartLogout(TRUE)
ExpiryTimer == StartLogout(TRUE)

MutLogout(c) ==
  /\ c.kind = "logout"
  /\ c.tok \in live /\ live' = live \ {c.tok}
  /\ auth' = None /\ authToken' = None /\ route' = "/login" /\ boot' = NoSetup
  /\ data' = Cleared /\ calls' = Cleanup(calls \ {c}) /\ signedOut' = signedOut \cup {c.tok}
  /\ UNCHANGED <<owner, setup, browser, mfa, recent>>

(* Second half of onLogout, whatever the answer: revoked, already refused  *)
(* (a 401, which starts the 1.5 s) or not reached.  It signs out the token *)
(* the tab has now, which need not be the one it was asked to end.         *)
onLogout(c) ==
  /\ c.kind = "logout"
  /\ \/ c.tok \in live /\ live' = live \ {c.tok} /\ UNCHANGED recent
     \/ c.tok \notin live /\ recent' = TRUE /\ UNCHANGED live
     \/ UNCHANGED <<live, recent>>
  /\ auth' = None /\ authToken' = None /\ saved' = None
  /\ boot' = NoSetup /\ mfa' = NoChallenge
  /\ data' = Cleared /\ calls' = Cleanup(calls \ {c})
  /\ navigate("/login")
  /\ signedOut' = signedOut \cup {c.tok}
  /\ UNCHANGED <<owner, setup, returnTo, other>>

(* The page is loaded again: only the storages survive.  A token that has  *)
(* expired meanwhile is signed out at once.                                *)
PageLoad(ok, steps, expired) ==
  /\ auth' = saved /\ authToken' = saved
  /\ mfa' = "no" /\ boot' = NoSetup /\ data' = Cleared /\ recent' = FALSE
  /\ route' = Redirect(saved, route)
  /\ returnTo' = IF expired THEN rememberReturnTo(route) ELSE returnTo
  /\ calls' = IF saved = None THEN {}
              ELSE Load(saved, ok, steps)
                     \cup IF expired THEN {Call("logout", saved, FALSE, {})} ELSE {}

Reload ==
  /\ \E expired \in BOOLEAN : (expired => saved # None) /\ PageLoad(saved \in live, Owed(saved), expired)
  /\ UNCHANGED <<server, saved, other, signedOut>>

(* A tab of the header, and the browser's back and forward buttons, which  *)
(* may lead to any path of the history, the login page included.           *)
go(p) ==
  /\ auth # None /\ p # route
  /\ navigate(p)
  /\ UNCHANGED <<server, browser, auth, authToken, boot, data, mfa, calls, recent, signedOut>>

handlePopState(p) ==
  /\ route' = Redirect(auth, p)
  /\ UNCHANGED <<server, browser, auth, authToken, boot, data, mfa, calls, recent, signedOut>>

(* A list is polled again (setInterval of the statistics and journal).     *)
Poll(l) ==
  /\ auth # None
  /\ calls' = calls \cup {Served(l, authToken, authToken \in live, Owed(authToken))}
  /\ UNCHANGED <<server, browser, tab, mfa, recent, signedOut>>

MutListAnswer(c) ==
  /\ c.kind \in Lists /\ c.ok
  /\ data' = [data EXCEPT ![c.kind] = c.tok] /\ calls' = calls \ {c}
  /\ UNCHANGED <<server, browser, auth, authToken, route, boot, mfa, recent, signedOut>>

(* A list arrives.  Until the first-login setup is done the server refuses *)
(* it with 403, which leaves the list as it is.                            *)
ListAnswer(c) ==
  /\ c.kind \in Lists /\ c.ok
  /\ data' = IF c.active THEN [data EXCEPT ![c.kind] = c.tok] ELSE data
  /\ calls' = calls \ {c}
  /\ UNCHANGED <<server, browser, auth, authToken, route, boot, mfa, recent, signedOut>>

(* fetchBootstrapStatus arrives.                                           *)
BootstrapAnswer(c) ==
  /\ c.kind = "bootstrap" /\ c.ok
  /\ boot' = IF c.active THEN SetupOf(c.steps) ELSE boot
  /\ calls' = calls \ {c}
  /\ UNCHANGED <<server, browser, auth, authToken, route, data, mfa, recent, signedOut>>

(* ensureResponseOk meets a 401: the token was refused.                    *)
Unauthorized(c) ==
  /\ c.tok # None /\ c.kind # "logout" /\ c.tok \notin live
  /\ notifyUnauthorized(calls \ {c})
  /\ UNCHANGED <<server, returnTo, other, signedOut>>

(* Any other failure: the error is shown, or swallowed.                    *)
CallFails(c) ==
  /\ c.kind \notin {"login", "passkey", "logout"}
  /\ calls' = calls \ {c}
  /\ UNCHANGED <<server, browser, tab, mfa, recent, signedOut>>

(* The 1.5 s are over.                                                     *)
DebounceEnds ==
  /\ recent /\ recent' = FALSE
  /\ UNCHANGED <<server, browser, tab, mfa, calls, signedOut>>

-----------------------------------------------------------------------------
(* The first-login dialog shows the step the server asks for first; My     *)
(* account offers the same two forms at any time.                          *)
dialogStep == IF "password" \in boot.steps THEN "password" ELSE "mfa"

SubmitSetup(step) ==
  /\ auth # None /\ MayCall
  /\ boot.required => step = dialogStep
  /\ calls' = calls \cup
       {IF step = "mfa" THEN Sent("factor", {})
        ELSE Sent("password", IF boot.required THEN boot.steps ELSE {})}
  /\ UNCHANGED <<server, browser, tab, mfa, recent, signedOut>>

(* The reload that follows the end of the setup: what was loaded behind    *)
(* the dialog came back empty.                                             *)
AfterSetup(left, cs, acc) ==
  IF auth # None /\ boot.required /\ left = {}
    THEN PageLoad(saved \in acc, IF saved = None THEN {} ELSE setup'[owner[saved]], FALSE)
    ELSE /\ boot' = SetupOf(left)
         /\ calls' = cs
         /\ UNCHANGED <<auth, authToken, route, data, mfa, recent, returnTo>>

(* onChangePassword.  Outside the first login every token of the account   *)
(* is revoked, the one in use included.                                    *)
onChangePassword(c) ==
  /\ c.kind = "password" /\ c.tok \in live
  /\ LET u == owner[c.tok]
         keep == c.steps # {}
     IN  /\ setup' = [setup EXCEPT ![u] = @ \ {"password"}]
         /\ live' = {t \in live : owner[t] # u \/ (keep /\ t = c.tok)}
         /\ AfterSetup(setup'[u], calls \ {c}, live')
  /\ UNCHANGED <<owner, saved, other, signedOut>>

(* onVerify2FA and onRegisterPasskey: the account has a second factor.     *)
onAddFactor(c) ==
  /\ c.kind = "factor" /\ c.tok \in live
  /\ LET u == owner[c.tok]
     IN  /\ setup' = [setup EXCEPT ![u] = @ \ {"mfa"}]
         /\ AfterSetup(setup'[u], calls \ {c}, live)
  /\ UNCHANGED <<owner, live, saved, other, signedOut>>

(* A mistyped current password or code: the server answers 401 although    *)
(* the token is good.                                                      *)
Mistyped(c) ==
  /\ c.kind \in {"password", "factor"} /\ c.tok \in live
  /\ notifyUnauthorized(calls \ {c})
  /\ UNCHANGED <<server, returnTo, other, signedOut>>

-----------------------------------------------------------------------------
(* The server ends a token: expiry, an administrator, a restart.           *)
Revoke(t) ==
  /\ t \in live /\ live' = live \ {t}
  /\ UNCHANGED <<owner, setup, browser, tab, mfa, calls, recent, signedOut>>

(* Another tab: opened from the saved token, signed in, signed out.        *)
OtherTab ==
  /\ \/ other' = saved /\ other' # other /\ UNCHANGED <<server, saved, signedOut>>
     \/ /\ other = None
        /\ \E u \in Users, t \in Fresh : Issue(t, u) /\ other' = t /\ saved' = t
        /\ UNCHANGED signedOut
     \/ /\ other # None
        /\ live' = live \ {other} /\ saved' = None /\ other' = None
        /\ signedOut' = signedOut \cup {other}
        /\ UNCHANGED <<owner, setup>>
  /\ UNCHANGED <<returnTo, tab, mfa, calls, recent>>

Next ==
  \/ \E u \in Users : SubmitLogin(u) \/ SubmitPasskey(u)
  \/ onCancelMfa \/ Reload \/ DebounceEnds \/ OtherTab
  \/ ClickLogout \/ Reconnect \/ ExpiryTimer
  \/ \E p \in Pages : go(p)
  \/ \E p \in Pages \cup {"/login"} : handlePopState(p)
  \/ \E l \in Lists : Poll(l)
  \/ \E s \in Steps : SubmitSetup(s)
  \/ \E t \in Tokens : Revoke(t)
  \/ \E c \in calls :
       \/ onLogin(c) \/ onLoginWithPasskey(c) \/ onLogout(c)
       \/ ListAnswer(c) \/ BootstrapAnswer(c) \/ Unauthorized(c) \/ CallFails(c)
       \/ onChangePassword(c) \/ onAddFactor(c) \/ Mistyped(c)

Spec == Init /\ [][Next]_vars

(* The statistics are polled every 15 s whatever the role; a poll that the *)
(* server can answer is answered again and again, and 1.5 s pass.          *)
Refused == \E c \in calls : c.tok = auth /\ Unauthorized(c)
Polled == \E l \in Lists : Poll(l)
FairSpec == Spec /\ WF_vars(Polled) /\ SF_vars(Refused /\ auth' # auth) /\ WF_vars(DebounceEnds)

-----------------------------------------------------------------------------
(* Every variable holds a value the code can give it; the page remembered  *)
(* for the next sign-in is never the login page.                           *)
TypeOK ==
  /\ owner \in [Tokens -> Users \cup {None}]
  /\ live \subseteq Issued
  /\ setup \in [Users -> SUBSET Steps]
  /\ saved \in Issued \cup {None} /\ other \in Issued \cup {None}
  /\ returnTo \in Pages \cup {None}
  /\ auth \in Issued \cup {None} /\ authToken \in Issued \cup {None}
  /\ route \in Pages \cup {"/login"}
  /\ mfa \in MfaSteps
  /\ boot \in [required : BOOLEAN, steps : SUBSET Steps]
  /\ data \in [Lists -> Issued \cup {None}]
  /\ calls \subseteq [kind : Kinds, tok : Tokens \cup {None}, user : Users \cup {None},
                      active : BOOLEAN, ok : BOOLEAN, steps : SUBSET Steps]
  /\ recent \in BOOLEAN /\ signedOut \subseteq Tokens

(* The account on screen is the one requests are made for: the token of    *)
(* React state and the token of api.js never part, whatever the order in   *)
(* which sign-ins, sign-outs and refusals are answered; and the login page *)
(* is shown exactly when there is none.                                    *)
TokensAgree == authToken = auth /\ (route = "/login" <=> auth = None)

(* A list is put on screen only while the token it was loaded with is the  *)
(* one signed in: an answer that arrives after a sign-out or after another *)
(* sign-in is dropped (the `active` flag of the effects).                  *)
FreshLists ==
  [][\A l \in Lists : data'[l] \notin {data[l], None} => data'[l] = auth']_vars

(* A token that was signed out does not come back with a reload, from any  *)
(* tab of the browser, even when the server was not reached to revoke it.  *)
StaysSignedOut == saved \notin signedOut

(* A tab whose token the server no longer accepts does not keep it.        *)
RevokedLeaves == \A t \in Tokens : (auth = t /\ t \notin live) ~> auth # t
=============================================================================
