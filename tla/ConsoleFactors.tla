---------------------------- MODULE ConsoleFactors ----------------------------
(***************************************************************************)
(* The second factors of an account: the card that sets up and removes the *)
(* authenticator app and the security keys, open in two tabs of the        *)
(* console, and the bastion, whose handlers first check and later change   *)
(* the account.  A refused code is answered with 401, which signs the tab  *)
(* out (ConsoleAuth); here it is only an error.                            *)
(***************************************************************************)
EXTENDS Naturals, FiniteSets

CONSTANTS
  Cards,        \* tabs that show the card
  Keys,         \* security keys
  HeldKeys,     \* keys the account has at first
  Admin,        \* the account is an administrator
  Overlapping,  \* handlers of the account's requests overlap
  MaxSecrets,   \* bound: secrets of the authenticator app
  MaxChanges,   \* bound: requests of the cards
  NoKey

ASSUME FactorsAssumption ==
  /\ NoKey \notin Keys /\ HeldKeys \subseteq Keys /\ Admin \in BOOLEAN /\ Overlapping \in BOOLEAN
  /\ MaxSecrets \in Nat \ {0} /\ MaxChanges \in Nat

VARIABLES
  account,  \* bastion: totpEnabled, totpSecret, passkeys and preferredMfaMethod
  secrets,  \* secrets generated so far
  card,     \* state of App that the card shows, for each tab
  confirm,  \* the confirmation that is open in each tab
  requests, \* under way
  sent      \* number of requests so far

factorVars == <<account, secrets, card, confirm, requests, sent>>

Methods == {"any", "totp", "webauthn"}
Factors == [totp : BOOLEAN, secret : 0 .. MaxSecrets, keys : SUBSET Keys, preferred : Methods]
Removals == {"disable", "delete"}
FactorOps == Removals \cup {"setup", "verify", "register", "prefer", "status", "reread"}
Closed == [op |-> "none", key |-> NoKey]
NoFactors == [totp |-> FALSE, secret |-> 0, keys |-> {}, preferred |-> "any"]

FactorsTypeOK ==
  /\ account \in Factors /\ secrets \in 0 .. MaxSecrets /\ sent \in 0 .. MaxChanges
  /\ card \in [Cards -> [totp : BOOLEAN, webauthn : BOOLEAN, keys : SUBSET Keys,
                         preferred : Methods, setup : 0 .. MaxSecrets, busy : BOOLEAN]]
  /\ confirm \in [Cards -> [op : Removals \cup {"none"}, key : Keys \cup {NoKey}]]
  /\ requests \subseteq [n : 0 .. MaxChanges, card : Cards, op : FactorOps, key : Keys \cup {NoKey},
                         code : 0 .. MaxSecrets, method : Methods,
                         step : {"sent", "checked", "done", "refused"}, seen : Factors]

Shown(a) == [totp |-> a.totp, webauthn |-> a.keys # {}, keys |-> a.keys,
             preferred |-> a.preferred, setup |-> 0, busy |-> FALSE]

(* The account has an authenticator app, and both tabs have just read it.  *)
FactorsInit ==
  /\ account = [totp |-> TRUE, secret |-> 1, keys |-> HeldKeys, preferred |-> "any"]
  /\ secrets = 1 /\ card = [k \in Cards |-> Shown(account)]
  /\ confirm = [k \in Cards |-> Closed] /\ requests = {} /\ sent = 0

-----------------------------------------------------------------------------
(* The bastion.                                                            *)

MutKeepsFactor(keys, totp) == keys >= 0 \/ totp
(* admin_can_disable_totp and admin_can_remove_webauthn_credential: what   *)
(* must be left of an administrator's factors.                             *)
KeepsFactor(keys, totp) == keys > 0 \/ totp

Allowed(c, a) ==
  CASE c.op = "setup" -> ~a.totp
    [] c.op = "verify" -> a.secret # 0 /\ c.code = a.secret
    [] c.op = "disable" ->
         a.totp /\ c.code = a.secret /\ (Admin => KeepsFactor(Cardinality(a.keys), FALSE))
    [] c.op = "delete" ->
         c.key \in a.keys /\ (Admin => KeepsFactor(Cardinality(a.keys) - 1, a.totp))
    [] c.op = "prefer" -> (c.method = "totp" => a.totp) /\ (c.method = "webauthn" => a.keys # {})
    [] OTHER -> TRUE

(* First half of a handler: it reads the account under user_mutex.         *)
CheckRequest(c) ==
  /\ c.step = "sent" /\ (Overlapping \/ \A d \in requests : d.step # "checked")
  /\ requests' = (requests \ {c}) \cup
       {IF Allowed(c, account) THEN [c EXCEPT !.seen = account, !.step = "checked"]
                               ELSE [c EXCEPT !.step = "refused"]}
  /\ UNCHANGED <<account, secrets, card, confirm, sent>>

(* The preference follows the factor that is gone.                         *)
Prefers(a, gone, other) ==
  IF a.preferred = gone THEN other ELSE a.preferred

(* Second half: what it writes, from what it read.                         *)
Applied(c, a) ==
  CASE c.op = "setup" -> [a EXCEPT !.totp = FALSE, !.secret = secrets + 1]
    [] c.op = "verify" -> [a EXCEPT !.totp = TRUE, !.secret = c.seen.secret]
    [] c.op = "disable" ->
         [a EXCEPT !.totp = FALSE, !.secret = 0,
                   !.preferred = Prefers(a, "totp", IF c.seen.keys # {} THEN "webauthn" ELSE "any")]
    [] c.op = "register" -> [a EXCEPT !.keys = @ \cup {c.key}]
    [] c.op = "delete" ->
         [a EXCEPT !.keys = @ \ {c.key},
                   !.preferred = IF a.keys \subseteq {c.key}
                                   THEN Prefers(a, "webauthn", IF c.seen.totp THEN "totp" ELSE "any")
                                   ELSE @]
    [] c.op = "prefer" -> [a EXCEPT !.preferred = c.method]
    [] OTHER -> a

(* A key that was registered or removed meanwhile is refused after all.    *)
Gone(c, a) == \/ c.op = "register" /\ c.key \in a.keys
              \/ c.op = "delete" /\ c.key \notin a.keys

ApplyRequest(c) ==
  /\ c.step = "checked" /\ (c.op = "setup" => secrets < MaxSecrets)
  /\ secrets' = IF c.op = "setup" THEN secrets + 1 ELSE secrets
  /\ account' = IF Gone(c, account) THEN account ELSE Applied(c, account)
  /\ requests' = (requests \ {c}) \cup
       {[c EXCEPT !.seen = account', !.step = IF Gone(c, account) THEN "refused" ELSE "done"]}
  /\ UNCHANGED <<card, confirm, sent>>

-----------------------------------------------------------------------------
(* The card.  A confirmation covers the page until its request is answered.*)
Reachable(k) == confirm[k] = Closed

Request(k, op, key, code, method) ==
  [n |-> sent, card |-> k, op |-> op, key |-> key, code |-> code, method |-> method,
   step |-> "sent", seen |-> NoFactors]
SendRequest(k, op, key, code, method) ==
  /\ sent < MaxChanges /\ sent' = sent + 1
  /\ requests' = requests \cup {Request(k, op, key, code, method)}
  /\ UNCHANGED <<account, secrets>>

onSetup2FA(k) ==
  /\ Reachable(k) /\ ~card[k].totp /\ card[k].setup = 0 /\ secrets < MaxSecrets
  /\ SendRequest(k, "setup", NoKey, 0, "any") /\ UNCHANGED <<card, confirm>>

(* A code of the secret on screen, or of another one the app still holds.  *)
onVerify2FA(k, code) ==
  /\ Reachable(k) /\ card[k].setup # 0
  /\ SendRequest(k, "verify", NoKey, code, "any") /\ UNCHANGED <<card, confirm>>

onCancelSetup(k) ==
  /\ Reachable(k) /\ card[k].setup # 0 /\ card' = [card EXCEPT ![k].setup = 0]
  /\ UNCHANGED <<account, secrets, confirm, requests, sent>>

(* An administrator's last factor is locked, by what the card shows.       *)
totpLocked(k) == Admin /\ ~card[k].webauthn
lastKeyLocked(k) == Admin /\ ~card[k].totp /\ Cardinality(card[k].keys) <= 1

AskRemoval(k, op, key) ==
  /\ Reachable(k) /\ sent < MaxChanges
  /\ IF op = "disable" THEN card[k].totp /\ card[k].setup = 0 /\ ~totpLocked(k) /\ key = NoKey
                       ELSE key \in card[k].keys /\ ~card[k].busy /\ ~lastKeyLocked(k)
  /\ confirm' = [confirm EXCEPT ![k] = [op |-> op, key |-> key]]
  /\ UNCHANGED <<account, secrets, card, requests, sent>>

Removing(k) == \E c \in requests : c.card = k /\ c.op \in Removals

CancelRemoval(k) ==
  /\ ~Reachable(k) /\ ~Removing(k) /\ confirm' = [confirm EXCEPT ![k] = Closed]
  /\ UNCHANGED <<account, secrets, card, requests, sent>>

(* onDisable2FA and onDeletePasskey.                                       *)
ConfirmRemoval(k, code) ==
  /\ ~Reachable(k) /\ ~Removing(k) /\ (confirm[k].op = "delete" => code = 0)
  /\ SendRequest(k, confirm[k].op, confirm[k].key, code, "any")
  /\ card' = [card EXCEPT ![k].busy = @ \/ confirm[k].op = "delete"]
  /\ UNCHANGED confirm

(* onRegisterPasskey.  The browser refuses a key the account had when the  *)
(* options were given.                                                     *)
onRegisterPasskey(k, key) ==
  /\ Reachable(k) /\ ~card[k].busy /\ key \notin account.keys
  /\ SendRequest(k, "register", key, 0, "any")
  /\ card' = [card EXCEPT ![k].busy = TRUE] /\ UNCHANGED confirm

onUpdateMfaPreference(k, m) ==
  /\ Reachable(k) /\ (m = "totp" => card[k].totp) /\ (m = "webauthn" => card[k].webauthn)
  /\ SendRequest(k, "prefer", NoKey, 0, m) /\ UNCHANGED <<card, confirm>>

-----------------------------------------------------------------------------
(* What an answer changes on the card.                                     *)
Flags(s, a) == [s EXCEPT !.totp = a.totp, !.webauthn = a.keys # {}, !.preferred = a.preferred]
Updated(s, c) ==
  CASE c.op = "setup" -> [s EXCEPT !.setup = c.seen.secret]
    [] c.op = "verify" -> [Flags(s, c.seen) EXCEPT !.totp = TRUE, !.setup = 0]
    [] c.op = "disable" -> [Flags(s, c.seen) EXCEPT !.totp = FALSE]
    [] c.op = "register" -> Flags(s, c.seen)
    [] c.op = "delete" -> [Flags(s, c.seen) EXCEPT !.keys = c.seen.keys, !.busy = FALSE]
    [] c.op = "prefer" -> [s EXCEPT !.preferred = c.seen.preferred]
    [] c.op = "status" -> [Flags(s, c.seen) EXCEPT !.keys = c.seen.keys]
    [] c.op = "reread" -> [Flags(s, c.seen) EXCEPT !.keys = c.seen.keys, !.busy = FALSE]

(* onLoad2FAStatus, which a new key waits for before the card is free.     *)
onLoad2FAStatus(c) ==
  CASE c.op \in {"verify", "disable"} -> {[c EXCEPT !.op = "status", !.step = "sent", !.seen = NoFactors]}
    [] c.op = "register" -> {[c EXCEPT !.op = "reread", !.step = "sent", !.seen = NoFactors]}
    [] OTHER -> {}

CloseConfirm(c) ==
  confirm' = IF c.op \in Removals THEN [confirm EXCEPT ![c.card] = Closed] ELSE confirm

FactorAnswer(c) ==
  /\ c.step = "done" /\ CloseConfirm(c)
  /\ card' = [card EXCEPT ![c.card] = Updated(@, c)]
  /\ requests' = (requests \ {c}) \cup onLoad2FAStatus(c)
  /\ UNCHANGED <<account, secrets, sent>>

FactorError(c) ==
  /\ c.step = "refused" /\ CloseConfirm(c) /\ requests' = requests \ {c}
  /\ card' = [card EXCEPT ![c.card].busy = @ /\ c.op \notin {"register", "delete", "reread"}]
  /\ UNCHANGED <<account, secrets, sent>>

FactorsNext ==
  \/ \E k \in Cards :
       \/ onSetup2FA(k) \/ onCancelSetup(k) \/ CancelRemoval(k)
       \/ \E code \in 0 .. secrets : onVerify2FA(k, code) \/ ConfirmRemoval(k, code)
       \/ AskRemoval(k, "disable", NoKey)
       \/ \E key \in Keys : AskRemoval(k, "delete", key) \/ onRegisterPasskey(k, key)
       \/ \E m \in Methods : onUpdateMfaPreference(k, m)
  \/ \E c \in requests : CheckRequest(c) \/ ApplyRequest(c) \/ FactorAnswer(c) \/ FactorError(c)

FactorsSpec == FactorsInit /\ [][FactorsNext]_factorVars

-----------------------------------------------------------------------------
(* An administrator always keeps a second factor, whatever two tabs that   *)
(* show an earlier state of the account ask for, in any order; with        *)
(* handlers that do not overlap, for each checks what it leaves.           *)
FactorRemains == Admin => account.totp \/ account.keys # {}
=============================================================================
