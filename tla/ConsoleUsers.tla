---------------------------- MODULE ConsoleUsers ----------------------------
(***************************************************************************)
(* The administration of accounts: the page of one administrator, with the *)
(* list it loaded earlier, and the requests of this and of other           *)
(* administrators as the bastion handles them, each in three steps: the    *)
(* rights of the caller, the change in memory under user_mutex, and the    *)
(* row of the database.                                                    *)
(***************************************************************************)
EXTENDS Naturals, FiniteSets

CONSTANTS
  Accounts,      \* accounts there are or may be created
  Me, Peer,      \* the administrator of this page, and another one
  Service,       \* service accounts: they cannot sign in
  Roles,         \* admin, and roles without users.manage
  Nobody,
  MaxCalls       \* bound: requests of the administrators

ASSUME UsersAssumption ==
  /\ {Me, Peer} \subseteq Accounts /\ Service \subseteq Accounts \ {Me, Peer}
  /\ Nobody \notin Accounts /\ "admin" \in Roles /\ "none" \notin Roles
  /\ MaxCalls \in Nat

VARIABLES
  role,       \* ctx.users: role of every account, "none" when there is none
  dead,       \* ids that are not given again
  signed,     \* accounts with a valid token
  asks,       \* requests under way
  made,       \* requests so far
  rows,       \* the page: users
  selected,
  mode,
  busy,
  confirming, \* the dialog that asks to type the name is open
  lost        \* history: the row of a new administrator could not be written

memory == <<role, dead, signed>>
page == <<rows, selected, mode, busy, confirming>>
userVars == <<memory, asks, made, page, lost>>

Values == Roles \cup {"none"}

UsersTypeOK ==
  /\ role \in [Accounts -> Values] /\ dead \subseteq Accounts /\ signed \subseteq Accounts
  /\ asks \subseteq [by : {Me, Peer}, op : {"create", "update", "delete"},
                     who : Accounts, to : Roles, step : {"sent", "change", "persist", "ok", "refused"}]
  /\ made \in 0 .. MaxCalls
  /\ rows \in [Accounts -> Values] /\ selected \in Accounts \cup {Nobody}
  /\ mode \in {"view", "edit", "create"} /\ busy \in BOOLEAN /\ confirming \in BOOLEAN
  /\ lost \in BOOLEAN

(* Two administrators; the page has loaded the list.                       *)
UsersInit ==
  /\ role = [a \in Accounts |-> IF a \in {Me, Peer} THEN "admin" ELSE "none"]
  /\ dead = {} /\ signed = {Me, Peer} /\ asks = {} /\ made = 0 /\ lost = FALSE
  /\ rows = role /\ selected = Nobody /\ mode = "view" /\ busy = FALSE /\ confirming = FALSE

-----------------------------------------------------------------------------
(* The bastion.                                                            *)

Admins(list) == {a \in Accounts \ Service : list[a] = "admin"}

(* find_auth and has_permission: the caller's rights at this moment.       *)
Authorize(r) ==
  /\ r.step = "sent"
  /\ asks' = (asks \ {r}) \cup
       {[r EXCEPT !.step = IF r.by \in signed /\ role[r.by] = "admin" THEN "change" ELSE "refused"]}
  /\ UNCHANGED <<memory, made, page, lost>>

(* The checks under user_mutex.                                            *)
MutLastAdmin(a) == a \in Admins(role) /\ Cardinality({b \in Accounts : role[b] = "admin"}) <= 1
LastAdmin(a) == a \in Admins(role) /\ Cardinality(Admins(role)) <= 1
Refused(r) ==
  CASE r.op = "create" -> role[r.who] # "none" \/ r.who \in dead
    [] r.op = "update" -> role[r.who] = "none" \/ (r.to # "admin" /\ LastAdmin(r.who))
    [] r.op = "delete" -> role[r.who] = "none" \/ r.who = r.by \/ LastAdmin(r.who)

Change(r) ==
  /\ r.step = "change"
  /\ \/ /\ Refused(r) /\ asks' = (asks \ {r}) \cup {[r EXCEPT !.step = "refused"]}
        /\ UNCHANGED <<role, dead>>
     \/ /\ ~Refused(r) /\ asks' = (asks \ {r}) \cup {[r EXCEPT !.step = "persist"]}
        /\ role' = [role EXCEPT ![r.who] = IF r.op = "delete" THEN "none" ELSE r.to]
        /\ dead' = IF r.op = "delete" THEN dead \cup {r.who} ELSE dead
  /\ UNCHANGED <<signed, made, page, lost>>

(* The row is written: a changed or deleted account loses its tokens, but  *)
(* not the one its own request came with.                                  *)
Persist(r) ==
  /\ r.step = "persist" /\ asks' = (asks \ {r}) \cup {[r EXCEPT !.step = "ok"]}
  /\ signed' = IF r.op = "create" \/ r.who = r.by THEN signed ELSE signed \ {r.who}
  /\ UNCHANGED <<role, dead, made, page, lost>>

(* It is not: only a new account is taken back.                            *)
PersistFails(r) ==
  /\ r.step = "persist" /\ asks' = (asks \ {r}) \cup {[r EXCEPT !.step = "refused"]}
  /\ IF r.op = "create"
     THEN /\ role' = [role EXCEPT ![r.who] = "none"] /\ dead' = dead \cup {r.who}
          /\ lost' = (lost \/ r.who \in Admins(role))
     ELSE UNCHANGED <<role, dead, lost>>
  /\ UNCHANGED <<signed, made, page>>

(* An account that lost its tokens may sign in again.                      *)
SignInAgain(a) ==
  /\ a \in {Me, Peer} /\ a \notin signed /\ role[a] # "none" /\ signed' = signed \cup {a}
  /\ UNCHANGED <<role, dead, asks, made, page, lost>>

-----------------------------------------------------------------------------
(* The page.                                                               *)

(* A console has one request under way: busy disables its buttons.         *)
Send(by, op, who, to) ==
  /\ made < MaxCalls /\ made' = made + 1 /\ \A r \in asks : r.by # by
  /\ asks' = asks \cup {[by |-> by, op |-> op, who |-> who, to |-> to, step |-> "sent"]}

(* The other administrator may ask for anything.                           *)
PeerAsks(op, who, to) ==
  /\ (op = "delete" => to = "admin") /\ (op = "create" => who \notin dead)
  /\ Send(Peer, op, who, to) /\ UNCHANGED <<memory, page, lost>>

(* The page moves on only while a request may still follow (MaxCalls).     *)
MayAsk == made < MaxCalls

SelectUser(a) ==
  /\ MayAsk /\ ~confirming /\ rows[a] # "none" /\ a # selected /\ selected' = a /\ mode' = "view"
  /\ UNCHANGED <<memory, asks, made, rows, busy, confirming, lost>>
SetMode(m) ==
  /\ MayAsk /\ ~confirming /\ m # mode /\ mode' = m
  /\ selected' = (IF m = "create" THEN Nobody ELSE selected)
  /\ m = "edit" => selected # Nobody
  /\ UNCHANGED <<memory, asks, made, rows, busy, confirming, lost>>

SubmitCreate(a, to) ==
  /\ mode = "create" /\ ~busy /\ a \notin dead /\ Send(Me, "create", a, to) /\ busy' = TRUE
  /\ UNCHANGED <<memory, rows, selected, mode, confirming, lost>>
SubmitEdit(to) ==
  /\ mode = "edit" /\ selected # Nobody /\ ~busy
  /\ Send(Me, "update", selected, to) /\ busy' = TRUE
  /\ UNCHANGED <<memory, rows, selected, mode, confirming, lost>>

(* What the list on screen says about the account that is selected.        *)
deleteBlocked ==
  selected = Me \/ (selected \in Admins(rows) /\ Cardinality(Admins(rows)) <= 1)

AskDelete ==
  /\ MayAsk /\ selected # Nobody /\ mode # "edit" /\ ~deleteBlocked /\ ~busy /\ ~confirming
  /\ confirming' = TRUE
  /\ UNCHANGED <<memory, asks, made, rows, selected, mode, busy, lost>>
CancelDelete ==
  /\ confirming /\ ~busy /\ confirming' = FALSE
  /\ UNCHANGED <<memory, asks, made, rows, selected, mode, busy, lost>>
ConfirmDelete ==
  /\ confirming /\ ~busy /\ selected # Nobody
  /\ Send(Me, "delete", selected, "admin") /\ busy' = TRUE
  /\ UNCHANGED <<memory, rows, selected, mode, confirming, lost>>

(* run(): the answer changes the row it is about, and then whatever is     *)
(* selected or open by then.                                               *)
UserAnswer(r) ==
  /\ r.step = "ok" /\ asks' = asks \ {r}
  /\ IF r.by = Me
     THEN /\ busy' = FALSE /\ confirming' = FALSE
          /\ rows' = [rows EXCEPT ![r.who] = IF r.op = "delete" THEN "none" ELSE r.to]
          /\ selected' = (CASE r.op = "create" -> r.who
                            [] r.op = "delete" -> Nobody [] OTHER -> selected)
          /\ mode' = (IF r.op = "delete" THEN mode ELSE "view")
     ELSE UNCHANGED page
  /\ UNCHANGED <<memory, made, lost>>

(* run() keeps the error to itself, so the dialog of a deletion closes as  *)
(* after a success; the form of an account stays open.                     *)
UserError(r) ==
  /\ r.step = "refused" /\ asks' = asks \ {r}
  /\ IF r.by = Me
     THEN busy' = FALSE /\ confirming' = FALSE /\ UNCHANGED <<rows, selected, mode>>
     ELSE UNCHANGED page
  /\ UNCHANGED <<memory, made, lost>>

(* The console is loaded anew, or signed in to again: the list is loaded,  *)
(* which no answer to a request of this or another console does.           *)
ReloadUsers ==
  /\ MayAsk /\ Me \in signed /\ role[Me] = "admin" /\ ~busy
  /\ rows' = role /\ selected' = Nobody /\ mode' = "view" /\ confirming' = FALSE
  /\ UNCHANGED <<memory, asks, made, busy, lost>>

-----------------------------------------------------------------------------
UsersPage ==
  \/ \E a \in Accounts : SelectUser(a) \/ \E to \in Roles : SubmitCreate(a, to)
  \/ \E m \in {"view", "edit", "create"} : SetMode(m)
  \/ \E to \in Roles : SubmitEdit(to)
  \/ AskDelete \/ CancelDelete \/ ConfirmDelete \/ ReloadUsers

UsersNext ==
  \/ UsersPage
  \/ \E op \in {"create", "update", "delete"}, who \in Accounts, to \in Roles :
       PeerAsks(op, who, to)
  \/ \E r \in asks : \/ Authorize(r) \/ Change(r) \/ Persist(r) \/ PersistFails(r)
                     \/ UserAnswer(r) \/ UserError(r)
  \/ \E a \in Accounts : SignInAgain(a)

UsersSpec == UsersInit /\ [][UsersNext]_userVars

-----------------------------------------------------------------------------
(* An administrator who can sign in always remains, although every console *)
(* acts on a list it loaded earlier and the requests of administrators     *)
(* overlap step by step; except that an account counted as the other       *)
(* administrator while it is created may be taken back when its row cannot *)
(* be written.                                                             *)
AdminRemains == lost \/ Admins(role) # {}
=============================================================================
