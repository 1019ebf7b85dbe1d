---------------------------- MODULE ConsoleAlerts ----------------------------
(***************************************************************************)
(* The live security feed of a tab: the poll of new critical and warning   *)
(* events after a cursor, the toasts with their caps and their throttling, *)
(* the incident raised when enough critical events are counted, the case   *)
(* it opens, and the termination of the sessions it suspects.              *)
(*                                                                         *)
(* Events are numbered by the server in the order they happen.  A poll     *)
(* holds the cursor it was sent with and the last event the server knew;   *)
(* polls of one effect may overlap, and a poll whose effect was cleaned up *)
(* is dropped with its answer.  Five minutes pass in one step.             *)
(***************************************************************************)
EXTENDS Naturals, FiniteSets, FiniteSetsExt

CONSTANTS
  MaxEvents,   \* bound: events that happen
  Critical,    \* events with severity critical; the others are warnings
  SessionOf,   \* the session an event points at
  Threshold,   \* incidentThreshold
  MaxVisible,  \* profiles: the caps of the toasts
  MaxPolls     \* bound: polls of one effect not answered

Events == 1 .. MaxEvents
Sessions == {SessionOf[e] : e \in Events}
Profiles == DOMAIN MaxVisible

ASSUME AlertsAssumption ==
  /\ MaxEvents \in Nat \ {0} /\ Critical \subseteq Events
  /\ DOMAIN SessionOf = Events
  /\ Threshold \in Nat \ {0} /\ MaxPolls \in Nat \ {0}
  /\ \A p \in Profiles : /\ MaxVisible[p].critical \in Nat \ {0} /\ MaxVisible[p].warning \in Nat
                         /\ MaxVisible[p].total \in Nat
                         /\ MaxVisible[p].total >= MaxVisible[p].critical

VARIABLES
  last,      \* server: events so far
  active,    \* server: sessions still active
  listed,    \* sessions the tab shows as active
  signed,    \* signed in, with the right to the feed and its licence
  old,       \* events up to this one are more than five minutes old
  cursor,    \* lastSecurityAuditIdRef
  boot,      \* securityFeedBootstrappedRef
  polls,     \* polls of the current effect, not answered
  handled,   \* history: every event up to this one was in an answer
  overlap,   \* history: two polls of one effect were under way since the sign-in
  counts,    \* liveIncidentCriticalTimestampsRef: how often an event is in it
  cooldown,  \* liveIncidentCooldownUntilRef is in the future
  hushed,    \* warnings are throttled (liveAlertCooldownByTypeRef)
  alerts,    \* liveSecurityAlerts
  incident,  \* liveSecurityIncident
  caseView,  \* activeSecurityIncident.active
  opening,   \* openSecurityIncident is not answered
  confirm    \* the termination dialog: closed, open, or the sessions it ends

feed == <<cursor, boot, polls, handled, overlap>>
raised == <<counts, cooldown, incident>>
case == <<caseView, opening>>
vars == <<last, active, listed, signed, old, feed, raised, hushed, alerts, case, confirm>>

Closed == [st |-> "closed", ids |-> {}]

TypeOK ==
  /\ last \in 0 .. MaxEvents /\ old \in 0 .. last /\ cursor \in 0 .. last
  /\ active \subseteq Sessions /\ listed \subseteq Sessions
  /\ signed \in BOOLEAN /\ boot \in BOOLEAN
  /\ polls \subseteq [id : 1 .. MaxPolls, since : 0 .. last, upto : 0 .. last]
  /\ handled \in 0 .. last /\ overlap \in BOOLEAN
  /\ counts \in [Events -> 0 .. 2] /\ cooldown \in BOOLEAN /\ hushed \in BOOLEAN
  /\ alerts \subseteq 1 .. last /\ incident \in BOOLEAN
  /\ caseView \in BOOLEAN /\ opening \in BOOLEAN
  /\ confirm \in [st : {"closed", "open", "busy"}, ids : SUBSET Sessions]

-----------------------------------------------------------------------------
(* The effect of the feed: it polls at once and every 10 s, and is cleaned *)
(* up and run again when a value it depends on is set.                     *)

Poll(ps) == [id |-> CHOOSE i \in 1 .. MaxPolls : \A p \in ps : p.id # i,
             since |-> cursor, upto |-> last]
MutRestart == polls' = polls \cup (IF Cardinality(polls) < MaxPolls THEN {Poll(polls)} ELSE {})
Restart == polls' = {Poll({})}

Init ==
  /\ last = 0 /\ active = Sessions /\ listed = Sessions
  /\ signed = FALSE /\ old = 0
  /\ cursor = 0 /\ boot = FALSE /\ polls = {} /\ handled = 0 /\ overlap = FALSE
  /\ counts = [e \in Events |-> 0] /\ cooldown = FALSE /\ incident = FALSE
  /\ hushed = FALSE /\ alerts = {} /\ caseView = FALSE /\ opening = FALSE
  /\ confirm = Closed

SignIn ==
  /\ ~signed /\ signed' = TRUE /\ Restart
  /\ UNCHANGED <<last, active, listed, old, cursor, boot, handled, overlap, raised, hushed,
                 alerts, case, confirm>>

(* Signing out cleans every effect up and resets the feed; the answer to   *)
(* openSecurityIncident still arrives.                                     *)
MutSignOut ==
  /\ signed /\ signed' = FALSE
  /\ UNCHANGED polls /\ handled' = 0 /\ overlap' = FALSE /\ cursor' = 0 /\ boot' = FALSE
  /\ counts' = [e \in Events |-> 0] /\ cooldown' = FALSE /\ incident' = FALSE
  /\ hushed' = FALSE /\ alerts' = {} /\ caseView' = FALSE
  /\ UNCHANGED <<last, active, listed, old, opening, confirm>>
SignOut ==
  /\ signed /\ signed' = FALSE
  /\ polls' = {} /\ handled' = 0 /\ overlap' = FALSE /\ cursor' = 0 /\ boot' = FALSE
  /\ counts' = [e \in Events |-> 0] /\ cooldown' = FALSE /\ incident' = FALSE
  /\ hushed' = FALSE /\ alerts' = {} /\ caseView' = FALSE
  /\ UNCHANGED <<last, active, listed, old, opening, confirm>>

Interval ==
  /\ signed /\ Cardinality(polls) < MaxPolls
  /\ polls' = polls \cup {Poll(polls)}
  /\ overlap' = (overlap \/ polls # {})
  /\ UNCHANGED <<last, active, listed, signed, old, cursor, boot, handled, raised, hushed,
                 alerts, case, confirm>>

(* The poll of the active case (15 s) stores a new object each time, and   *)
(* so does the answer to an opening: the feed's effect runs again.         *)
SetCase(view) == caseView' = view /\ IF signed THEN Restart ELSE UNCHANGED polls
CasePolled ==
  /\ signed /\ \E view \in BOOLEAN : SetCase(view)
  /\ UNCHANGED <<last, active, listed, signed, old, cursor, boot, handled, overlap, raised,
                 hushed, alerts, opening, confirm>>
Opened ==
  /\ opening /\ opening' = FALSE
  /\ (\E view \in BOOLEAN : SetCase(view)) \/ UNCHANGED <<caseView, polls>>
  /\ UNCHANGED <<last, active, listed, signed, old, cursor, boot, handled, overlap, raised,
                 hushed, alerts, confirm>>

(* openIncidentCase of the banner.                                         *)
openIncidentCase ==
  /\ incident /\ ~caseView /\ ~opening /\ opening' = TRUE
  /\ UNCHANGED <<last, active, listed, signed, old, feed, raised, hushed, alerts,
                 caseView, confirm>>

(* closeIncidentCase waits for the server, then patches the view.          *)
closeIncidentCase ==
  /\ incident /\ caseView /\ SetCase(FALSE)
  /\ UNCHANGED <<last, active, listed, signed, old, cursor, boot, handled, overlap, raised,
                 hushed, alerts, opening, confirm>>

(* Another profile takes effect with the next answer.                      *)
setLiveAlertProfile ==
  /\ signed /\ Restart
  /\ UNCHANGED <<last, active, listed, signed, old, cursor, boot, handled, overlap, raised,
                 hushed, alerts, case, confirm>>

-----------------------------------------------------------------------------
(* The answer to a poll.                                                   *)

MutPriority(a, b) == a > b
compareLiveAlertPriority(a, b) ==
  IF (a \in Critical) = (b \in Critical) THEN a > b ELSE a \in Critical
Above(e, S) == {f \in S : f # e /\ compareLiveAlertPriority(f, e)}

(* The best of each severity up to its cap, and of all up to the total.    *)
capLiveAlertsBySeverity(S, profile) ==
  LET cap == MaxVisible[profile]
      kept == {e \in S : IF e \in Critical
                         THEN Cardinality(Above(e, S) \cap Critical) < cap.critical
                         ELSE Cardinality(Above(e, S) \ Critical) < cap.warning}
  IN {e \in kept : Cardinality(Above(e, kept)) < cap.total}

Items(p) == {e \in Events : p.since < e /\ e <= p.upto}

(* Only what is already counted is limited to the last five minutes.       *)
NewCounts(p) ==
  [e \in Events |->
     LET kept == IF e <= old THEN 0 ELSE counts[e]
     IN IF e \in Items(p) \cap Critical THEN Min({2, kept + 1}) ELSE kept]
Counted(c) ==
  Cardinality({e \in Events : c[e] >= 1}) + Cardinality({e \in Events : c[e] >= 2})

(* A warning is not shown while warnings are throttled, and starts to      *)
(* throttle those that follow it; a critical event has no cooldown.  The   *)
(* one toast that stands for all throttled warnings of an answer is left   *)
(* out: it names none of them.                                             *)
Incoming(p) ==
  LET new == Items(p) \ alerts
      warned == IF hushed \/ new \subseteq Critical THEN {} ELSE {Max(new \ Critical)}
  IN (new \cap Critical) \cup warned

MutSkip(p) == IF Items(p) = {} THEN p.since ELSE last
NextCursor(p) == Max({p.since, p.upto})

Answer(p, profile) ==
  /\ p \in polls
  /\ polls' = polls \ {p} /\ cursor' = NextCursor(p)
  /\ handled' = IF ~boot \/ p.since <= handled THEN Max({handled, p.upto}) ELSE handled
  /\ \/ ~boot /\ boot' = TRUE /\ UNCHANGED <<raised, opening, hushed, alerts>>
     \/ /\ boot /\ Items(p) = {} /\ UNCHANGED <<boot, raised, opening, hushed, alerts>>
     \/ /\ boot /\ Items(p) # {}
        /\ counts' = NewCounts(p)
        /\ LET raise == Counted(counts') >= Threshold /\ ~cooldown
           IN /\ cooldown' = (cooldown \/ raise)
              /\ incident' = (incident \/ raise)
              /\ opening' = (opening \/ (raise /\ ~caseView))
        /\ alerts' = capLiveAlertsBySeverity(alerts \cup Incoming(p), profile)
        /\ hushed' = (hushed \/ Incoming(p) \ Critical # {})
        /\ UNCHANGED boot
  /\ UNCHANGED <<last, active, listed, signed, old, overlap, caseView, confirm>>

(* A poll that fails leaves the cursor where it is.                        *)
Fail(p) ==
  /\ p \in polls /\ polls' = polls \ {p}
  /\ UNCHANGED <<last, active, listed, signed, old, cursor, boot, handled, overlap, raised,
                 hushed, alerts, case, confirm>>

-----------------------------------------------------------------------------
(* Time, the server and the user.                                          *)

Event ==
  /\ last < MaxEvents /\ last' = last + 1
  /\ UNCHANGED <<active, listed, signed, old, feed, raised, hushed, alerts, case,
                 confirm>>

FiveMinutes ==
  /\ old < last /\ old' = last /\ cooldown' = FALSE
  /\ UNCHANGED <<last, active, listed, signed, feed, counts, incident, hushed, alerts,
                 case, confirm>>

Unhush ==
  /\ hushed /\ hushed' = FALSE
  /\ UNCHANGED <<last, active, listed, signed, old, feed, raised, alerts, case, confirm>>

(* After 9 s without a change the last toast leaves.                       *)
ExpireLast ==
  /\ alerts # {}
  /\ alerts' = alerts \ {CHOOSE e \in alerts : \A f \in alerts \ {e} : compareLiveAlertPriority(f, e)}
  /\ UNCHANGED <<last, active, listed, signed, old, feed, raised, hushed, case, confirm>>

dismissLiveSecurityAlert(e) ==
  /\ e \in alerts /\ alerts' = alerts \ {e}
  /\ UNCHANGED <<last, active, listed, signed, old, feed, raised, hushed, case, confirm>>

dismissLiveSecurityIncident ==
  /\ incident /\ incident' = FALSE
  /\ UNCHANGED <<last, active, listed, signed, old, feed, counts, cooldown, hushed,
                 alerts, case, confirm>>

(* The sessions of recent toasts (and of recent audit items, which name    *)
(* the same events) that the list shows as active.                         *)
activeIncidentSuspectSessions ==
  IF incident THEN {SessionOf[e] : e \in {f \in alerts : f > old}} \cap listed ELSE {}

requestTerminateIncidentSuspects ==
  /\ confirm.st = "closed" /\ activeIncidentSuspectSessions # {}
  /\ confirm' = [Closed EXCEPT !.st = "open"]
  /\ UNCHANGED <<last, active, listed, signed, old, feed, raised, hushed, alerts, case>>

CancelTerminate ==
  /\ confirm.st = "open" /\ confirm' = Closed
  /\ UNCHANGED <<last, active, listed, signed, old, feed, raised, hushed, alerts, case>>

confirmTerminateIncidentSuspects ==
  /\ confirm.st = "open" /\ activeIncidentSuspectSessions # {}
  /\ confirm' = [st |-> "busy", ids |-> activeIncidentSuspectSessions]
  /\ UNCHANGED <<last, active, listed, signed, old, feed, raised, hushed, alerts, case>>

(* Each termination succeeds or fails by itself; the list takes over the   *)
(* ones that were confirmed.                                               *)
Terminated ==
  /\ confirm.st = "busy" /\ confirm' = Closed
  /\ \E ok \in SUBSET confirm.ids :
       \E done \in SUBSET confirm.ids :
         ok \subseteq done /\ active' = active \ done /\ listed' = listed \ ok
  /\ UNCHANGED <<last, signed, old, feed, raised, hushed, alerts, case>>

-----------------------------------------------------------------------------
Next ==
  \/ SignIn \/ SignOut \/ Interval \/ CasePolled \/ Opened
  \/ openIncidentCase \/ closeIncidentCase \/ setLiveAlertProfile
  \/ \E p \in polls : (\E profile \in Profiles : Answer(p, profile)) \/ Fail(p)
  \/ Event \/ FiveMinutes \/ Unhush \/ ExpireLast
  \/ \E e \in alerts : dismissLiveSecurityAlert(e)
  \/ dismissLiveSecurityIncident
  \/ requestTerminateIncidentSuspects \/ CancelTerminate
  \/ confirmTerminateIncidentSuspects \/ Terminated

Spec == Init /\ [][Next]_vars

-----------------------------------------------------------------------------
(* As long as no two polls of one effect overlap, a critical event counts  *)
(* once towards an incident: however often the effect is cleaned up and    *)
(* polls again, and whatever poll fails.                                   *)
CountedOnce == ~overlap => \A e \in Events : counts[e] <= 1

(* Signed out, the tab shows no alert and no incident, and an answer that  *)
(* was under way cannot bring one back nor move the cursor the next        *)
(* account starts from.                                                    *)
QuietSignedOut ==
  ~signed => alerts = {} /\ ~incident /\ cursor = 0 /\ ~boot /\ counts = [e \in Events |-> 0]

(* No event is skipped: the cursor never passes an event that was not in   *)
(* an answer of this sign-in, or older than its first answer, even when    *)
(* polls overlap, fail, or are dropped by a new run of the effect.         *)
NothingSkipped == boot => cursor <= handled

(* A critical toast gives way only to newer critical ones: the answer to a *)
(* poll keeps it while the cap allows, and the 9 s timer takes every       *)
(* warning before it.                                                      *)
CriticalStays ==
  [][/\ ExpireLast /\ ~(alerts \ alerts' \subseteq alerts \ Critical) => alerts \subseteq Critical
     /\ \A p \in polls, profile \in Profiles : \A e \in (alerts \cup Items(p)) \cap Critical :
          Answer(p, profile) /\ boot /\ Items(p) # {} /\ e \notin alerts'
          => Cardinality({f \in alerts' \cap Critical : f > e}) >= MaxVisible[profile].critical]_vars
=============================================================================
