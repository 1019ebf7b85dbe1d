------------------------ MODULE ConsoleAlertsProofs ------------------------
(***************************************************************************)
(* Proofs about ConsoleAlerts, for any number of events, polls and toasts: *)
(* an event counts once towards an incident while polls do not overlap, no *)
(* event is skipped, a tab that is signed out stays quiet, and a critical  *)
(* toast gives way only to newer critical ones.                            *)
(***************************************************************************)
EXTENDS ConsoleAlerts, FiniteSetTheorems, WellFoundedInduction, TLAPS

-----------------------------------------------------------------------------
(* Least and greatest elements, and what the caps of the toasts keep.      *)

(* The natural numbers with <, a well-founded relation.                    *)
LessNat == {ss \in Nat \X Nat : ss[1] < ss[2]}

(* A nonempty set of natural numbers has a least element.                  *)
LEMMA Least ==
  ASSUME NEW S \in SUBSET Nat, S # {}
  PROVE  \E x \in S : \A y \in S : x <= y
<1>1. IsWellFoundedOn(LessNat, Nat)
  BY NatLessThanWellFounded DEF OpToRel, LessNat
<1>2. PICK x \in S : \A y \in S : <<y, x>> \notin LessNat
  BY <1>1, WFMin
<1>3. ASSUME NEW y \in S PROVE x <= y
  <2>1. x \in Nat /\ y \in Nat
    OBVIOUS
  <2>2. y < x => <<y, x>> \in LessNat
    BY <2>1 DEF LessNat
  <2> QED BY <1>2, <2>1, <2>2
<1> QED BY <1>3

(* A nonempty set of events has a newest one.                              *)
LEMMA Newest ==
  ASSUME NEW S \in SUBSET Events, S # {}
  PROVE  \E x \in S : \A y \in S : y <= x
<1> USE AlertsAssumption DEF Events
<1> DEFINE Above0 == {n \in Nat : \A y \in S : y <= n}
<1>1. MaxEvents \in Above0
  OBVIOUS
<1>2. PICK n \in Above0 : \A m \in Above0 : n <= m
  BY <1>1, Least
<1>3. n \in S
  <2>1. SUFFICES ASSUME n \notin S PROVE FALSE
    OBVIOUS
  <2>2. PICK y \in S : TRUE
    OBVIOUS
  <2>3. n \in Nat /\ y \in Nat \ {0} /\ y <= n
    BY <2>2
  <2>4. \A z \in S : z <= n - 1
    BY <2>1, <2>3
  <2>5. n - 1 \in Above0
    BY <2>3, <2>4
  <2> QED BY <1>2, <2>3, <2>5
<1> QED BY <1>3

(* Sets of events are finite.                                              *)
LEMMA EventsFinite ==
  ASSUME NEW S \in SUBSET Events
  PROVE  IsFiniteSet(S) /\ Cardinality(S) \in Nat
<1>1. IsFiniteSet(Events)
  BY AlertsAssumption, FS_Interval DEF Events
<1>2. IsFiniteSet(S)
  BY <1>1, FS_Subset
<1> QED BY <1>2, FS_CardinalityType

(* The newest ones of a set: fewer than k others are newer.                *)
Top(D, k) == {f \in D : Cardinality({g \in D : g > f}) < k}

(* Of at least k events, the cap k keeps at least k.                       *)
LEMMA TopIsFull ==
  ASSUME NEW D \in SUBSET Events, NEW k \in Nat, Cardinality(D) >= k
  PROVE  Cardinality(Top(D, k)) >= k
<1> DEFINE T == Top(D, k)
<1>t. T \subseteq D
  BY DEF Top
<1>f. /\ IsFiniteSet(D) /\ Cardinality(D) \in Nat
      /\ IsFiniteSet(T) /\ Cardinality(T) \in Nat
  BY <1>t, EventsFinite
<1>1. SUFFICES ASSUME Cardinality(T) < k PROVE FALSE
  BY <1>f
<1>2. D \ T # {}
  BY <1>1, <1>f, <1>t
<1>3. PICK m \in D \ T : \A y \in D \ T : y <= m
  BY <1>2, Newest
<1>4. {g \in D : g > m} \subseteq T
  <2> SUFFICES ASSUME NEW g \in D, g > m, g \notin T PROVE FALSE
    OBVIOUS
  <2>1. g \in D \ T /\ g <= m
    BY <1>3
  <2>2. g \in Int /\ m \in Int
    BY AlertsAssumption DEF Events
  <2> QED BY <2>1, <2>2
<1>5. Cardinality({g \in D : g > m}) <= Cardinality(T)
  BY <1>4, <1>f, FS_Subset
<1>6. Cardinality({g \in D : g > m}) \in Nat
  BY EventsFinite
<1>7. Cardinality({g \in D : g > m}) < k
  BY <1>1, <1>5, <1>6, <1>f
<1> QED BY <1>3, <1>7 DEF Top

(* Among critical events the newer one comes first, and every critical     *)
(* event comes before a warning.                                           *)
LEMMA CriticalFirst ==
  ASSUME NEW S \in SUBSET Events, NEW e \in Critical
  PROVE  Above(e, S) = {f \in S \cap Critical : f > e}
<1>1. e \in Nat /\ \A f \in S : f \in Nat
  BY AlertsAssumption DEF Events
<1> QED BY <1>1 DEF Above, compareLiveAlertPriority

(* The critical toasts that are kept are the newest ones, up to the cap.   *)
LEMMA CappedCritical ==
  ASSUME NEW S \in SUBSET Events, NEW profile \in Profiles
  PROVE  capLiveAlertsBySeverity(S, profile) \cap Critical
           = Top(S \cap Critical, MaxVisible[profile].critical)
<1> DEFINE k == MaxVisible[profile].critical
           total == MaxVisible[profile].total
           C == S \cap Critical
           kept == {e \in S : IF e \in Critical
                       THEN Cardinality(Above(e, S) \cap Critical) < MaxVisible[profile].critical
                       ELSE Cardinality(Above(e, S) \ Critical) < MaxVisible[profile].warning}
<1>k. k \in Nat /\ total \in Nat /\ k <= total
  BY AlertsAssumption
<1>1. ASSUME NEW e \in C
      PROVE  Above(e, S) \cap Critical = {g \in C : g > e}
  BY CriticalFirst
<1>2. kept \cap Critical = Top(C, k)
  BY <1>1 DEF Top
<1>3. ASSUME NEW e \in kept \cap Critical
      PROVE  Cardinality(Above(e, kept)) < total
  <2>1. Above(e, kept) = {g \in kept \cap Critical : g > e}
    BY CriticalFirst
  <2>2. Above(e, kept) \subseteq {g \in C : g > e}
    BY <2>1
  <2>3. Cardinality({g \in C : g > e}) < k
    BY <1>2 DEF Top
  <2>4. /\ IsFiniteSet({g \in C : g > e})
        /\ Cardinality({g \in C : g > e}) \in Nat
        /\ Cardinality(Above(e, kept)) \in Nat
    BY <2>2, EventsFinite
  <2>5. Cardinality(Above(e, kept)) <= Cardinality({g \in C : g > e})
    BY <2>2, <2>4, FS_Subset
  <2> QED BY <1>k, <2>3, <2>4, <2>5
<1>4. capLiveAlertsBySeverity(S, profile)
        = {e \in kept : Cardinality(Above(e, kept)) < total}
  BY DEF capLiveAlertsBySeverity
<1> QED BY <1>2, <1>3, <1>4

(* A critical event that the caps leave out has given way to as many newer *)
(* critical ones as the cap allows.                                        *)
LEMMA GivesWay ==
  ASSUME NEW S \in SUBSET Events, NEW profile \in Profiles, NEW e \in S \cap Critical,
         e \notin capLiveAlertsBySeverity(S, profile)
  PROVE  Cardinality({f \in capLiveAlertsBySeverity(S, profile) \cap Critical : f > e})
           >= MaxVisible[profile].critical
<1> DEFINE k == MaxVisible[profile].critical
           C == S \cap Critical
           D == {g \in C : g > e}
<1>k. k \in Nat
  BY AlertsAssumption
<1>1. capLiveAlertsBySeverity(S, profile) \cap Critical = Top(C, k)
  BY CappedCritical
<1>2. Cardinality(D) \in Nat
  BY EventsFinite
<1>3. ~(Cardinality(D) < k)
  BY <1>1 DEF Top
<1>4. Cardinality(D) >= k
  BY <1>2, <1>3, <1>k
<1>5. D \in SUBSET Events
  OBVIOUS
<1>6. Cardinality(Top(D, k)) >= k
  BY <1>4, <1>5, <1>k, TopIsFull
<1>7. ASSUME NEW f \in D PROVE {g \in D : g > f} = {g \in C : g > f}
  <2>1. e \in Int /\ f \in Int /\ f > e /\ \A g \in C : g \in Int
    BY AlertsAssumption DEF Events
  <2>2. \A g \in C : g > f => g > e
    BY <2>1
  <2> QED BY <2>2
<1>8. Top(D, k) = {f \in Top(C, k) : f > e}
  BY <1>7 DEF Top
<1> QED BY <1>1, <1>6, <1>8

(* The last toast is a critical one only when there is no warning.         *)
LEMMA LastToast ==
  ASSUME alerts \subseteq Events, ExpireLast, ~(alerts \ alerts' \subseteq alerts \ Critical)
  PROVE  alerts \subseteq Critical
<1> DEFINE Last(e) == \A f \in alerts \ {e} : compareLiveAlertPriority(f, e)
           x == CHOOSE e \in alerts : Last(e)
<1>n. alerts \subseteq Nat
  BY AlertsAssumption DEF Events
<1>1. alerts # {} /\ alerts' = alerts \ {x}
  BY DEF ExpireLast
<1>2. \E e \in alerts : Last(e)
  <2>1. CASE alerts \subseteq Critical
    <3>1. PICK e \in alerts : \A f \in alerts : e <= f
      BY <1>1, <1>n, Least
    <3>2. Last(e)
      BY <2>1, <3>1, <1>n DEF compareLiveAlertPriority
    <3> QED BY <3>2
  <2>2. CASE ~(alerts \subseteq Critical)
    <3>1. PICK e \in alerts \ Critical : \A f \in alerts \ Critical : e <= f
      BY <2>2, <1>n, Least
    <3>2. Last(e)
      BY <3>1, <1>n DEF compareLiveAlertPriority
    <3> QED BY <3>2
  <2> QED BY <2>1, <2>2
<1>3. x \in alerts /\ Last(x)
  BY <1>2
<1> HIDE DEF x
<1>4. x \in Critical
  BY <1>1
<1> QED BY <1>3, <1>4 DEF compareLiveAlertPriority

-----------------------------------------------------------------------------
(* The inductive invariant.                                                *)

FeedTypes ==
  /\ last \in Nat /\ last <= MaxEvents
  /\ cursor \in Nat /\ handled \in Nat
  /\ \A p \in polls : p.since \in Nat /\ p.upto \in Nat
  /\ counts \in [Events -> Nat] /\ alerts \subseteq Events

(* A tab that is signed out has no poll under way: that is why no answer   *)
(* can disturb what QuietSignedOut says.                                   *)
NoPolls == ~signed => polls = {}

(* Every poll starts where an answer was handled; before the first answer  *)
(* of a sign-in, at the beginning.                                         *)
PollsKnown ==
  /\ boot => \A p \in polls : p.since <= handled
  /\ ~boot => cursor = 0 /\ \A p \in polls : p.since = 0

(* Without overlap there is at most one poll, it asks for what follows the *)
(* cursor, and only events up to the cursor are counted.                   *)
Alone ==
  ~overlap => /\ \A p, q \in polls : p = q
              /\ \A p \in polls : p.since = cursor
              /\ \A e \in Events : counts[e] # 0 => e <= cursor

Feed == /\ FeedTypes /\ NoPolls /\ PollsKnown /\ Alone
        /\ CountedOnce /\ QuietSignedOut /\ NothingSkipped

(* Before the tab polls anything the invariant holds.                      *)
LEMMA InitFeed == Init => Feed
<1> SUFFICES ASSUME Init PROVE Feed
  OBVIOUS
<1> USE AlertsAssumption DEF Init
<1>1. FeedTypes
  BY DEF FeedTypes
<1>2. NoPolls /\ PollsKnown /\ Alone /\ CountedOnce /\ QuietSignedOut /\ NothingSkipped
  BY DEF NoPolls, PollsKnown, Alone, CountedOnce, QuietSignedOut, NothingSkipped
<1> QED BY <1>1, <1>2 DEF Feed

(* A step that leaves cursor and counts alone, drops polls or cleans the   *)
(* effect up and polls again, and adds no toast and no incident.           *)
Calm ==
  /\ UNCHANGED <<cursor, boot, handled, overlap, counts>>
  /\ last' \in Nat /\ last' <= MaxEvents
  /\ \/ polls' \subseteq polls /\ (signed' <=> signed)
     \/ polls' = {Poll({})} /\ signed'
  /\ alerts' \subseteq alerts /\ (incident' => incident)

(* A poll asks for what follows the cursor.                                *)
LEMMA PollType ==
  ASSUME NEW ps
  PROVE  Poll(ps).since = cursor /\ Poll(ps).upto = last
BY DEF Poll

(* Calm steps preserve the invariant.                                      *)
LEMMA CalmFeed ==
  ASSUME Feed, Calm
  PROVE  Feed'
<1>1. FeedTypes /\ NoPolls /\ PollsKnown /\ Alone
      /\ CountedOnce /\ QuietSignedOut /\ NothingSkipped
  BY DEF Feed
<1>2. UNCHANGED <<cursor, boot, handled, overlap, counts>>
  BY DEF Calm
<1>3. \A p \in polls' : p \in polls \/ (p.since = cursor /\ p.upto = last)
  BY PollType DEF Calm
<1>4. \A p, q \in polls' : p = q \/ (p \in polls /\ q \in polls)
  BY DEF Calm
<1>5. ~signed' => ~signed /\ polls' \subseteq polls
  BY DEF Calm
<1>6. alerts' \subseteq alerts /\ (incident' => incident)
      /\ last' \in Nat /\ last' <= MaxEvents
  BY DEF Calm
<1>7. FeedTypes'
  BY <1>1, <1>2, <1>3, <1>6 DEF FeedTypes
<1>8. NoPolls' /\ QuietSignedOut'
  BY <1>1, <1>2, <1>5, <1>6 DEF NoPolls, QuietSignedOut
<1>9. PollsKnown' /\ NothingSkipped'
  BY <1>1, <1>2, <1>3 DEF PollsKnown, NothingSkipped
<1>10. Alone' /\ CountedOnce'
  BY <1>1, <1>2, <1>3, <1>4 DEF Alone, CountedOnce
<1> QED BY <1>7, <1>8, <1>9, <1>10 DEF Feed

(* All steps but SignOut, Interval and Answer are calm.                    *)
LEMMA CalmSteps ==
  ASSUME Feed, [Next]_vars
  PROVE  Calm \/ SignOut \/ Interval \/ \E p \in polls, profile \in Profiles : Answer(p, profile)
<1>t. last \in Nat /\ last <= MaxEvents /\ MaxEvents \in Nat
  BY AlertsAssumption DEF Feed, FeedTypes
<1> USE DEF feed, raised, case
<1>1. CASE SignIn \/ setLiveAlertProfile
  BY <1>1, <1>t DEF SignIn, setLiveAlertProfile, Restart, Calm
<1>2. CASE CasePolled \/ closeIncidentCase \/ Opened
  <2>1. /\ UNCHANGED <<last, signed, cursor, boot, handled, overlap, counts, incident, alerts>>
        /\ polls' = polls \/ (polls' = {Poll({})} /\ signed)
    BY <1>2, Zenon DEF CasePolled, closeIncidentCase, Opened, SetCase, Restart
  <2> QED BY <2>1, <1>t DEF Calm
<1>3. CASE openIncidentCase \/ FiveMinutes \/ Unhush \/ dismissLiveSecurityIncident
           \/ requestTerminateIncidentSuspects \/ CancelTerminate
           \/ confirmTerminateIncidentSuspects \/ Terminated \/ UNCHANGED vars
  <2>1. /\ UNCHANGED <<last, signed, polls, cursor, boot, handled, overlap, counts, alerts>>
        /\ incident' = incident \/ incident' = FALSE
    BY <1>3, Zenon DEF openIncidentCase, FiveMinutes, Unhush, dismissLiveSecurityIncident,
      requestTerminateIncidentSuspects, CancelTerminate, confirmTerminateIncidentSuspects,
      Terminated, vars
  <2> QED BY <2>1, <1>t DEF Calm
<1>4. CASE Event
  <2>1. /\ UNCHANGED <<signed, polls, cursor, boot, handled, overlap, counts, alerts, incident>>
        /\ last < MaxEvents /\ last' = last + 1
    BY <1>4, Zenon DEF Event
  <2> QED BY <2>1, <1>t DEF Calm
<1>5. CASE ExpireLast \/ \E e \in alerts : dismissLiveSecurityAlert(e)
  <2>1. /\ UNCHANGED <<last, signed, polls, cursor, boot, handled, overlap, counts, incident>>
        /\ alerts' \subseteq alerts
    BY <1>5 DEF ExpireLast, dismissLiveSecurityAlert
  <2> QED BY <2>1, <1>t DEF Calm
<1>6. CASE \E p \in polls : Fail(p)
  <2>1. /\ UNCHANGED <<last, signed, cursor, boot, handled, overlap, counts, alerts, incident>>
        /\ polls' \subseteq polls
    BY <1>6 DEF Fail
  <2> QED BY <2>1, <1>t DEF Calm
<1> QED BY <1>1, <1>2, <1>3, <1>4, <1>5, <1>6, Zenon DEF Next

(* Signing out drops the polls and starts from the beginning.              *)
LEMMA SignOutFeed ==
  ASSUME Feed, SignOut
  PROVE  Feed'
<1>1. /\ signed' = FALSE /\ polls' = {} /\ handled' = 0 /\ cursor' = 0 /\ boot' = FALSE
      /\ counts' = [e \in Events |-> 0] /\ incident' = FALSE /\ alerts' = {} /\ last' = last
  BY Zenon DEF SignOut
<1>2. last \in Nat /\ last <= MaxEvents
  BY DEF Feed, FeedTypes
<1> QED
  BY <1>1, <1>2 DEF Feed, FeedTypes, NoPolls, PollsKnown, Alone, CountedOnce,
    QuietSignedOut, NothingSkipped

(* The next poll of an effect is alone, or the overlap is known.           *)
LEMMA IntervalFeed ==
  ASSUME Feed, Interval
  PROVE  Feed'
<1>1. FeedTypes /\ NoPolls /\ PollsKnown /\ Alone
      /\ CountedOnce /\ QuietSignedOut /\ NothingSkipped
  BY DEF Feed
<1>2. /\ UNCHANGED <<last, signed, cursor, boot, handled, counts, alerts, incident>>
      /\ polls' = polls \cup {Poll(polls)}
      /\ signed /\ (~overlap' => ~overlap /\ polls = {})
  BY Zenon DEF Interval, raised
<1>3. \A p \in polls' : p \in polls \/ (p.since = cursor /\ p.upto = last)
  BY <1>2, PollType
<1>4. ~overlap' => \A p, q \in polls' : p = q
  BY <1>2
<1>7. FeedTypes'
  BY <1>1, <1>2, <1>3 DEF FeedTypes
<1>8. NoPolls' /\ QuietSignedOut'
  BY <1>2 DEF NoPolls, QuietSignedOut
<1>9. PollsKnown' /\ NothingSkipped'
  BY <1>1, <1>2, <1>3 DEF PollsKnown, NothingSkipped
<1>10. Alone' /\ CountedOnce'
  BY <1>1, <1>2, <1>3, <1>4 DEF Alone, CountedOnce
<1> QED BY <1>7, <1>8, <1>9, <1>10 DEF Feed

(* The greater and the smaller of two numbers.                             *)
LEMMA OfTwo ==
  ASSUME NEW a \in Nat, NEW b \in Nat
  PROVE  /\ Max({a, b}) = IF a >= b THEN a ELSE b
         /\ Min({a, b}) = IF a <= b THEN a ELSE b
BY DEF Max, Min

(* An answer counts each of its events once, and only its events.          *)
LEMMA NewCountsOnce ==
  ASSUME counts \in [Events -> Nat], NEW p, NEW e \in Events
  PROVE  /\ NewCounts(p) \in [Events -> Nat]
         /\ NewCounts(p)[e] # 0 => counts[e] # 0 \/ (p.since < e /\ e <= p.upto)
         /\ NewCounts(p)[e] <= counts[e]
            \/ (p.since < e /\ e <= p.upto /\ NewCounts(p)[e] <= counts[e] + 1)
<1> DEFINE kept(f) == IF f <= old THEN 0 ELSE counts[f]
<1>1. \A f \in Events : kept(f) \in Nat /\ kept(f) <= counts[f]
  OBVIOUS
<1>2. \A f \in Events : NewCounts(p)[f]
        = IF f \in Items(p) \cap Critical THEN Min({2, kept(f) + 1}) ELSE kept(f)
  BY DEF NewCounts
<1>3. ASSUME NEW f \in Events
      PROVE  Min({2, kept(f) + 1}) \in Nat /\ Min({2, kept(f) + 1}) <= kept(f) + 1
  <2> DEFINE n == kept(f) + 1
  <2>1. n \in Nat /\ 2 \in Nat
    BY <1>1
  <2> HIDE DEF n
  <2>2. Min({2, n}) = IF 2 <= n THEN 2 ELSE n
    BY <2>1, OfTwo
  <2>3. Min({2, n}) \in Nat /\ Min({2, n}) <= n
    BY <2>1, <2>2
  <2> QED BY <2>3 DEF n
<1> HIDE DEF kept
<1>4. NewCounts(p) \in [Events -> Nat]
  <2>1. \A f \in Events : NewCounts(p)[f] \in Nat
    BY <1>1, <1>2, <1>3
  <2>2. NewCounts(p) = [f \in Events |-> NewCounts(p)[f]]
    BY DEF NewCounts
  <2> QED BY <2>1, <2>2
<1>5. e \in Items(p) => p.since < e /\ e <= p.upto
  BY DEF Items
<1> DEFINE n == NewCounts(p)[e]
           m == Min({2, kept(e) + 1})
<1>6. n = kept(e) \/ (e \in Items(p) /\ n = m)
  BY <1>2
<1>7. kept(e) \in Nat /\ kept(e) <= counts[e] /\ counts[e] \in Nat
      /\ m \in Nat /\ m <= kept(e) + 1
  BY <1>1, <1>3
<1> HIDE DEF n, m
<1>8. (n # 0 => counts[e] # 0 \/ e \in Items(p))
      /\ (n <= counts[e] \/ (e \in Items(p) /\ n <= counts[e] + 1))
  BY <1>6, <1>7
<1> QED BY <1>4, <1>5, <1>8 DEF n

(* What an answer adds to the toasts are events.                           *)
LEMMA IncomingKnown ==
  ASSUME NEW p
  PROVE  Incoming(p) \subseteq Events
<1>1. Items(p) \subseteq Events
  BY DEF Items
<1>2. CASE ~(Items(p) \ alerts \subseteq Critical)
  <2> DEFINE W == (Items(p) \ alerts) \ Critical
  <2>1. W \in SUBSET Events /\ W # {}
    BY <1>1, <1>2
  <2>2. Max(W) \in Events
    BY <2>1, Newest, EventsFinite DEF Max, Events
  <2> QED BY <1>1, <2>2 DEF Incoming
<1>3. CASE Items(p) \ alerts \subseteq Critical
  BY <1>1, <1>3 DEF Incoming
<1> QED BY <1>2, <1>3

(* The answer to a poll moves the cursor to what it brought, which is now  *)
(* handled, and counts only what lies beyond the old cursor.               *)
LEMMA AnswerFeed ==
  ASSUME Feed, NEW p \in polls, NEW profile \in Profiles, Answer(p, profile)
  PROVE  Feed'
<1>1. FeedTypes /\ NoPolls /\ PollsKnown /\ Alone
      /\ CountedOnce /\ QuietSignedOut /\ NothingSkipped
  BY DEF Feed
<1>2. /\ UNCHANGED <<last, signed, overlap>>
      /\ polls' = polls \ {p} /\ cursor' = NextCursor(p)
      /\ handled' = IF ~boot \/ p.since <= handled THEN Max({handled, p.upto}) ELSE handled
      /\ signed
  BY <1>1, Zenon DEF Answer, NoPolls
<1>3. /\ p.since \in Nat /\ p.upto \in Nat /\ handled \in Nat /\ cursor \in Nat
      /\ counts \in [Events -> Nat] /\ alerts \subseteq Events
  BY <1>1 DEF FeedTypes
<1>4. (~boot => p.since = 0) /\ (boot => p.since <= handled)
  BY <1>1 DEF PollsKnown
<1>5. handled' \in Nat /\ handled' >= handled /\ handled' >= p.upto
  BY <1>2, <1>3, <1>4, OfTwo
<1>6. cursor' \in Nat /\ cursor' >= p.since /\ cursor' >= p.upto
      /\ cursor' \in {p.since, p.upto}
  BY <1>2, <1>3, OfTwo DEF NextCursor
<1>7. boot'
  <2>1. boot' = TRUE \/ (boot /\ boot' = boot)
    BY Zenon DEF Answer
  <2> QED BY <2>1
<1>8. counts' = counts \/ counts' = NewCounts(p)
  BY Zenon DEF Answer, raised
<1>9. alerts' \subseteq Events
  <2>1. \/ alerts' = alerts
        \/ Items(p) # {} /\ alerts' = capLiveAlertsBySeverity(alerts \cup Incoming(p), profile)
    BY Zenon DEF Answer
  <2>2. capLiveAlertsBySeverity(alerts \cup Incoming(p), profile) \subseteq alerts \cup Incoming(p)
    BY DEF capLiveAlertsBySeverity
  <2> QED BY <2>1, <2>2, <1>3, IncomingKnown
<1>10. FeedTypes'
  <2>1. counts' \in [Events -> Nat]
    <3>1. MaxEvents \in Events
      BY AlertsAssumption DEF Events
    <3> QED BY <1>3, <1>8, <3>1, NewCountsOnce
  <2> QED BY <1>1, <1>2, <1>5, <1>6, <1>9, <2>1 DEF FeedTypes
<1>11. NoPolls' /\ QuietSignedOut'
  BY <1>2 DEF NoPolls, QuietSignedOut
<1>12. cursor' <= handled'
  BY <1>3, <1>4, <1>5, <1>6
<1>13. PollsKnown' /\ NothingSkipped'
  <2>1. \A q \in polls' : q.since <= handled'
    <3> SUFFICES ASSUME NEW q \in polls PROVE q.since <= handled'
      BY <1>2
    <3>1. q.since \in Nat /\ (~boot => q.since = 0) /\ (boot => q.since <= handled)
      BY <1>1 DEF FeedTypes, PollsKnown
    <3> QED BY <3>1, <1>3, <1>5
  <2> QED BY <2>1, <1>7, <1>12 DEF PollsKnown, NothingSkipped
<1>14. Alone' /\ CountedOnce'
  <2> SUFFICES ASSUME ~overlap
               PROVE  /\ polls' = {}
                      /\ \A e \in Events : (counts'[e] # 0 => e <= cursor') /\ counts'[e] <= 1
    BY <1>2 DEF Alone, CountedOnce
  <2>1. p.since = cursor /\ polls' = {}
    BY <1>1, <1>2 DEF Alone
  <2>2. ASSUME NEW e \in Events
        PROVE  (counts'[e] # 0 => e <= cursor') /\ counts'[e] <= 1
    <3>1. /\ counts[e] \in Nat /\ e \in Nat
          /\ counts[e] # 0 => e <= p.since
          /\ counts[e] <= 1
      BY <1>1, <1>3, <2>1 DEF Alone, CountedOnce, Events
    <3>2. CASE counts' = counts
      BY <3>1, <3>2, <1>3, <1>6
    <3>3. CASE counts' = NewCounts(p)
      <4>1. /\ NewCounts(p)[e] \in Nat
            /\ NewCounts(p)[e] # 0 => counts[e] # 0 \/ (p.since < e /\ e <= p.upto)
            /\ NewCounts(p)[e] <= counts[e]
               \/ (p.since < e /\ e <= p.upto /\ NewCounts(p)[e] <= counts[e] + 1)
        BY <1>3, NewCountsOnce
      <4> QED BY <3>1, <3>3, <4>1, <1>3, <1>6
    <3> QED BY <3>2, <3>3, <1>8
  <2> QED BY <2>1, <2>2
<1> QED BY <1>10, <1>11, <1>13, <1>14 DEF Feed

(* Every step preserves the invariant.                                     *)
LEMMA NextFeed == Feed /\ [Next]_vars => Feed'
BY CalmSteps, CalmFeed, SignOutFeed, IntervalFeed, AnswerFeed

(* The invariant holds in every reachable state.                           *)
LEMMA FeedAlways == Spec => []Feed
BY InitFeed, NextFeed, PTL DEF Spec

-----------------------------------------------------------------------------
(* While no two polls of one effect overlap, a critical event counts once  *)
(* towards an incident.                                                    *)
THEOREM CountedOnceAlways == Spec => []CountedOnce
<1>1. Feed => CountedOnce
  BY DEF Feed
<1> QED BY <1>1, FeedAlways, PTL

(* A tab that is signed out shows nothing, and nothing late brings an      *)
(* alert, an incident or a cursor back.                                    *)
THEOREM QuietSignedOutAlways == Spec => []QuietSignedOut
<1>1. Feed => QuietSignedOut
  BY DEF Feed
<1> QED BY <1>1, FeedAlways, PTL

(* The cursor never passes an event that was in no answer.                 *)
THEOREM NothingSkippedAlways == Spec => []NothingSkipped
<1>1. Feed => NothingSkipped
  BY DEF Feed
<1> QED BY <1>1, FeedAlways, PTL

(* A critical toast gives way only to newer critical ones, whatever the    *)
(* caps of the profile; the timer takes every warning before it.           *)
THEOREM CriticalStaysAlways == Spec => CriticalStays
<1> DEFINE Stays ==
      /\ ExpireLast /\ ~(alerts \ alerts' \subseteq alerts \ Critical) => alerts \subseteq Critical
      /\ \A p \in polls, profile \in Profiles : \A e \in (alerts \cup Items(p)) \cap Critical :
           Answer(p, profile) /\ boot /\ Items(p) # {} /\ e \notin alerts'
           => Cardinality({f \in alerts' \cap Critical : f > e}) >= MaxVisible[profile].critical
<1>1. ASSUME Feed PROVE Stays
  <2>t. alerts \subseteq Events
    BY <1>1 DEF Feed, FeedTypes
  <2>1. ExpireLast /\ ~(alerts \ alerts' \subseteq alerts \ Critical) => alerts \subseteq Critical
    BY <2>t, LastToast
  <2>2. ASSUME NEW p \in polls, NEW profile \in Profiles,
               NEW e \in (alerts \cup Items(p)) \cap Critical,
               Answer(p, profile), boot, Items(p) # {}, e \notin alerts'
        PROVE  Cardinality({f \in alerts' \cap Critical : f > e}) >= MaxVisible[profile].critical
    <3> DEFINE S == alerts \cup Incoming(p)
    <3>1. alerts' = capLiveAlertsBySeverity(S, profile)
      BY <2>2, Zenon DEF Answer
    <3>2. e \in S
      BY DEF Incoming
    <3>3. S \in SUBSET Events
      BY <2>t, IncomingKnown
    <3> HIDE DEF S
    <3> QED BY <2>2, <3>1, <3>2, <3>3, GivesWay
  <2> QED BY <2>1, <2>2
<1>2. Feed => [Stays]_vars
  BY <1>1
<1> QED BY <1>2, FeedAlways, PTL DEF CriticalStays
=============================================================================
