------------------------ MODULE ConsoleWindowsProofs ------------------------
(***************************************************************************)
(* The windows of the web console (module ConsoleWindows), for every set   *)
(* of accounts, keys, files, queries and requests.  A step of the console  *)
(* is a step of the window that is open and leaves the others alone, so    *)
(* each property is proved from the specification of its own window.       *)
(***************************************************************************)
EXTENDS ConsoleWindows, FiniteSetTheorems, WellFoundedInduction, TLAPS

(* Every window of the console behaves as its own module says.              *)
LEMMA Parts ==
  ASSUME [Next]_windowVars
  PROVE  /\ [DriveNext]_driveVars /\ [TransferNext]_transferVars
         /\ [ViewerNext]_viewerVars /\ [ListsNext]_listVars
         /\ [UsersNext]_userVars /\ [ScopeNext]_scopeVars
         /\ [ZonesNext]_zoneVars /\ [FactorsNext]_factorVars
BY Zenon DEF Next, Step, windowVars

-----------------------------------------------------------------------------
(***************************************************************************)
(* Drive.  An upload is carried by at most one chain of calls, which knows *)
(* the item it was dropped on and whether Replace was chosen; what came    *)
(* from an upload lies in the folder it was dropped on.                    *)
(***************************************************************************)
ChainKinds == {"init", "timer", "close", "list", "shares", "upload",
               "mkdir", "rename", "delete", "share", "revoke"}
ChainSteps == {"go", "place", "ticket", "open", "again"}
ChainType == [id : 1 .. MaxChains, k : ChainKinds, step : ChainSteps,
              item : Items, u : 0 .. MaxUploads, over : BOOLEAN]
(* A call that has no number yet, or the one it continues.                  *)
NewCall == [id : 0 .. MaxChains, k : ChainKinds, step : ChainSteps,
             item : Items, u : 0 .. MaxUploads, over : BOOLEAN]

ChainsFit ==
  chains \subseteq ChainType /\ IsFiniteSet(chains) /\ Cardinality(chains) <= MaxChains
ServerFits ==
  /\ lease \in BOOLEAN /\ cookie \in BOOLEAN
  /\ files \in [Items -> 0 .. Dir] /\ granted \subseteq Items
ScreenFits ==
  /\ phase \in {"loading", "ready", "ended", "error"}
  /\ folder \in Folders \cup {Outgoing} /\ shares \subseteq Items
ListingFits == listing \in [of : Folders \cup {Outgoing}, names : SUBSET Names]
UploadType == [item : Items, st : {"none", "running", "conflict", "error", "gone"}]
UploadsFit == uploads \in [UploadIds -> UploadType]
AskedFits == asked \subseteq UploadIds /\ met \in [UploadIds -> 0 .. Dir]
TimersFit == timers \in 0 .. MaxTimers /\ held \in BOOLEAN /\ (held => timers > 0)
ModalFits ==
  /\ modal \in [k : {"none", "mkdir", "rename", "delete", "share"}, item : Items,
                by : 0 .. MaxChains]
  /\ modal.k = "none" => modal = NoModal

Carries(c) ==
  /\ c.step = "place" => c.k = "upload"
  /\ c.k = "upload" =>
       /\ c.u \in UploadIds /\ uploads[c.u].st = "running" /\ c.item = uploads[c.u].item
       /\ c.over => c.u \in asked
       /\ c.step = "place" => c.over \/ met[c.u] = 0
Carriers ==
  /\ \A c \in chains : Carries(c)
  /\ \A c, d \in chains : c.k = "upload" /\ d.k = "upload" /\ c.u = d.u => c = d
Landed ==
  \A i \in Items, u \in UploadIds :
    files[i] = u => uploads[u].st # "none" /\ i[1] = uploads[u].item[1]
DriveHolds ==
  /\ ChainsFit /\ ServerFits /\ ScreenFits /\ ListingFits /\ UploadsFit /\ AskedFits
  /\ TimersFit /\ ModalFits /\ Carriers /\ Landed
(* The first renewal ends before the user can leave the first folder.       *)
FirstRenewal == \A c \in chains : c.k = "init" => phase # "ready" /\ folder \in Folders
DriveInv == DriveHolds /\ FirstRenewal /\ clicks \in 0 .. MaxClicks

(* The types of the module, by parts.                                       *)
LEMMA DriveParts == DriveInv => DriveTypeOK
BY Zenon DEF DriveInv, DriveHolds, DriveTypeOK, ChainsFit, ServerFits, ScreenFits, ListingFits,
   UploadsFit, UploadType, AskedFits, TimersFit, ModalFits, ChainType, ChainKinds, ChainSteps

(* The constants of the drive.                                              *)
LEMMA DriveConstants ==
  /\ AnItem \in Items /\ MaxUploads \in Nat /\ MaxChains \in Nat /\ MaxChains >= 2
  /\ MaxTimers \in Nat /\ MaxTimers >= 1 /\ MaxClicks \in Nat
  /\ Theirs \in 0 .. Dir /\ Dir \in 0 .. Dir /\ 0 \in 0 .. Dir /\ UploadIds \subseteq 0 .. Dir
  /\ Theirs \notin UploadIds /\ Dir \notin UploadIds /\ 0 \notin UploadIds
  /\ UploadIds \subseteq 0 .. MaxUploads /\ 0 \in 0 .. MaxUploads
<1> USE DriveAssumption DEF DriveAssumption
<1>1. AnItem \in Items
  <2>1. PICK f \in Own, n \in Names : TRUE
    OBVIOUS
  <2>2. <<f, n>> \in Items
    BY <2>1 DEF Items
  <2> QED BY <2>2, Zenon DEF AnItem
<1>2. MaxUploads \in Nat /\ MaxChains \in Nat /\ MaxChains >= 2 /\ MaxTimers \in Nat
      /\ MaxTimers >= 1 /\ MaxClicks \in Nat
  OBVIOUS
<1> QED BY <1>1, <1>2 DEF Theirs, Dir, UploadIds

(* A call that starts while there is room gets a number of its own.         *)
LEMMA AddChain ==
  ASSUME NEW set \in SUBSET ChainType, IsFiniteSet(set), Cardinality(set) < MaxChains,
         NEW c \in NewCall
  PROVE  \E n \in ChainType :
           /\ Add(set, c) = set \cup {n} /\ n \notin set
           /\ n.k = c.k /\ n.step = c.step /\ n.item = c.item /\ n.u = c.u /\ n.over = c.over
           /\ IsFiniteSet(Add(set, c)) /\ Cardinality(Add(set, c)) = Cardinality(set) + 1
<1>1. \E i \in 1 .. MaxChains : \A o \in set : o.id # i
  <2> SUFFICES ASSUME \A i \in 1 .. MaxChains : \E o \in set : o.id = i PROVE FALSE
    OBVIOUS
  <2> DEFINE ids == {o.id : o \in set}
  <2>1. IsFiniteSet(ids) /\ Cardinality(ids) <= Cardinality(set)
    <3> DEFINE f == [o \in set |-> o.id]
    <3>1. f \in Surjection(set, ids)
      BY DEF Surjection
    <3> HIDE DEF f, ids
    <3> QED BY <3>1, FS_Surjection
  <2>2. 1 .. MaxChains \subseteq ids
    OBVIOUS
  <2>3. IsFiniteSet(1 .. MaxChains) /\ Cardinality(1 .. MaxChains) = MaxChains
    BY DriveConstants, FS_Interval
  <2>4. Cardinality(1 .. MaxChains) <= Cardinality(ids)
    BY <2>1, <2>2, FS_Subset
  <2>5. Cardinality(ids) \in Nat /\ Cardinality(set) \in Nat
    BY <2>1, FS_CardinalityType
  <2> QED BY <2>1, <2>3, <2>4, <2>5, DriveConstants
<1> DEFINE new == CHOOSE i \in 1 .. MaxChains : \A o \in set : o.id # i
           n == [c EXCEPT !.id = new]
<1>2. new \in 1 .. MaxChains /\ \A o \in set : o.id # new
  BY <1>1, Zenon
<1>3. Add(set, c) = set \cup {n}
  BY Zenon DEF Add
<1> HIDE DEF new
<1>4. /\ n \in ChainType /\ n.id = new
      /\ n.k = c.k /\ n.step = c.step /\ n.item = c.item /\ n.u = c.u /\ n.over = c.over
  BY <1>2 DEF NewCall, ChainType
<1> HIDE DEF n
<1>5. n \notin set
  BY <1>2, <1>4
<1>6. IsFiniteSet(set \cup {n}) /\ Cardinality(set \cup {n}) = Cardinality(set) + 1
  BY <1>5, FS_AddElement
<1> QED BY <1>3, <1>4, <1>5, <1>6

(* What becomes of the chains.                                              *)
LEMMA ChainStarts ==
  ASSUME ChainsFit, NEW c \in NewCall, Start(c)
  PROVE  ChainsFit' /\ \E n \in ChainType :
           /\ chains' = chains \cup {n} /\ n \notin chains
           /\ n.k = c.k /\ n.step = c.step /\ n.item = c.item /\ n.u = c.u /\ n.over = c.over
<1>1. Cardinality(chains) < MaxChains /\ chains' = Add(chains, c)
  BY DEF Start, Room
<1>2. chains \in SUBSET ChainType /\ IsFiniteSet(chains)
  BY DEF ChainsFit
<1>3. PICK n \in ChainType :
           /\ Add(chains, c) = chains \cup {n} /\ n \notin chains
           /\ n.k = c.k /\ n.step = c.step /\ n.item = c.item /\ n.u = c.u /\ n.over = c.over
           /\ IsFiniteSet(Add(chains, c)) /\ Cardinality(Add(chains, c)) = Cardinality(chains) + 1
  BY <1>1, <1>2, AddChain
<1>4. Cardinality(chains) \in Nat
  BY <1>2, FS_CardinalityType
<1> QED BY <1>1, <1>2, <1>3, <1>4, DriveConstants DEF ChainsFit

(* A chain that ends makes room.                                            *)
LEMMA ChainEnds ==
  ASSUME ChainsFit, NEW c \in chains
  PROVE  /\ chains \ {c} \in SUBSET ChainType /\ IsFiniteSet(chains \ {c})
         /\ Cardinality(chains \ {c}) = Cardinality(chains) - 1 /\ Cardinality(chains) \in Nat
         /\ Cardinality(chains \ {c}) < MaxChains
<1>1. IsFiniteSet(chains) /\ Cardinality(chains) \in Nat /\ Cardinality(chains) <= MaxChains
  BY FS_CardinalityType DEF ChainsFit
<1>2. IsFiniteSet(chains \ {c}) /\ Cardinality(chains \ {c}) = Cardinality(chains) - 1
  BY <1>1, FS_RemoveElement
<1> QED BY <1>1, <1>2, DriveConstants DEF ChainsFit

(* A chain ends, goes on, or is followed by another call.                   *)
LEMMA ChainMoves ==
  ASSUME ChainsFit, NEW c \in chains
  PROVE  /\ Ends(c) => ChainsFit'
         /\ \A to \in ChainType : MovesTo(c, to) => ChainsFit'
         /\ \A to \in NewCall : EndsWith(c, to) =>
              ChainsFit' /\ \E n \in ChainType :
                /\ chains' = (chains \ {c}) \cup {n}
                /\ n.k = to.k /\ n.step = to.step
<1> DEFINE rest == chains \ {c}
<1>1. /\ rest \in SUBSET ChainType /\ IsFiniteSet(rest) /\ Cardinality(rest) \in Nat
      /\ Cardinality(rest) + 1 <= MaxChains /\ MaxChains \in Nat
  <2>1. /\ rest \in SUBSET ChainType /\ IsFiniteSet(rest) /\ Cardinality(rest) < MaxChains
    BY ChainEnds
  <2>2. Cardinality(rest) \in Nat
    BY <2>1, FS_CardinalityType
  <2> QED BY <2>1, <2>2, DriveConstants
<1>2. Ends(c) => chains' = rest
  BY DEF Ends
<1>3. ASSUME NEW to \in ChainType, MovesTo(c, to) PROVE chains' = rest \cup {to}
  BY <1>3 DEF MovesTo
<1>4. ASSUME NEW to \in NewCall, EndsWith(c, to) PROVE chains' = Add(rest, to)
  BY <1>4 DEF EndsWith
<1> HIDE DEF rest
<1>5. Ends(c) => ChainsFit'
  BY <1>1, <1>2 DEF ChainsFit
<1>6. ASSUME NEW to \in ChainType, MovesTo(c, to) PROVE ChainsFit'
  <2>1. /\ IsFiniteSet(rest \cup {to}) 
        /\ Cardinality(rest \cup {to}) \in {Cardinality(rest), Cardinality(rest) + 1}
    BY <1>1, FS_AddElement
  <2> QED BY <1>1, <1>3, <1>6, <2>1 DEF ChainsFit
<1>7. ASSUME NEW to \in NewCall, EndsWith(c, to)
      PROVE  ChainsFit' /\ \E n \in ChainType : /\ chains' = rest \cup {n}
                                                /\ n.k = to.k /\ n.step = to.step
  <2>1. Cardinality(rest) < MaxChains
    BY <1>1
  <2>2. PICK n \in ChainType :
           /\ Add(rest, to) = rest \cup {n} /\ n \notin rest
           /\ n.k = to.k /\ n.step = to.step /\ n.item = to.item /\ n.u = to.u
           /\ n.over = to.over
           /\ IsFiniteSet(Add(rest, to)) /\ Cardinality(Add(rest, to)) = Cardinality(rest) + 1
    BY <1>1, <2>1, AddChain
  <2>3. chains' = Add(rest, to)
    BY <1>4, <1>7
  <2> QED BY <1>1, <2>2, <2>3 DEF ChainsFit
<1> QED BY <1>5, <1>6, <1>7 DEF rest

(* Nothing is dropped, nothing is there from an upload.                     *)
LEMMA DriveStart == DriveInit => DriveInv
<1> SUFFICES ASSUME DriveInit PROVE DriveInv
  OBVIOUS
<1> USE DriveConstants
<1> DEFINE c == Chain("init", "ticket", AnItem, 0, FALSE)
<1>1. c \in NewCall /\ c.k = "init" /\ c.step = "ticket"
  BY DEF Chain, NewCall, ChainKinds, ChainSteps
<1>2. chains = Add({}, c)
  BY DEF DriveInit
<1> HIDE DEF c
<1>3. IsFiniteSet({}) /\ Cardinality({}) = 0
  BY FS_EmptySet
<1>4. PICK n \in ChainType :
        /\ Add({}, c) = {} \cup {n} /\ n.k = c.k /\ n.step = c.step
        /\ IsFiniteSet(Add({}, c)) /\ Cardinality(Add({}, c)) = Cardinality({}) + 1
  BY <1>1, <1>3, AddChain
<1>5. ChainsFit /\ Carriers
  BY <1>1, <1>2, <1>3, <1>4 DEF ChainsFit, Carriers, Carries
<1>6. ServerFits /\ Landed
  BY DEF DriveInit, ServerFits, Landed
<1>7. ScreenFits
  <2>1. \E f \in Own : TRUE
    BY DriveAssumption DEF DriveAssumption
  <2>2. (CHOOSE f \in Own : TRUE) \in Own
    BY <2>1, Zenon
  <2>3. Own \subseteq Folders
    BY DriveAssumption DEF DriveAssumption
  <2> QED BY <2>2, <2>3 DEF DriveInit, ScreenFits
<1>11. FirstRenewal
  <2>1. \E f \in Own : TRUE
    BY DriveAssumption DEF DriveAssumption
  <2>2. (CHOOSE f \in Own : TRUE) \in Own
    BY <2>1, Zenon
  <2>3. folder \in Folders /\ phase = "loading"
    BY <2>2, DriveAssumption DEF DriveInit, DriveAssumption
  <2> QED BY <2>3 DEF FirstRenewal
<1>8. ListingFits /\ UploadsFit /\ AskedFits
  BY DEF DriveInit, ListingFits, NoRows, UploadsFit, UploadType, AskedFits
<1>9. TimersFit /\ clicks \in 0 .. MaxClicks
  <2>1. timers = 0 /\ held = FALSE /\ clicks = 0
    BY Zenon DEF DriveInit
  <2>2. 0 \in 0 .. MaxTimers /\ 0 \in 0 .. MaxClicks
    OBVIOUS
  <2> QED BY <2>1, <2>2, Zenon DEF TimersFit
<1>10. ModalFits
  BY DEF DriveInit, ModalFits, NoModal
<1> QED BY <1>5, <1>6, <1>7, <1>8, <1>9, <1>10, <1>11 DEF DriveInv, DriveHolds

(* Calls that carry no upload come and go, the others stay.                 *)
LEMMA OtherChains ==
  ASSUME Carriers, UNCHANGED <<uploads, asked, met>>,
         \A c \in chains' : c \in chains \/ (c.k # "upload" /\ c.step # "place")
  PROVE  Carriers'
<1>1. ASSUME NEW c \in chains', c.k = "upload" PROVE c \in chains
  BY <1>1
<1>2. ASSUME NEW c \in chains' PROVE Carries(c)'
  <2>1. CASE c \in chains
    BY <2>1 DEF Carriers, Carries
  <2>2. CASE c.k # "upload" /\ c.step # "place"
    BY <2>2 DEF Carries
  <2> QED BY <2>1, <2>2
<1> QED BY <1>1, <1>2 DEF Carriers

(* One upload is started, goes on or ends.                                  *)
LEMMA OneCarrier ==
  ASSUME Carriers, NEW u \in UploadIds, NEW n,
         \A c \in chains' : \/ c \in chains /\ (c.k # "upload" \/ c.u # u)
                            \/ c.k # "upload" /\ c.step # "place"
                            \/ c = n /\ n.k = "upload" /\ n.u = u /\ Carries(n)',
         \A v \in UploadIds : v # u => uploads'[v] = uploads[v] /\ met'[v] = met[v],
         asked \subseteq asked'
  PROVE  Carriers'
<1>1. ASSUME NEW c \in chains' PROVE Carries(c)'
  <2>1. CASE c \in chains /\ (c.k # "upload" \/ c.u # u)
    <3>1. Carries(c)
      BY <2>1 DEF Carriers
    <3> QED BY <2>1, <3>1 DEF Carries
  <2>2. CASE c.k # "upload" /\ c.step # "place"
    BY <2>2 DEF Carries
  <2>3. CASE c = n /\ Carries(n)'
    BY <2>3
  <2> QED BY <2>1, <2>2, <2>3
<1>2. ASSUME NEW c \in chains', NEW d \in chains', c.k = "upload", d.k = "upload", c.u = d.u
      PROVE  c = d
  <2>1. CASE c.u = u
    BY <1>2, <2>1
  <2>2. CASE c.u # u
    <3>1. c \in chains /\ d \in chains
      BY <1>2, <2>2
    <3> QED BY <1>2, <3>1 DEF Carriers
  <2> QED BY <2>1, <2>2
<1> QED BY <1>1, <1>2 DEF Carriers

(* The chain that carries an upload is the only one.                        *)
LEMMA OtherCarriers ==
  ASSUME Carriers, NEW c \in chains, c.k = "upload"
  PROVE  /\ c.u \in UploadIds /\ Carries(c)
         /\ \A d \in chains \ {c} : d.k # "upload" \/ d.u # c.u
BY DEF Carriers, Carries

(* What a step leaves alone keeps its type.                                 *)
LEMMA DriveRest ==
  ASSUME DriveHolds
  PROVE  /\ UNCHANGED chains => ChainsFit'
         /\ UNCHANGED server => ServerFits'
         /\ UNCHANGED <<phase, folder, shares>> => ScreenFits'
         /\ UNCHANGED listing => ListingFits'
         /\ UNCHANGED uploads => UploadsFit'
         /\ UNCHANGED history => AskedFits'
         /\ UNCHANGED renewal => TimersFit'
         /\ UNCHANGED modal => ModalFits'
<1> USE DEF DriveHolds
<1>1. UNCHANGED chains => ChainsFit'
  BY Zenon DEF ChainsFit
<1>2. UNCHANGED server => ServerFits'
  BY Zenon DEF ServerFits, server
<1>3. UNCHANGED <<phase, folder, shares>> => ScreenFits'
  BY Zenon DEF ScreenFits
<1>4. UNCHANGED listing => ListingFits'
  BY Zenon DEF ListingFits
<1>5. UNCHANGED uploads => UploadsFit'
  BY Zenon DEF UploadsFit
<1>6. UNCHANGED history => AskedFits'
  BY Zenon DEF AskedFits, history
<1>7. UNCHANGED renewal => TimersFit'
  <2>1. UNCHANGED renewal => (timers' = timers) /\ (held' = held)
    BY Zenon DEF renewal
  <2> QED BY <2>1, Zenon DEF TimersFit
<1>8. UNCHANGED modal => ModalFits'
  BY Zenon DEF ModalFits
<1> QED BY <1>1, <1>2, <1>3, <1>4, <1>5, <1>6, <1>7, <1>8

(* Files stay where they are, and uploads keep the item they have.          *)
LEMMA LandedRest ==
  ASSUME Landed, UNCHANGED files,
         \A u \in UploadIds : uploads[u].st # "none" =>
           uploads'[u].st # "none" /\ uploads'[u].item = uploads[u].item
  PROVE  Landed'
BY DEF Landed

(* A step of the user or of the renewal that carries no upload.             *)
LEMMA QuietStep ==
  ASSUME DriveHolds, UNCHANGED <<files, uploads>>, UNCHANGED history,
         \A c \in chains' : c \in chains \/ (c.k # "upload" /\ c.step # "place")
  PROVE  Carriers' /\ Landed'
<1>1. Carriers'
  BY OtherChains DEF DriveHolds, history
<1>2. Landed'
  BY Zenon DEF DriveHolds, Landed
<1> QED BY <1>1, <1>2

(* Rows are shown.                                                          *)
LEMMA RowsShown ==
  ASSUME DriveHolds, NEW list \in [of : Folders \cup {Outgoing}, names : SUBSET Names],
         SetListing(list)
  PROVE  ListingFits' /\ ModalFits'
<1>1. listing' = list /\ (modal' = NoModal \/ modal' = modal)
  BY Zenon DEF SetListing
<1>2. ListingFits'
  BY <1>1, Zenon DEF ListingFits
<1>3. NoModal \in [k : {"none", "mkdir", "rename", "delete", "share"}, item : Items,
                   by : 0 .. MaxChains]
  BY DriveConstants DEF NoModal
<1>4. ModalFits'
  BY <1>1, <1>3, Zenon DEF ModalFits, DriveHolds
<1> QED BY <1>2, <1>4

(* A dialog no longer waits.                                                *)
LEMMA DialogFree ==
  ASSUME DriveHolds,
         modal' \in {modal, NoModal, [modal EXCEPT !.by = 0]}
  PROVE  ModalFits'
<1>1. NoModal \in [k : {"none", "mkdir", "rename", "delete", "share"}, item : Items,
                   by : 0 .. MaxChains] /\ NoModal.by = 0
  BY DriveConstants DEF NoModal
<1>2. CASE modal' \in {modal, NoModal}
  BY <1>1, <1>2, Zenon DEF ModalFits, DriveHolds
<1>3. CASE modal' = [modal EXCEPT !.by = 0]
  <2>1. modal' \in [k : {"none", "mkdir", "rename", "delete", "share"}, item : Items,
                    by : 0 .. MaxChains] /\ modal'.k = modal.k
    BY <1>3, DriveConstants DEF ModalFits, DriveHolds
  <2>2. modal.k = "none" => modal' = NoModal
    <3>1. modal.k = "none" => modal = NoModal
      BY DEF ModalFits, DriveHolds
    <3>2. [NoModal EXCEPT !.by = 0] = NoModal
      BY DEF NoModal
    <3> QED BY <1>3, <3>1, <3>2, Zenon
  <2> QED BY <2>1, <2>2 DEF ModalFits
<1> QED BY <1>2, <1>3

(* A request failed for good: its chain ends, and an upload has an error.   *)
LEMMA ChainThrows ==
  ASSUME DriveHolds, NEW c \in chains, Throws(c)
  PROVE  /\ ChainsFit' /\ UploadsFit' /\ ListingFits' /\ ModalFits'
         /\ UNCHANGED asked /\ (\A v \in UploadIds : c.k # "upload" \/ v # c.u => met'[v] = met[v])
            => Carriers'
         /\ \A u \in UploadIds : uploads[u].st # "none" =>
              uploads'[u].st # "none" /\ uploads'[u].item = uploads[u].item
<1>1. c \in ChainType /\ Carriers /\ UploadsFit /\ ChainsFit
  BY DEF DriveHolds, ChainsFit
<1>2. ChainsFit' /\ chains' = chains \ {c}
  BY <1>1, ChainMoves DEF Throws, Ends
<1>3. ListingFits' /\ ModalFits'
  <2>1. CASE c.k = "list"
    <3>1. SetListing(NoRows)
      BY <2>1, Zenon DEF Throws, Handle
    <3>2. NoRows \in [of : Folders \cup {Outgoing}, names : SUBSET Names]
      BY DEF NoRows
    <3> QED BY <3>1, <3>2, RowsShown
  <2>2. CASE c.k # "list"
    <3>1. UNCHANGED listing /\ modal' \in {modal, NoModal, [modal EXCEPT !.by = 0]}
      BY <2>2, Zenon DEF Throws, Handle
    <3> QED BY <3>1, DriveRest, DialogFree
  <2> QED BY <2>1, <2>2
<1>4. CASE c.k = "upload"
  <2>1. /\ c.u \in UploadIds /\ \A d \in chains \ {c} : d.k # "upload" \/ d.u # c.u
    BY <1>1, <1>4, OtherCarriers
  <2>2. uploads' = [uploads EXCEPT ![c.u].st = "error"]
    BY <1>4, Zenon DEF Throws, Handle
  <2>3. UploadsFit' /\ (\A v \in UploadIds : v # c.u => uploads'[v] = uploads[v])
        /\ uploads'[c.u].st = "error" /\ uploads'[c.u].item = uploads[c.u].item
    BY <1>1, <2>1, <2>2 DEF UploadsFit, UploadType
  <2>4. ASSUME UNCHANGED asked, \A v \in UploadIds : c.k # "upload" \/ v # c.u => met'[v] = met[v]
        PROVE  Carriers'
    <3>1. \A v \in UploadIds : v # c.u => uploads'[v] = uploads[v] /\ met'[v] = met[v]
      BY <2>3, <2>4
    <3>2. \A d \in chains' : d \in chains /\ (d.k # "upload" \/ d.u # c.u)
      BY <1>2, <2>1
    <3>3. asked \subseteq asked'
      BY <2>4
    <3> QED BY <1>1, <2>1, <3>1, <3>2, <3>3, OneCarrier
  <2> QED BY <1>2, <1>3, <2>3, <2>4
<1>5. CASE c.k # "upload"
  <2>1. uploads' = uploads
    BY <1>5, Zenon DEF Throws, Handle
  <2>2. UploadsFit'
    BY <2>1, DriveRest
  <2>3. ASSUME UNCHANGED asked, \A v \in UploadIds : c.k # "upload" \/ v # c.u => met'[v] = met[v]
        PROVE  Carriers'
    <3>1. \A v \in UploadIds : met'[v] = met[v]
      BY <1>5, <2>3
    <3>2. ASSUME NEW d \in chains' PROVE Carries(d)'
      BY <1>1, <1>2, <2>1, <2>3, <3>1, <3>2 DEF Carriers, Carries
    <3> QED BY <1>1, <1>2, <3>2 DEF Carriers
  <2> QED BY <1>2, <1>3, <2>1, <2>2, <2>3
<1> QED BY <1>4, <1>5

(* clearTimeout.                                                            *)
LEMMA TimerCleared ==
  ASSUME DriveHolds, ClearTimer
  PROVE  TimersFit'
<1>1. timers \in 0 .. MaxTimers /\ (held => timers > 0) /\ MaxTimers \in Nat
  BY DriveConstants DEF DriveHolds, TimersFit
<1>2. held' = FALSE /\ timers' = (IF held THEN timers - 1 ELSE timers)
  BY Zenon DEF ClearTimer
<1>3. timers' \in 0 .. MaxTimers
  <2>1. CASE held
    BY <1>1, <1>2, <2>1
  <2>2. CASE ~held
    BY <1>1, <1>2, <2>2
  <2> QED BY <2>1, <2>2
<1> QED BY <1>2, <1>3, Zenon DEF TimersFit

(* The calls of a listing and of the shares.                                *)
LEMMA CallTypes ==
  /\ \A f \in Folders : /\ ListOf(f) \in NewCall /\ ListOf(f).k = "list"
                         /\ ListOf(f).step = "go"
  /\ SharesOf \in NewCall /\ SharesOf.k = "shares" /\ SharesOf.step = "go"
<1> DEFINE first == CHOOSE n \in Names : TRUE
<1>1. first \in Names
  <2>1. \E n \in Names : TRUE
    BY DriveAssumption DEF DriveAssumption
  <2> QED BY <2>1, Zenon
<1>2. \A f \in Folders : ListOf(f) = Chain("list", "go", <<f, first>>, 0, FALSE)
  BY Zenon DEF ListOf
<1> HIDE DEF first
<1>3. \A f \in Folders : <<f, first>> \in Items
  BY <1>1 DEF Items
<1>4. ASSUME NEW f \in Folders
      PROVE  ListOf(f) \in NewCall /\ ListOf(f).k = "list" /\ ListOf(f).step = "go"
  <2> DEFINE i == <<f, first>>
  <2>1. ListOf(f) = Chain("list", "go", i, 0, FALSE) /\ i \in Items
    BY <1>2, <1>3, Zenon
  <2> HIDE DEF i
  <2> QED BY <2>1, DriveConstants DEF Chain, NewCall, ChainKinds, ChainSteps
<1>5. SharesOf \in NewCall /\ SharesOf.k = "shares" /\ SharesOf.step = "go"
  BY DriveConstants DEF SharesOf, Chain, NewCall, ChainKinds, ChainSteps
<1> QED BY <1>4, <1>5

(* A call of the user or of the renewal starts.                             *)
LEMMA CallStarts ==
  ASSUME DriveHolds, NEW c \in NewCall, c.k # "upload", c.step # "place", Start(c),
         UNCHANGED <<files, uploads>>, UNCHANGED history
  PROVE  ChainsFit' /\ Carriers' /\ Landed'
<1>1. ChainsFit' /\ \E n \in ChainType : /\ chains' = chains \cup {n}
                                         /\ n.k = c.k /\ n.step = c.step
  BY ChainStarts DEF DriveHolds
<1>2. \A d \in chains' : d \in chains \/ (d.k # "upload" /\ d.step # "place")
  BY <1>1
<1> QED BY <1>1, <1>2, QuietStep

(* What the user does beside uploads, and the renewal timer.                *)
LEMMA DriveClicks ==
  ASSUME DriveHolds,
         \/ \E f \in Folders \cup {Outgoing} : openView(f)
         \/ Refresh \/ closeDrive \/ RenewTimer
         \/ \E i \in Items : RevokeShare(i)
  PROVE  DriveHolds' /\ UNCHANGED files
<1>1. ASSUME NEW f \in Folders \cup {Outgoing}
      PROVE  LET c == IF f = Outgoing THEN SharesOf ELSE ListOf(f)
             IN  c \in NewCall /\ c.k # "upload" /\ c.step # "place"
  BY CallTypes
<1>2. ASSUME NEW f \in Folders \cup {Outgoing}, openView(f) PROVE DriveHolds' /\ UNCHANGED files
  <2>1. /\ UNCHANGED server /\ UNCHANGED listing /\ UNCHANGED uploads /\ UNCHANGED renewal
        /\ UNCHANGED modal /\ UNCHANGED history /\ UNCHANGED files
    BY <1>2, Zenon DEF openView, server
  <2>2. Start(IF f = Outgoing THEN SharesOf ELSE ListOf(f)) /\ folder' = f
        /\ UNCHANGED <<phase, shares>>
    BY <1>2, Zenon DEF openView
  <2>3. ScreenFits'
    BY <2>2 DEF ScreenFits, DriveHolds
  <2>4. ChainsFit' /\ Carriers' /\ Landed'
    BY <1>1, <2>1, <2>2, CallStarts
  <2> QED BY <2>1, <2>3, <2>4, DriveRest DEF DriveHolds
<1>3. ASSUME Refresh PROVE DriveHolds' /\ UNCHANGED files
  <2>1. /\ UNCHANGED server /\ UNCHANGED listing /\ UNCHANGED uploads /\ UNCHANGED renewal
        /\ UNCHANGED modal /\ UNCHANGED history /\ UNCHANGED files
        /\ UNCHANGED <<phase, folder, shares>>
    BY <1>3, Zenon DEF Refresh, server
  <2>2. Start(IF folder = Outgoing THEN SharesOf ELSE ListOf(folder))
        /\ folder \in Folders \cup {Outgoing}
    BY <1>3 DEF Refresh, DriveHolds, ScreenFits
  <2>3. ChainsFit' /\ Carriers' /\ Landed'
    BY <1>1, <2>1, <2>2, CallStarts
  <2> QED BY <2>1, <2>3, DriveRest DEF DriveHolds
<1>4. ASSUME closeDrive PROVE DriveHolds' /\ UNCHANGED files
  <2>1. /\ UNCHANGED server /\ UNCHANGED listing /\ UNCHANGED uploads
        /\ UNCHANGED modal /\ UNCHANGED history /\ UNCHANGED files
        /\ UNCHANGED <<phase, folder, shares>>
    BY <1>4, Zenon DEF closeDrive, server
  <2>2. ClearTimer /\ Start(Chain("close", "go", AnItem, 0, FALSE))
    BY <1>4, Zenon DEF closeDrive
  <2>3. LET c == Chain("close", "go", AnItem, 0, FALSE)
        IN  c \in NewCall /\ c.k = "close" /\ c.step = "go"
    BY DriveConstants DEF Chain, NewCall, ChainKinds, ChainSteps
  <2>4. ChainsFit' /\ Carriers' /\ Landed'
    BY <2>1, <2>2, <2>3, CallStarts
  <2> QED BY <2>1, <2>2, <2>4, TimerCleared, DriveRest DEF DriveHolds
<1>5. ASSUME RenewTimer PROVE DriveHolds' /\ UNCHANGED files
  <2>1. /\ UNCHANGED server /\ UNCHANGED listing /\ UNCHANGED uploads
        /\ UNCHANGED modal /\ UNCHANGED history /\ UNCHANGED files
        /\ UNCHANGED <<phase, folder, shares>>
    BY <1>5, Zenon DEF RenewTimer, server
  <2>2. Start(Chain("timer", "ticket", AnItem, 0, FALSE))
    BY <1>5, Zenon DEF RenewTimer
  <2>3. LET c == Chain("timer", "ticket", AnItem, 0, FALSE)
        IN  c \in NewCall /\ c.k = "timer" /\ c.step = "ticket"
    BY DriveConstants DEF Chain, NewCall, ChainKinds, ChainSteps
  <2>4. ChainsFit' /\ Carriers' /\ Landed'
    BY <2>1, <2>2, <2>3, CallStarts
  <2>5. TimersFit'
    <3>1. timers' \in 0 .. MaxTimers
      <4>1. timers \in 0 .. MaxTimers /\ MaxTimers \in Nat /\ timers > 0
        BY <1>5, DriveConstants DEF DriveHolds, TimersFit, RenewTimer
      <4>2. timers' = timers - 1 \/ (timers' = timers - 2 /\ timers > 1)
        BY <1>5 DEF RenewTimer
      <4> QED BY <4>1, <4>2
    <3>2. held' = FALSE
      BY <1>5, Zenon DEF RenewTimer
    <3> QED BY <3>1, <3>2, Zenon DEF TimersFit
  <2> QED BY <2>1, <2>4, <2>5, DriveRest DEF DriveHolds
<1>6. ASSUME NEW i \in Items, RevokeShare(i) PROVE DriveHolds' /\ UNCHANGED files
  <2>1. /\ UNCHANGED server /\ UNCHANGED listing /\ UNCHANGED uploads /\ UNCHANGED renewal
        /\ UNCHANGED modal /\ UNCHANGED history /\ UNCHANGED files
        /\ UNCHANGED <<phase, folder, shares>>
    BY <1>6, Zenon DEF RevokeShare, server
  <2>2. Start(Chain("revoke", "go", i, 0, FALSE))
    BY <1>6, Zenon DEF RevokeShare
  <2>3. LET c == Chain("revoke", "go", i, 0, FALSE)
        IN  c \in NewCall /\ c.k = "revoke" /\ c.step = "go"
    BY DriveConstants DEF Chain, NewCall, ChainKinds, ChainSteps
  <2>4. ChainsFit' /\ Carriers' /\ Landed'
    BY <2>1, <2>2, <2>3, CallStarts
  <2> QED BY <2>1, <2>4, DriveRest DEF DriveHolds
<1> QED BY <1>2, <1>3, <1>4, <1>5, <1>6

(* Dialogs, and what happens beside the tab.                                *)
LEMMA DriveDialogs ==
  ASSUME DriveHolds,
         \/ \E k \in {"mkdir", "rename", "delete", "share"}, n \in Names : OpenDialog(k, n)
         \/ CloseModal \/ CookieExpires \/ SessionEnds
  PROVE  DriveHolds' /\ UNCHANGED files
<1>1. ASSUME UNCHANGED <<chains, files, uploads>>, UNCHANGED history
      PROVE  ChainsFit' /\ Carriers' /\ Landed'
  <2>1. \A c \in chains' : c \in chains \/ (c.k # "upload" /\ c.step # "place")
    BY <1>1
  <2> QED BY <1>1, <2>1, QuietStep, DriveRest
<1>2. ASSUME NEW k \in {"mkdir", "rename", "delete", "share"}, NEW n \in Names, OpenDialog(k, n)
      PROVE  DriveHolds' /\ UNCHANGED files
  <2>1. /\ UNCHANGED server /\ UNCHANGED listing /\ UNCHANGED uploads /\ UNCHANGED renewal
        /\ UNCHANGED chains /\ UNCHANGED history /\ UNCHANGED files
        /\ UNCHANGED <<phase, folder, shares>>
    BY <1>2, Zenon DEF OpenDialog, server
  <2>2. ModalFits'
    <3>1. modal' = [k |-> k, item |-> <<folder, n>>, by |-> 0] /\ folder # Outgoing
      BY <1>2 DEF OpenDialog
    <3>2. <<folder, n>> \in Items
      BY <3>1 DEF DriveHolds, ScreenFits, Items
    <3> QED BY <3>1, <3>2, DriveConstants DEF ModalFits
  <2> QED BY <1>1, <2>1, <2>2, DriveRest DEF DriveHolds
<1>3. ASSUME CloseModal PROVE DriveHolds' /\ UNCHANGED files
  <2>1. /\ UNCHANGED server /\ UNCHANGED listing /\ UNCHANGED uploads /\ UNCHANGED renewal
        /\ UNCHANGED chains /\ UNCHANGED history /\ UNCHANGED files
        /\ UNCHANGED <<phase, folder, shares>> /\ modal' = NoModal
    BY <1>3, Zenon DEF CloseModal, server
  <2> QED BY <1>1, <2>1, DriveRest, DialogFree DEF DriveHolds
<1>4. ASSUME CookieExpires \/ SessionEnds PROVE DriveHolds' /\ UNCHANGED files
  <2>1. /\ UNCHANGED listing /\ UNCHANGED uploads /\ UNCHANGED renewal
        /\ UNCHANGED chains /\ UNCHANGED history /\ UNCHANGED files
        /\ UNCHANGED <<phase, folder, shares>> /\ UNCHANGED modal
    BY <1>4, Zenon DEF CookieExpires, SessionEnds
  <2>2. ServerFits'
    BY <1>4, Zenon DEF CookieExpires, SessionEnds, ServerFits, DriveHolds
  <2> QED BY <1>1, <2>1, <2>2, DriveRest DEF DriveHolds
<1> QED BY <1>2, <1>3, <1>4

(* A dialog sends its request and waits for it.                             *)
LEMMA DialogSends ==
  ASSUME DriveHolds, Submit
  PROVE  DriveHolds' /\ UNCHANGED files
<1>1. /\ UNCHANGED server /\ UNCHANGED listing /\ UNCHANGED uploads /\ UNCHANGED renewal
      /\ UNCHANGED history /\ UNCHANGED files
      /\ UNCHANGED <<phase, folder, shares>>
  BY Zenon DEF Submit, server
<1> DEFINE c == Chain(modal.k, "go", modal.item, 0, FALSE)
<1>2. /\ Start(c) /\ modal' = [modal EXCEPT !.by = (CHOOSE d \in chains' : d \notin chains).id]
  BY Zenon DEF Submit
<1>3. modal.k \in {"mkdir", "rename", "delete", "share"} /\ modal.item \in Items
  BY DEF Submit, DriveHolds, ModalFits
<1>4. c \in NewCall /\ c.k # "upload" /\ c.step # "place"
  BY <1>3, DriveConstants DEF Chain, NewCall, ChainKinds, ChainSteps
<1> HIDE DEF c
<1>5. ChainsFit' /\ Carriers' /\ Landed'
  BY <1>1, <1>2, <1>4, CallStarts
<1>6. PICK n \in ChainType : chains' = chains \cup {n} /\ n \notin chains
  BY <1>2, <1>4, ChainStarts DEF DriveHolds
<1> DEFINE d == CHOOSE d \in chains' : d \notin chains
<1>7. d \in chains' /\ modal' = [modal EXCEPT !.by = d.id]
  <2>1. \E o \in chains' : o \notin chains
    BY <1>6
  <2> QED BY <1>2, <2>1, Zenon
<1> HIDE DEF d
<1>8. ModalFits'
  <2>1. d.id \in 0 .. MaxChains
    BY <1>5, <1>7, DriveConstants DEF ChainsFit, ChainType
  <2> QED BY <1>3, <1>7, <2>1 DEF ModalFits, DriveHolds
<1> QED BY <1>1, <1>5, <1>8, DriveRest DEF DriveHolds

(* A chain goes on to its next step.                                        *)
LEMMA ChainGoesOn ==
  ASSUME DriveHolds, NEW c \in chains, NEW s \in ChainSteps \ {"place"},
         MovesTo(c, [c EXCEPT !.step = s]), UNCHANGED uploads, UNCHANGED history
  PROVE  ChainsFit' /\ Carriers' /\ (UNCHANGED files => Landed')
<1> DEFINE to == [c EXCEPT !.step = s]
<1>1. c \in ChainType /\ Carriers
  BY DEF DriveHolds, ChainsFit
<1>2. /\ to \in ChainType /\ to.k = c.k /\ to.step = s /\ to.item = c.item /\ to.u = c.u
      /\ to.over = c.over
  BY <1>1 DEF ChainType
<1>3. MovesTo(c, to)
  OBVIOUS
<1> HIDE DEF to
<1>4. ChainsFit' /\ chains' = (chains \ {c}) \cup {to}
  BY <1>2, <1>3, ChainMoves DEF DriveHolds, MovesTo
<1>5. CASE c.k = "upload"
  <2>1. /\ c.u \in UploadIds /\ Carries(c)
        /\ \A d \in chains \ {c} : d.k # "upload" \/ d.u # c.u
    BY <1>1, <1>5, OtherCarriers
  <2>2. Carries(to)'
    BY <1>2, <1>5, <2>1 DEF Carries, history
  <2>3. \A d \in chains' :
          \/ d \in chains /\ (d.k # "upload" \/ d.u # c.u)
          \/ d = to /\ to.k = "upload" /\ to.u = c.u /\ Carries(to)'
    BY <1>2, <1>4, <1>5, <2>1, <2>2
  <2>4. /\ \A v \in UploadIds : v # c.u => uploads'[v] = uploads[v] /\ met'[v] = met[v]
        /\ asked \subseteq asked'
    BY DEF history
  <2> QED BY <1>1, <1>4, <2>1, <2>3, <2>4, OneCarrier, LandedRest DEF DriveHolds
<1>6. CASE c.k # "upload"
  <2>1. \A d \in chains' : d \in chains \/ (d.k # "upload" /\ d.step # "place")
    BY <1>2, <1>4, <1>6
  <2> QED BY <1>1, <1>4, <2>1, OtherChains, LandedRest DEF DriveHolds, history
<1> QED BY <1>5, <1>6

(* The drive session is renewed, step by step.                              *)
LEMMA DriveRenews ==
  ASSUME DriveHolds, FirstRenewal, NEW c \in chains,
         TicketAnswer(c) \/ OpenAnswer(c) \/ Unauthorized(c)
  PROVE  DriveHolds' /\ UNCHANGED files
<1>1. c \in ChainType /\ Carriers
  BY DEF DriveHolds, ChainsFit
<1>2. ASSUME Throws(c), UNCHANGED history, UNCHANGED files
      PROVE  ChainsFit' /\ UploadsFit' /\ ListingFits' /\ ModalFits' /\ Carriers' /\ Landed'
  <2>1. UNCHANGED asked /\ (\A v \in UploadIds : c.k # "upload" \/ v # c.u => met'[v] = met[v])
    BY <1>2 DEF history
  <2>2. /\ ChainsFit' /\ UploadsFit' /\ ListingFits' /\ ModalFits' /\ Carriers'
        /\ \A u \in UploadIds : uploads[u].st # "none" =>
             uploads'[u].st # "none" /\ uploads'[u].item = uploads[u].item
    BY <1>2, <2>1, ChainThrows
  <2>3. Landed'
    BY <1>2, <2>2, LandedRest DEF DriveHolds
  <2> QED BY <2>2, <2>3
<1>3. "open" \in ChainSteps \ {"place"} /\ "go" \in ChainSteps \ {"place"}
      /\ "ticket" \in ChainSteps \ {"place"} /\ "again" \in ChainSteps \ {"place"}
  BY DEF ChainSteps
<1>4. ASSUME TicketAnswer(c) PROVE DriveHolds' /\ UNCHANGED files
  <2>1. /\ UNCHANGED server /\ UNCHANGED renewal /\ UNCHANGED history /\ UNCHANGED files
        /\ UNCHANGED <<folder, shares>>
    BY <1>4, Zenon DEF TicketAnswer, server
  <2>2. \/ /\ MovesTo(c, [c EXCEPT !.step = "open"]) /\ UNCHANGED <<phase, listing, uploads, modal>>
        \/ phase' \in {"ended", "error"} /\ Throws(c)
    BY <1>4, Zenon DEF TicketAnswer
  <2>3. ScreenFits'
    BY <2>1, <2>2 DEF ScreenFits, DriveHolds
  <2>4. CASE MovesTo(c, [c EXCEPT !.step = "open"]) /\ UNCHANGED <<phase, listing, uploads, modal>>
    <3>1. ChainsFit' /\ Carriers' /\ Landed'
      BY <1>3, <2>1, <2>4, ChainGoesOn
    <3> QED BY <2>1, <2>3, <2>4, <3>1, DriveRest DEF DriveHolds
  <2>5. CASE Throws(c)
    <3>1. ChainsFit' /\ UploadsFit' /\ ListingFits' /\ ModalFits' /\ Carriers' /\ Landed'
      BY <1>2, <2>1, <2>5
    <3> QED BY <2>1, <2>3, <3>1, DriveRest DEF DriveHolds
  <2> QED BY <2>2, <2>4, <2>5
<1>5. ASSUME Unauthorized(c) PROVE DriveHolds' /\ UNCHANGED files
  <2>1. /\ UNCHANGED server /\ UNCHANGED history /\ UNCHANGED files
        /\ UNCHANGED <<phase, folder, shares>>
    BY <1>5, Zenon DEF Unauthorized, server
  <2>2. \/ /\ MovesTo(c, [c EXCEPT !.step = "ticket"]) /\ ClearTimer
           /\ UNCHANGED <<listing, uploads, modal>>
        \/ Throws(c) /\ UNCHANGED renewal
    BY <1>5, Zenon DEF Unauthorized
  <2>3. CASE /\ MovesTo(c, [c EXCEPT !.step = "ticket"]) /\ ClearTimer
             /\ UNCHANGED <<listing, uploads, modal>>
    <3>1. ChainsFit' /\ Carriers' /\ Landed'
      BY <1>3, <2>1, <2>3, ChainGoesOn
    <3> QED BY <2>1, <2>3, <3>1, TimerCleared, DriveRest DEF DriveHolds
  <2>4. CASE Throws(c) /\ UNCHANGED renewal
    <3>1. ChainsFit' /\ UploadsFit' /\ ListingFits' /\ ModalFits' /\ Carriers' /\ Landed'
      BY <1>2, <2>1, <2>4
    <3> QED BY <2>1, <2>4, <3>1, DriveRest DEF DriveHolds
  <2> QED BY <2>2, <2>3, <2>4
<1>6. ASSUME OpenAnswer(c) PROVE DriveHolds' /\ UNCHANGED files
  <2>1. /\ UNCHANGED history /\ UNCHANGED files /\ UNCHANGED <<lease, granted>>
        /\ UNCHANGED <<folder, shares>>
    BY <1>6, Zenon DEF OpenAnswer
  <2>2. CASE /\ phase' = (IF phase = "loading" THEN "error" ELSE phase)
             /\ Throws(c) /\ UNCHANGED <<cookie, renewal>>
    <3>1. ChainsFit' /\ UploadsFit' /\ ListingFits' /\ ModalFits' /\ Carriers' /\ Landed'
      BY <1>2, <2>1, <2>2
    <3>2. ScreenFits'
      BY <2>1, <2>2 DEF ScreenFits, DriveHolds
    <3>3. UNCHANGED server /\ UNCHANGED renewal
      BY <2>1, <2>2, Zenon DEF server
    <3> QED BY <2>1, <3>1, <3>2, <3>3, DriveRest DEF DriveHolds
  <2>3. CASE /\ timers < MaxTimers /\ timers' = timers + 1 /\ held' = TRUE /\ cookie' = TRUE
             /\ \/ /\ c.k = "init" /\ phase' = "ready"
                   /\ chains' = Add(Add({}, ListOf(folder)), SharesOf)
                \/ Ends(c) /\ UNCHANGED phase
                \/ MovesTo(c, [c EXCEPT !.step = "go"]) /\ UNCHANGED phase
                \/ MovesTo(c, [c EXCEPT !.step = "again"]) /\ UNCHANGED phase
             /\ UNCHANGED <<listing, uploads, modal>>
    <3>1. ServerFits'
      BY <2>1, <2>3, Zenon DEF ServerFits, DriveHolds
    <3>2. TimersFit'
      <4>1. timers' \in 0 .. MaxTimers /\ timers' > 0
        BY <2>3, DriveConstants DEF TimersFit, DriveHolds
      <4> QED BY <2>3, <4>1, Zenon DEF TimersFit
    <3>3. ScreenFits'
      BY <2>1, <2>3 DEF ScreenFits, DriveHolds
    <3>4. ChainsFit' /\ Carriers' /\ Landed'
      <4>1. CASE Ends(c)
        <5>1. ChainsFit' /\ chains' = chains \ {c}
          BY <4>1, ChainMoves DEF DriveHolds, Ends
        <5>2. \A d \in chains' : d \in chains
          BY <5>1
        <5> QED BY <2>1, <2>3, <5>1, <5>2, QuietStep
      <4>2. CASE MovesTo(c, [c EXCEPT !.step = "go"])
        BY <1>3, <2>1, <2>3, <4>2, ChainGoesOn
      <4>3. CASE MovesTo(c, [c EXCEPT !.step = "again"])
        BY <1>3, <2>1, <2>3, <4>3, ChainGoesOn
      <4>4. CASE c.k = "init" /\ chains' = Add(Add({}, ListOf(folder)), SharesOf)
        <5>1. folder \in Folders
          BY <4>4 DEF FirstRenewal
        <5>2. IsFiniteSet({}) /\ Cardinality({}) = 0 /\ MaxChains \in Nat /\ MaxChains >= 2
          BY FS_EmptySet, DriveConstants
        <5> DEFINE one == Add({}, ListOf(folder))
        <5>3. ListOf(folder) \in NewCall /\ ListOf(folder).k = "list" /\ ListOf(folder).step = "go"
              /\ SharesOf \in NewCall /\ SharesOf.k = "shares" /\ SharesOf.step = "go"
          BY <5>1, CallTypes
        <5>4. PICK n \in ChainType :
                /\ one = {} \cup {n} /\ n.k = "list" /\ n.step = "go"
                /\ IsFiniteSet(one) /\ Cardinality(one) = Cardinality({}) + 1
          BY <5>2, <5>3, AddChain
        <5> HIDE DEF one
        <5>5. one \in SUBSET ChainType /\ Cardinality(one) < MaxChains
          BY <5>2, <5>4
        <5>6. PICK m \in ChainType :
                /\ Add(one, SharesOf) = one \cup {m} /\ m.k = "shares" /\ m.step = "go"
                /\ IsFiniteSet(Add(one, SharesOf))
                /\ Cardinality(Add(one, SharesOf)) = Cardinality(one) + 1
          BY <5>3, <5>4, <5>5, AddChain
        <5>7. chains' = Add(one, SharesOf)
          BY <4>4 DEF one
        <5>8. ChainsFit'
          BY <5>2, <5>4, <5>5, <5>6, <5>7 DEF ChainsFit
        <5>9. \A d \in chains' : d.k # "upload" /\ d.step # "place"
          BY <5>4, <5>6, <5>7
        <5> QED BY <2>1, <2>3, <5>8, <5>9, QuietStep
      <4> QED BY <2>3, <4>1, <4>2, <4>3, <4>4
    <3> QED BY <2>1, <2>3, <3>1, <3>2, <3>3, <3>4, DriveRest DEF DriveHolds
  <2> QED BY <1>6, <2>2, <2>3, Zenon DEF OpenAnswer
<1> QED BY <1>4, <1>5, <1>6

(* Closing the drive, and rows and shares that arrive.                      *)
LEMMA DriveShows ==
  ASSUME DriveHolds, NEW c \in chains, CloseAnswer(c) \/ refresh(c) \/ refreshShares(c)
  PROVE  DriveHolds' /\ UNCHANGED files
<1>1. c \in ChainType
  BY DEF DriveHolds, ChainsFit
<1>2. ASSUME Ends(c), UNCHANGED <<files, uploads>>, UNCHANGED history
      PROVE  ChainsFit' /\ Carriers' /\ Landed'
  <2>1. ChainsFit' /\ chains' = chains \ {c}
    BY <1>2, ChainMoves DEF DriveHolds, Ends
  <2>2. \A d \in chains' : d \in chains
    BY <2>1
  <2> QED BY <1>2, <2>1, <2>2, QuietStep
<1>3. ASSUME CloseAnswer(c) PROVE DriveHolds' /\ UNCHANGED files
  <2>1. /\ UNCHANGED listing /\ UNCHANGED uploads /\ UNCHANGED renewal /\ UNCHANGED modal
        /\ UNCHANGED history /\ UNCHANGED files /\ UNCHANGED granted
        /\ UNCHANGED <<folder, shares>>
    BY <1>3, Zenon DEF CloseAnswer
  <2>2. \/ /\ cookie' \in {cookie, FALSE} /\ MovesTo(c, [c EXCEPT !.step = "again"])
           /\ UNCHANGED <<lease, phase>>
        \/ /\ lease' \in {lease, FALSE} /\ phase' = "ended" /\ Ends(c) /\ UNCHANGED cookie
    BY <1>3, Zenon DEF CloseAnswer
  <2>3. ServerFits'
    BY <2>1, <2>2, Zenon DEF ServerFits, DriveHolds
  <2>4. ScreenFits'
    BY <2>1, <2>2 DEF ScreenFits, DriveHolds
  <2>5. ChainsFit' /\ Carriers' /\ Landed'
    <3>1. "again" \in ChainSteps \ {"place"}
      BY DEF ChainSteps
    <3>2. CASE MovesTo(c, [c EXCEPT !.step = "again"])
      BY <2>1, <3>1, <3>2, ChainGoesOn
    <3>3. CASE Ends(c)
      BY <1>2, <2>1, <3>3
    <3> QED BY <2>2, <3>2, <3>3
  <2> QED BY <2>1, <2>3, <2>4, <2>5, DriveRest DEF DriveHolds
<1>4. ASSUME refresh(c) PROVE DriveHolds' /\ UNCHANGED files
  <2>1. /\ UNCHANGED server /\ UNCHANGED uploads /\ UNCHANGED renewal
        /\ UNCHANGED history /\ UNCHANGED files /\ UNCHANGED <<phase, folder, shares>>
        /\ Ends(c)
    BY <1>4, Zenon DEF refresh, server
  <2>2. PICK list \in {NoRows, [of |-> c.item[1], names |-> NamesIn(c.item[1])]} :
          SetListing(list)
    BY <1>4, Zenon DEF refresh
  <2>3. list \in [of : Folders \cup {Outgoing}, names : SUBSET Names]
    <3>1. c.item[1] \in Folders /\ NamesIn(c.item[1]) \subseteq Names
      BY <1>1 DEF ChainType, Items, NamesIn
    <3> QED BY <2>2, <3>1 DEF NoRows
  <2>4. ListingFits' /\ ModalFits'
    BY <2>2, <2>3, RowsShown
  <2>5. ChainsFit' /\ Carriers' /\ Landed'
    BY <1>2, <2>1
  <2> QED BY <2>1, <2>4, <2>5, DriveRest DEF DriveHolds
<1>5. ASSUME refreshShares(c) PROVE DriveHolds' /\ UNCHANGED files
  <2>1. /\ UNCHANGED server /\ UNCHANGED uploads /\ UNCHANGED renewal /\ UNCHANGED listing
        /\ UNCHANGED history /\ UNCHANGED files /\ UNCHANGED <<phase, folder>>
        /\ Ends(c)
    BY <1>5, Zenon DEF refreshShares, server
  <2>2. shares' \in {shares, granted} /\ modal' \in {modal, NoModal, [modal EXCEPT !.by = 0]}
    BY <1>5, Zenon DEF refreshShares
  <2>3. ScreenFits'
    BY <2>1, <2>2 DEF ScreenFits, ServerFits, DriveHolds
  <2>4. ChainsFit' /\ Carriers' /\ Landed'
    BY <1>2, <2>1
  <2> QED BY <2>1, <2>2, <2>3, <2>4, DialogFree, DriveRest DEF DriveHolds
<1> QED BY <1>3, <1>4, <1>5

(* A file is dropped, replaced or dismissed.                                *)
LEMMA UploadClicks ==
  ASSUME DriveHolds, NEW u \in UploadIds,
         Replace(u) \/ Dismiss(u) \/ \E n \in Names : startUploads(u, n)
  PROVE  DriveHolds' /\ UNCHANGED files
<1>1. uploads \in [UploadIds -> UploadType] /\ asked \subseteq UploadIds /\ Carriers
      /\ u \in 0 .. MaxUploads
  BY DriveConstants DEF DriveHolds, UploadsFit, AskedFits
<1>2. ASSUME uploads[u].st # "running"
      PROVE  \A d \in chains : d.k # "upload" \/ d.u # u
  BY <1>2 DEF DriveHolds, Carriers, Carries
<1>3. ASSUME NEW c \in NewCall, c.k = "upload", c.step = "go", c.u = u, Start(c),
             uploads[u].st # "running", uploads'[u].st = "running", uploads'[u].item = c.item,
             c.over => u \in asked', asked \subseteq asked', met' = met,
             \A v \in UploadIds : v # u => uploads'[v] = uploads[v]
      PROVE  ChainsFit' /\ Carriers'
  <2>1. PICK n \in ChainType :
          /\ chains' = chains \cup {n} /\ n.k = c.k /\ n.step = c.step /\ n.item = c.item
          /\ n.u = c.u /\ n.over = c.over
    BY <1>3, ChainStarts DEF DriveHolds
  <2>2. Carries(n)'
    BY <1>3, <2>1 DEF Carries
  <2>3. \A d \in chains' :
          \/ d \in chains /\ (d.k # "upload" \/ d.u # u)
          \/ d = n /\ n.k = "upload" /\ n.u = u /\ Carries(n)'
    BY <1>2, <1>3, <2>1, <2>2
  <2>4. ChainsFit'
    BY <1>3, ChainStarts DEF DriveHolds
  <2> QED BY <1>1, <1>3, <2>3, <2>4, OneCarrier
<1>4. ASSUME NEW n \in Names, startUploads(u, n) PROVE DriveHolds' /\ UNCHANGED files
  <2>1. /\ UNCHANGED server /\ UNCHANGED listing /\ UNCHANGED renewal /\ UNCHANGED modal
        /\ UNCHANGED history /\ UNCHANGED files /\ UNCHANGED <<phase, folder, shares>>
    BY <1>4, Zenon DEF startUploads, server
  <2> DEFINE i == <<folder, n>>
             c == Chain("upload", "go", i, u, FALSE)
  <2>2. Start(c) /\ uploads' = [uploads EXCEPT ![u] = [item |-> i, st |-> "running"]]
        /\ uploads[u].st = "none" /\ folder # Outgoing
    BY <1>4, Zenon DEF startUploads, canWrite
  <2>3. i \in Items
    BY <2>2 DEF Items, DriveHolds, ScreenFits
  <2> HIDE DEF i
  <2>4. c \in NewCall /\ c.k = "upload" /\ c.step = "go" /\ c.u = u /\ c.item = i
        /\ c.over = FALSE
    BY <1>1, <2>3, DriveConstants DEF Chain, NewCall, ChainKinds, ChainSteps
  <2> HIDE DEF c
  <2>5. /\ UploadsFit' /\ uploads'[u].st = "running" /\ uploads'[u].item = i
        /\ \A v \in UploadIds : v # u => uploads'[v] = uploads[v]
    BY <1>1, <2>2, <2>3 DEF UploadsFit, UploadType
  <2>6. ChainsFit' /\ Carriers'
    BY <1>3, <2>1, <2>2, <2>4, <2>5 DEF history
  <2>7. Landed'
    BY <2>1, <2>2, <2>5, LandedRest DEF DriveHolds
  <2> QED BY <2>1, <2>5, <2>6, <2>7, DriveRest DEF DriveHolds
<1>5. ASSUME Replace(u) PROVE DriveHolds' /\ UNCHANGED files
  <2>1. /\ UNCHANGED server /\ UNCHANGED listing /\ UNCHANGED renewal /\ UNCHANGED modal
        /\ UNCHANGED met /\ UNCHANGED files /\ UNCHANGED <<phase, folder, shares>>
    BY <1>5, Zenon DEF Replace, server
  <2> DEFINE i == uploads[u].item
             c == Chain("upload", "go", i, u, TRUE)
  <2>2. /\ Start(c) /\ uploads' = [uploads EXCEPT ![u].st = "running"]
        /\ uploads[u].st = "conflict" /\ asked' = asked \cup {u}
    BY <1>5, Zenon DEF Replace
  <2>3. i \in Items
    BY <1>1 DEF UploadType
  <2>4. /\ UploadsFit' /\ uploads'[u].st = "running" /\ uploads'[u].item = i
        /\ \A v \in UploadIds : v # u => uploads'[v] = uploads[v]
    BY <1>1, <2>2 DEF UploadsFit, UploadType
  <2>5. AskedFits'
    BY <1>1, <2>1, <2>2 DEF AskedFits, DriveHolds
  <2>6. Landed'
    BY <2>1, <2>4, LandedRest DEF DriveHolds
  <2> HIDE DEF i
  <2>7. c \in NewCall /\ c.k = "upload" /\ c.step = "go" /\ c.u = u /\ c.item = i
    BY <1>1, <2>3, DriveConstants DEF Chain, NewCall, ChainKinds, ChainSteps
  <2> HIDE DEF c
  <2>8. ChainsFit' /\ Carriers'
    BY <1>3, <2>1, <2>2, <2>4, <2>7
  <2> QED BY <2>1, <2>4, <2>5, <2>6, <2>8, DriveRest DEF DriveHolds
<1>6. ASSUME Dismiss(u) PROVE DriveHolds' /\ UNCHANGED files
  <2>1. /\ UNCHANGED server /\ UNCHANGED listing /\ UNCHANGED renewal /\ UNCHANGED modal
        /\ UNCHANGED history /\ UNCHANGED files /\ UNCHANGED <<phase, folder, shares>>
        /\ UNCHANGED chains
    BY <1>6, Zenon DEF Dismiss, server
  <2>2. uploads' = [uploads EXCEPT ![u].st = "gone"] /\ uploads[u].st # "running"
    BY <1>6 DEF Dismiss
  <2>3. /\ UploadsFit' /\ uploads'[u].st = "gone" /\ uploads'[u].item = uploads[u].item
        /\ \A v \in UploadIds : v # u => uploads'[v] = uploads[v]
    BY <1>1, <2>2 DEF UploadsFit, UploadType
  <2>4. Landed'
    BY <2>1, <2>3, LandedRest DEF DriveHolds
  <2>5. \A d \in chains' : d \in chains /\ (d.k # "upload" \/ d.u # u)
    BY <1>2, <2>1, <2>2
  <2>6. \A v \in UploadIds : v # u => uploads'[v] = uploads[v] /\ met'[v] = met[v]
    BY <2>1, <2>3 DEF history
  <2>7. asked \subseteq asked'
    BY <2>1 DEF history
  <2>8. Carriers'
    BY <1>1, <2>5, <2>6, <2>7, OneCarrier
  <2> QED BY <2>1, <2>3, <2>4, <2>8, DriveRest DEF DriveHolds
<1> QED BY <1>4, <1>5, <1>6

(* The service looks for an item of that name.                              *)
LEMMA UploadChecked ==
  ASSUME DriveHolds, NEW c \in chains, UploadCheck(c)
  PROVE  DriveHolds' /\ UNCHANGED files
<1>1. c \in ChainType /\ Carriers /\ c.k = "upload"
  BY DEF DriveHolds, ChainsFit, UploadCheck, Answered
<1>2. /\ c.u \in UploadIds /\ Carries(c)
      /\ \A d \in chains \ {c} : d.k # "upload" \/ d.u # c.u
  BY <1>1, OtherCarriers
<1>3. /\ UNCHANGED server /\ UNCHANGED renewal /\ UNCHANGED asked
      /\ UNCHANGED files /\ UNCHANGED <<phase, folder, shares>>
      /\ met' = [met EXCEPT ![c.u] = files[c.item]]
  BY Zenon DEF UploadCheck, server
<1>4. /\ AskedFits' /\ met'[c.u] = files[c.item]
      /\ \A v \in UploadIds : v # c.u => met'[v] = met[v]
  BY <1>1, <1>2, <1>3 DEF AskedFits, DriveHolds, ServerFits, ChainType
<1>5. CASE /\ files[c.item] = 0 \/ c.over
           /\ MovesTo(c, [c EXCEPT !.step = "place"]) /\ UNCHANGED <<uploads, listing, modal>>
  <2> DEFINE to == [c EXCEPT !.step = "place"]
  <2>1. /\ to \in ChainType /\ to.k = c.k /\ to.step = "place" /\ to.item = c.item /\ to.u = c.u
        /\ to.over = c.over
    BY <1>1 DEF ChainType, ChainSteps
  <2>2. MovesTo(c, to)
    BY <1>5
  <2> HIDE DEF to
  <2>3. ChainsFit' /\ chains' = (chains \ {c}) \cup {to}
    BY <2>1, <2>2, ChainMoves DEF DriveHolds, MovesTo
  <2>4. Carries(to)'
    BY <1>1, <1>2, <1>3, <1>4, <1>5, <2>1 DEF Carries
  <2>5. \A d \in chains' :
          \/ d \in chains /\ (d.k # "upload" \/ d.u # c.u)
          \/ d = to /\ to.k = "upload" /\ to.u = c.u /\ Carries(to)'
    BY <1>1, <1>2, <2>1, <2>3, <2>4
  <2>6. /\ \A v \in UploadIds : v # c.u => uploads'[v] = uploads[v] /\ met'[v] = met[v]
        /\ asked \subseteq asked'
    BY <1>3, <1>4, <1>5
  <2>7. Carriers' /\ Landed'
    BY <1>1, <1>2, <1>3, <1>5, <2>5, <2>6, OneCarrier, LandedRest DEF DriveHolds
  <2> QED BY <1>3, <1>4, <1>5, <2>3, <2>7, DriveRest DEF DriveHolds
<1>6. CASE /\ Ends(c) /\ uploads' = [uploads EXCEPT ![c.u].st = "conflict"]
           /\ UNCHANGED <<listing, modal>>
  <2>1. ChainsFit' /\ chains' = chains \ {c}
    BY <1>6, ChainMoves DEF DriveHolds, Ends
  <2>2. /\ UploadsFit' /\ uploads'[c.u].st = "conflict" /\ uploads'[c.u].item = uploads[c.u].item
        /\ \A v \in UploadIds : v # c.u => uploads'[v] = uploads[v]
    BY <1>2, <1>6 DEF DriveHolds, UploadsFit, UploadType
  <2>3. \A d \in chains' : d \in chains /\ (d.k # "upload" \/ d.u # c.u)
    BY <1>2, <2>1
  <2>4. /\ \A v \in UploadIds : v # c.u => uploads'[v] = uploads[v] /\ met'[v] = met[v]
        /\ asked \subseteq asked'
    BY <1>3, <1>4, <2>2
  <2>5. Carriers'
    BY <1>1, <1>2, <2>3, <2>4, OneCarrier
  <2>6. Landed'
    BY <1>3, <2>2, LandedRest DEF DriveHolds
  <2> QED BY <1>3, <1>4, <1>6, <2>1, <2>2, <2>5, <2>6, DriveRest DEF DriveHolds
<1>7. CASE Throws(c)
  <2>1. UNCHANGED asked /\ (\A v \in UploadIds : c.k # "upload" \/ v # c.u => met'[v] = met[v])
    BY <1>1, <1>3, <1>4
  <2>2. /\ ChainsFit' /\ UploadsFit' /\ ListingFits' /\ ModalFits' /\ Carriers'
        /\ \A u \in UploadIds : uploads[u].st # "none" =>
             uploads'[u].st # "none" /\ uploads'[u].item = uploads[u].item
    BY <1>7, <2>1, ChainThrows
  <2>3. Landed'
    BY <1>3, <2>2, LandedRest DEF DriveHolds
  <2> QED BY <1>3, <1>4, <2>2, <2>3, DriveRest DEF DriveHolds
<1> QED BY <1>5, <1>6, <1>7, Zenon DEF UploadCheck

(* What a step may do to the files (the body of UploadsKeepFiles).          *)
KeepsFiles ==
  \A i \in Items, u \in UploadIds :
    files[i] # u /\ files'[i] = u
    => /\ i[1] = uploads[u].item[1]
       /\ files[i] # 0 => u \in asked \/ met[u] = 0

(* The file is moved to its name.                                           *)
LEMMA UploadPlaced ==
  ASSUME DriveHolds, NEW c \in chains, UploadAnswer(c)
  PROVE  DriveHolds' /\ KeepsFiles
<1>1. c \in ChainType /\ Carriers /\ c.k = "upload" /\ c.step = "place" /\ c.item \in Items
  BY DEF DriveHolds, ChainsFit, Carriers, Carries, UploadAnswer, ChainType
<1>2. /\ c.u \in UploadIds /\ Carries(c)
      /\ \A d \in chains \ {c} : d.k # "upload" \/ d.u # c.u
  BY <1>1, OtherCarriers
<1>3. /\ UNCHANGED renewal /\ UNCHANGED history /\ UNCHANGED <<phase, folder, shares>>
      /\ UNCHANGED <<lease, cookie, granted>> /\ UNCHANGED asked /\ UNCHANGED met
  BY Zenon DEF UploadAnswer, history
<1>4. files' = files \/ files' = [files EXCEPT ![c.item] = c.u]
  BY Zenon DEF UploadAnswer, Throws
<1>5. ServerFits' /\ files \in [Items -> 0 .. Dir]
  BY <1>1, <1>2, <1>3, <1>4, DriveConstants DEF ServerFits, DriveHolds
<1>6. \A i \in Items : files'[i] = files[i] \/ (i = c.item /\ files'[i] = c.u)
  BY <1>1, <1>4, <1>5
<1>7. KeepsFiles
  BY <1>1, <1>2, <1>6 DEF KeepsFiles, Carries
<1>8. ASSUME \A u \in UploadIds : uploads[u].st # "none" =>
               uploads'[u].st # "none" /\ uploads'[u].item = uploads[u].item
      PROVE  Landed'
  BY <1>1, <1>2, <1>6, <1>8 DEF Landed, DriveHolds, Carries
<1>9. CASE Throws(c)
  <2>1. UNCHANGED asked /\ (\A v \in UploadIds : c.k # "upload" \/ v # c.u => met'[v] = met[v])
    BY <1>3
  <2>2. /\ ChainsFit' /\ UploadsFit' /\ ListingFits' /\ ModalFits' /\ Carriers'
        /\ \A u \in UploadIds : uploads[u].st # "none" =>
             uploads'[u].st # "none" /\ uploads'[u].item = uploads[u].item
    BY <1>9, <2>1, ChainThrows
  <2> QED BY <1>3, <1>5, <1>7, <1>8, <2>2, DriveRest DEF DriveHolds
<1>10. CASE /\ uploads' = [uploads EXCEPT ![c.u].st = "gone"]
            /\ EndsWith(c, ListOf(c.item[1])) /\ UNCHANGED <<listing, modal>>
  <2>1. ListOf(c.item[1]) \in NewCall /\ ListOf(c.item[1]).k = "list"
        /\ ListOf(c.item[1]).step = "go"
    <3>1. c.item[1] \in Folders
      BY <1>1 DEF Items
    <3> QED BY <3>1, CallTypes
  <2>2. ChainsFit' /\ \E n \in ChainType : /\ chains' = (chains \ {c}) \cup {n}
                                           /\ n.k = "list" /\ n.step = "go"
    BY <1>10, <2>1, ChainMoves DEF DriveHolds
  <2>3. /\ UploadsFit' /\ uploads'[c.u].st = "gone" /\ uploads'[c.u].item = uploads[c.u].item
        /\ \A v \in UploadIds : v # c.u => uploads'[v] = uploads[v]
    BY <1>2, <1>10 DEF DriveHolds, UploadsFit, UploadType
  <2>4. \A d \in chains' : \/ d \in chains /\ (d.k # "upload" \/ d.u # c.u)
                           \/ d.k # "upload" /\ d.step # "place"
    BY <1>2, <2>2
  <2>5. /\ \A v \in UploadIds : v # c.u => uploads'[v] = uploads[v] /\ met'[v] = met[v]
        /\ asked \subseteq asked'
    BY <1>3, <2>3
  <2>6. Carriers'
    BY <1>1, <1>2, <2>4, <2>5, OneCarrier
  <2>7. Landed'
    BY <1>8, <2>3
  <2> QED BY <1>3, <1>5, <1>7, <1>10, <2>2, <2>3, <2>6, <2>7, DriveRest DEF DriveHolds
<1> QED BY <1>9, <1>10, Zenon DEF UploadAnswer

(* What the service does with an item.                                      *)
LEMMA ItemServed ==
  ASSUME DriveHolds, NEW c \in chains, Serve(c)
  PROVE  /\ files' \in [Items -> 0 .. Dir] /\ granted' \subseteq Items /\ KeepsFiles
         /\ UNCHANGED uploads => Landed'
<1>1. /\ c \in ChainType /\ c.item \in Items /\ files \in [Items -> 0 .. Dir]
      /\ granted \subseteq Items /\ Landed
  BY DEF DriveHolds, ChainsFit, ChainType, ServerFits
<1>2. ASSUME NEW to \in Items, to[1] = c.item[1], files[to] = 0,
             files' = [files EXCEPT ![c.item] = 0, ![to] = files[c.item]]
      PROVE  /\ files' \in [Items -> 0 .. Dir] /\ KeepsFiles /\ (UNCHANGED uploads => Landed')
  <2>1. files' \in [Items -> 0 .. Dir]
    BY <1>1, <1>2, DriveConstants
  <2>2. \A i \in Items : files'[i] = files[i] \/ files'[i] = 0
                         \/ (i = to /\ files'[i] = files[c.item])
    BY <1>1, <1>2
  <2>3. KeepsFiles
    BY <1>1, <1>2, <2>2, DriveConstants DEF KeepsFiles, Landed
  <2>4. UNCHANGED uploads => Landed'
    BY <1>1, <1>2, <2>2, DriveConstants DEF Landed
  <2> QED BY <2>1, <2>3, <2>4
<1>3. ASSUME NEW x \in {0, Dir}, files' = [files EXCEPT ![c.item] = x]
      PROVE  /\ files' \in [Items -> 0 .. Dir] /\ KeepsFiles /\ (UNCHANGED uploads => Landed')
  <2>1. files' \in [Items -> 0 .. Dir] /\ x \notin UploadIds
    BY <1>1, <1>3, DriveConstants
  <2>2. \A i \in Items : files'[i] = files[i] \/ files'[i] = x
    BY <1>1, <1>3
  <2> QED BY <1>1, <2>1, <2>2 DEF KeepsFiles, Landed
<1>4. ASSUME UNCHANGED files
      PROVE  /\ files' \in [Items -> 0 .. Dir] /\ KeepsFiles /\ (UNCHANGED uploads => Landed')
  BY <1>1, <1>4 DEF KeepsFiles, Landed
<1>5. CASE c.k = "mkdir"
  BY <1>1, <1>3, <1>5 DEF Serve
<1>6. CASE c.k = "rename"
  <2>1. PICK to \in {c.item[1]} \X (Names \ NamesIn(c.item[1])) :
          /\ files' = [files EXCEPT ![c.item] = 0, ![to] = files[c.item]]
          /\ granted' = IF c.item \in granted THEN (granted \ {c.item}) \cup {to} ELSE granted
    BY <1>6 DEF Serve
  <2>2. to \in Items /\ to[1] = c.item[1] /\ files[to] = 0
    BY <1>1 DEF Items, NamesIn
  <2>3. granted' \subseteq Items
    BY <1>1, <2>1, <2>2
  <2> QED BY <1>2, <2>1, <2>2, <2>3
<1>7. CASE c.k = "delete"
  BY <1>1, <1>3, <1>7 DEF Serve
<1>8. CASE c.k \in {"share", "revoke"}
  BY <1>1, <1>4, <1>8 DEF Serve
<1> QED BY <1>5, <1>6, <1>7, <1>8 DEF Serve

(* The answer to a dialog.                                                  *)
LEMMA ItemAnswered ==
  ASSUME DriveHolds, NEW c \in chains, ItemAnswer(c)
  PROVE  DriveHolds' /\ KeepsFiles
<1>1. c \in ChainType /\ c.item[1] \in Folders /\ c.k # "upload" /\ c.k # "init"
  BY DEF DriveHolds, ChainsFit, ItemAnswer, Answered, ChainType, Items
<1>2. /\ UNCHANGED renewal /\ UNCHANGED history /\ UNCHANGED <<phase, folder, shares>>
      /\ UNCHANGED <<lease, cookie>>
  BY Zenon DEF ItemAnswer
<1>3. CASE Throws(c) /\ UNCHANGED <<files, granted>>
  <2>1. UNCHANGED asked /\ (\A v \in UploadIds : c.k # "upload" \/ v # c.u => met'[v] = met[v])
    BY <1>2 DEF history
  <2>2. /\ ChainsFit' /\ UploadsFit' /\ ListingFits' /\ ModalFits' /\ Carriers'
        /\ \A u \in UploadIds : uploads[u].st # "none" =>
             uploads'[u].st # "none" /\ uploads'[u].item = uploads[u].item
    BY <1>3, <2>1, ChainThrows
  <2>3. Landed' /\ KeepsFiles
    BY <1>3, <2>2, LandedRest DEF DriveHolds, KeepsFiles
  <2>4. UNCHANGED server
    BY <1>2, <1>3, Zenon DEF server
  <2> QED BY <1>2, <2>2, <2>3, <2>4, DriveRest DEF DriveHolds
<1>4. CASE /\ Serve(c) /\ UNCHANGED <<uploads, listing>>
           /\ \/ EndsWith(c, ListOf(c.item[1])) /\ modal' \in {modal, NoModal}
              \/ /\ Room /\ chains' = Add(Add(chains \ {c}, ListOf(c.item[1])), SharesOf)
                 /\ modal' \in {modal, NoModal}
              \/ UNCHANGED modal /\ MovesTo(c, [SharesOf EXCEPT !.id = c.id])
  <2>1. /\ files' \in [Items -> 0 .. Dir] /\ granted' \subseteq Items /\ KeepsFiles /\ Landed'
    BY <1>4, ItemServed
  <2>2. ServerFits'
    BY <1>2, <2>1, Zenon DEF ServerFits, DriveHolds
  <2>3. ModalFits'
    BY <1>4, DialogFree, DriveRest
  <2> DEFINE list == ListOf(c.item[1])
  <2>4. list \in NewCall /\ list.k = "list" /\ list.step = "go"
        /\ SharesOf \in NewCall /\ SharesOf.k = "shares" /\ SharesOf.step = "go"
    BY <1>1, CallTypes
  <2>5. ChainsFit' /\ \A d \in chains' : d \in chains \/ (d.k # "upload" /\ d.step # "place")
    <3>1. CASE EndsWith(c, list)
      <4> HIDE DEF list
      <4>1. ChainsFit' /\ \E n \in ChainType :
              /\ chains' = (chains \ {c}) \cup {n} /\ n.k = list.k /\ n.step = list.step
        BY <2>4, <3>1, ChainMoves DEF DriveHolds
      <4> QED BY <2>4, <4>1
    <3>2. CASE MovesTo(c, [SharesOf EXCEPT !.id = c.id])
      <4> DEFINE to == [SharesOf EXCEPT !.id = c.id]
      <4>1. to \in ChainType /\ to.k = "shares" /\ to.step = "go"
        BY <1>1, <2>4 DEF NewCall, ChainType
      <4>2. MovesTo(c, to)
        BY <3>2
      <4> HIDE DEF to
      <4>3. ChainsFit' /\ chains' = (chains \ {c}) \cup {to}
        BY <4>1, <4>2, ChainMoves DEF DriveHolds, MovesTo
      <4> QED BY <4>1, <4>3
    <3>3. CASE Room /\ chains' = Add(Add(chains \ {c}, list), SharesOf)
      <4> DEFINE rest == chains \ {c}
                 one == Add(rest, list)
      <4> HIDE DEF list
      <4>1. /\ rest \in SUBSET ChainType /\ IsFiniteSet(rest) /\ Cardinality(chains) \in Nat
            /\ Cardinality(rest) = Cardinality(chains) - 1 /\ Cardinality(rest) < MaxChains
            /\ Cardinality(chains) < MaxChains /\ MaxChains \in Nat
        BY <3>3, ChainEnds, DriveConstants DEF DriveHolds, Room
      <4>2. rest \subseteq chains /\ chains' = Add(one, SharesOf)
        BY <3>3
      <4> HIDE DEF rest
      <4>3. PICK n \in ChainType :
              /\ one = rest \cup {n} /\ n.k = list.k /\ n.step = list.step
              /\ IsFiniteSet(one) /\ Cardinality(one) = Cardinality(rest) + 1
        BY <2>4, <4>1, AddChain
      <4> HIDE DEF one
      <4>4. one \in SUBSET ChainType /\ Cardinality(one) < MaxChains
        BY <4>1, <4>3
      <4>5. PICK m \in ChainType :
              /\ Add(one, SharesOf) = one \cup {m} /\ m.k = SharesOf.k /\ m.step = SharesOf.step
              /\ IsFiniteSet(Add(one, SharesOf))
              /\ Cardinality(Add(one, SharesOf)) = Cardinality(one) + 1
        BY <2>4, <4>3, <4>4, AddChain
      <4>6. ChainsFit'
        <5>1. Cardinality(Add(one, SharesOf)) <= MaxChains
          BY <4>1, <4>3, <4>5
        <5>2. Add(one, SharesOf) \subseteq ChainType
          BY <4>4, <4>5
        <5> QED BY <4>2, <4>5, <5>1, <5>2 DEF ChainsFit
      <4> QED BY <2>4, <4>2, <4>3, <4>5, <4>6
    <3> QED BY <1>4, <3>1, <3>2, <3>3
  <2>6. Carriers'
    BY <1>2, <1>4, <2>5, OtherChains DEF DriveHolds, history
  <2> QED BY <1>2, <1>4, <2>1, <2>2, <2>3, <2>5, <2>6, DriveRest DEF DriveHolds
<1> QED
  <2>1. \/ /\ Serve(c) /\ UNCHANGED <<uploads, listing>>
           /\ \/ EndsWith(c, ListOf(c.item[1])) /\ modal' \in {modal, NoModal}
              \/ /\ Room /\ chains' = Add(Add(chains \ {c}, ListOf(c.item[1])), SharesOf)
                 /\ modal' \in {modal, NoModal}
              \/ UNCHANGED modal /\ MovesTo(c, [SharesOf EXCEPT !.id = c.id])
        \/ Throws(c) /\ UNCHANGED <<files, granted>>
    BY Zenon DEF ItemAnswer
  <2> QED BY <1>3, <1>4, <2>1

(* Somebody else adds a file.                                               *)
LEMMA OtherFile ==
  ASSUME DriveHolds, NEW i \in Items, OtherPuts(i)
  PROVE  DriveHolds' /\ KeepsFiles
<1>1. /\ UNCHANGED renewal /\ UNCHANGED history /\ UNCHANGED <<phase, folder, shares>>
      /\ UNCHANGED <<lease, cookie, granted>> /\ UNCHANGED listing /\ UNCHANGED uploads
      /\ UNCHANGED modal /\ UNCHANGED chains
  BY Zenon DEF OtherPuts
<1>2. files' = [files EXCEPT ![i] = Theirs] /\ files \in [Items -> 0 .. Dir]
  BY DEF OtherPuts, DriveHolds, ServerFits
<1>3. ServerFits'
  <2>1. files' \in [Items -> 0 .. Dir]
    BY <1>2, DriveConstants
  <2> QED BY <1>1, <2>1, Zenon DEF ServerFits, DriveHolds
<1>4. \A o \in Items : files'[o] = files[o] \/ files'[o] = Theirs
  BY <1>2
<1>5. KeepsFiles /\ Landed'
  BY <1>1, <1>4, DriveConstants DEF KeepsFiles, Landed, DriveHolds
<1>6. Carriers'
  BY <1>1, OtherChains DEF DriveHolds, history
<1> QED BY <1>1, <1>3, <1>5, <1>6, DriveRest DEF DriveHolds

(* No step brings the first renewal back.                                   *)
LEMMA RenewalOver ==
  ASSUME DriveHolds, FirstRenewal, DriveNext
  PROVE  FirstRenewal'
<1> DEFINE Old == \A d \in chains' : d.k = "init" => \E o \in chains : o.k = "init"
<1>1. ASSUME Old, phase' # "ready" \/ phase' = phase, folder' = folder \/ phase = "ready"
      PROVE  FirstRenewal'
  BY <1>1 DEF FirstRenewal
<1>2. ASSUME NEW c \in NewCall, c.k # "init", Start(c) PROVE Old
  BY <1>2, ChainStarts DEF DriveHolds
<1>3. ASSUME NEW c \in chains, Ends(c) PROVE Old
  BY <1>3 DEF Ends
<1>4. ASSUME NEW c \in chains, NEW s \in ChainSteps, MovesTo(c, [c EXCEPT !.step = s]) PROVE Old
  <2> DEFINE to == [c EXCEPT !.step = s]
  <2>1. to.k = c.k
    BY DEF DriveHolds, ChainsFit, ChainType
  <2>2. chains' = (chains \ {c}) \cup {to}
    BY <1>4 DEF MovesTo
  <2> HIDE DEF to
  <2> QED BY <2>1, <2>2
<1>5. ASSUME NEW c \in chains, NEW f \in Folders, EndsWith(c, ListOf(f)) PROVE Old
  <2>1. ListOf(f) \in NewCall /\ ListOf(f).k = "list"
    BY CallTypes
  <2>2. \E n \in ChainType : chains' = (chains \ {c}) \cup {n} /\ n.k = ListOf(f).k
    BY <1>5, <2>1, ChainMoves DEF DriveHolds
  <2> QED BY <2>1, <2>2
<1>6. UNCHANGED chains => Old
  OBVIOUS
<1>7. ASSUME NEW c \in chains, Throws(c) PROVE Old
  BY <1>3, <1>7 DEF Throws
<1>8. ASSUME NEW c \in chains PROVE c \in ChainType /\ c.item[1] \in Folders
  BY DEF DriveHolds, ChainsFit, ChainType, Items
<1>9. "open" \in ChainSteps /\ "go" \in ChainSteps /\ "ticket" \in ChainSteps
      /\ "again" \in ChainSteps /\ "place" \in ChainSteps
  BY DEF ChainSteps
<1>10. ASSUME NEW f \in Folders \cup {Outgoing}
       PROVE  LET c == IF f = Outgoing THEN SharesOf ELSE ListOf(f)
              IN  c \in NewCall /\ c.k # "init"
  BY CallTypes
<1>11. ASSUME NEW k \in ChainKinds \ {"init"}, NEW s \in ChainSteps, NEW i \in Items,
              NEW u \in 0 .. MaxUploads, NEW b \in BOOLEAN, Start(Chain(k, s, i, u, b))
       PROVE  Old
  <2> DEFINE c == Chain(k, s, i, u, b)
  <2>1. c \in NewCall /\ c.k # "init" /\ Start(c)
    BY <1>11, DriveConstants DEF Chain, NewCall
  <2> HIDE DEF c
  <2> QED BY <1>2, <2>1
<1> HIDE DEF Old
<1>12. ASSUME NEW f \in Folders \cup {Outgoing}, openView(f) PROVE FirstRenewal'
  BY <1>1, <1>2, <1>10, <1>12 DEF openView, Free
<1>13. CASE Refresh
  <2>1. folder \in Folders \cup {Outgoing}
    BY DEF DriveHolds, ScreenFits
  <2> QED BY <1>1, <1>2, <1>10, <1>13, <2>1 DEF Refresh
<1>14. CASE closeDrive
  BY <1>1, <1>9, <1>11, <1>14, DriveConstants DEF closeDrive, ChainKinds
<1>15. CASE RenewTimer
  BY <1>1, <1>9, <1>11, <1>15, DriveConstants DEF RenewTimer, ChainKinds
<1>16. CASE Submit
  <2>1. modal.k \in ChainKinds \ {"init"} /\ modal.item \in Items
    BY <1>16 DEF Submit, DriveHolds, ModalFits, ChainKinds
  <2> QED BY <1>1, <1>9, <1>11, <1>16, <2>1, DriveConstants DEF Submit
<1>17. ASSUME NEW i \in Items, RevokeShare(i) PROVE FirstRenewal'
  BY <1>1, <1>9, <1>11, <1>17, DriveConstants DEF RevokeShare, ChainKinds
<1>18. ASSUME NEW u \in UploadIds, NEW n \in Names, startUploads(u, n) PROVE FirstRenewal'
  <2>1. <<folder, n>> \in Items /\ u \in 0 .. MaxUploads
    BY <1>18, DriveConstants DEF startUploads, canWrite, DriveHolds, ScreenFits, Items
  <2> QED BY <1>1, <1>9, <1>11, <1>18, <2>1 DEF startUploads, ChainKinds
<1>19. ASSUME NEW u \in UploadIds, Replace(u) PROVE FirstRenewal'
  <2>1. uploads[u].item \in Items /\ u \in 0 .. MaxUploads
    BY DriveConstants DEF DriveHolds, UploadsFit, UploadType
  <2> QED BY <1>1, <1>9, <1>11, <1>19, <2>1 DEF Replace, ChainKinds
<1>20. ASSUME \/ \E u \in UploadIds : Dismiss(u)
              \/ \E k \in {"mkdir", "rename", "delete", "share"}, n \in Names : OpenDialog(k, n)
              \/ CloseModal \/ SessionEnds \/ CookieExpires \/ \E i \in Items : OtherPuts(i)
       PROVE  FirstRenewal'
  <2>1. UNCHANGED chains /\ UNCHANGED phase /\ UNCHANGED folder
    BY <1>20, Zenon DEF Dismiss, OpenDialog, CloseModal, SessionEnds, CookieExpires, OtherPuts
  <2> QED BY <1>1, <1>6, <2>1
<1>21. ASSUME NEW c \in chains, TicketAnswer(c) PROVE FirstRenewal'
  BY <1>1, <1>4, <1>7, <1>9, <1>21 DEF TicketAnswer
<1>22. ASSUME NEW c \in chains, Unauthorized(c) PROVE FirstRenewal'
  BY <1>1, <1>4, <1>7, <1>9, <1>22 DEF Unauthorized
<1>23. ASSUME NEW c \in chains, CloseAnswer(c) PROVE FirstRenewal'
  BY <1>1, <1>3, <1>4, <1>9, <1>23 DEF CloseAnswer
<1>24. ASSUME NEW c \in chains, refresh(c) \/ refreshShares(c) PROVE FirstRenewal'
  BY <1>1, <1>3, <1>24 DEF refresh, refreshShares
<1>25. ASSUME NEW c \in chains, UploadCheck(c) PROVE FirstRenewal'
  BY <1>1, <1>3, <1>4, <1>7, <1>9, <1>25 DEF UploadCheck
<1>26. ASSUME NEW c \in chains, UploadAnswer(c) PROVE FirstRenewal'
  BY <1>1, <1>5, <1>7, <1>8, <1>26 DEF UploadAnswer
<1>27. ASSUME NEW set, NEW c \in NewCall PROVE \A d \in Add(set, c) : d \in set \/ d.k = c.k
  <2> DEFINE new == CHOOSE i \in 1 .. MaxChains : \A o \in set : o.id # i
  <2>1. Add(set, c) = set \cup {[c EXCEPT !.id = new]}
    BY Zenon DEF Add
  <2> HIDE DEF new
  <2>2. [c EXCEPT !.id = new].k = c.k
    BY DEF NewCall
  <2> QED BY <2>1, <2>2
<1>28. ASSUME NEW set, NEW f \in Folders
       PROVE  \A d \in Add(Add(set, ListOf(f)), SharesOf) : d \in set \/ d.k # "init"
  BY <1>27, CallTypes
<1>29. ASSUME NEW c \in chains, ItemAnswer(c) PROVE FirstRenewal'
  <2>1. UNCHANGED phase /\ UNCHANGED folder
    BY <1>29, Zenon DEF ItemAnswer
  <2>2. \/ EndsWith(c, ListOf(c.item[1]))
        \/ chains' = Add(Add(chains \ {c}, ListOf(c.item[1])), SharesOf)
        \/ MovesTo(c, [SharesOf EXCEPT !.id = c.id])
        \/ Throws(c)
    BY <1>29, Zenon DEF ItemAnswer
  <2>3. CASE chains' = Add(Add(chains \ {c}, ListOf(c.item[1])), SharesOf)
    <3>1. Old
      BY <1>8, <1>28, <2>3 DEF Old
    <3> QED BY <1>1, <2>1, <3>1
  <2>4. CASE MovesTo(c, [SharesOf EXCEPT !.id = c.id])
    <3>1. [SharesOf EXCEPT !.id = c.id].k = "shares"
      BY CallTypes DEF NewCall
    <3>2. Old
      BY <2>4, <3>1 DEF Old, MovesTo
    <3> QED BY <1>1, <2>1, <3>2
  <2> QED BY <1>1, <1>5, <1>7, <1>8, <2>1, <2>2, <2>3, <2>4
<1>30. ASSUME NEW c \in chains, OpenAnswer(c) PROVE FirstRenewal'
  <2>1. UNCHANGED folder
    BY <1>30, Zenon DEF OpenAnswer
  <2>2. \/ c.k = "init" /\ chains' = Add(Add({}, ListOf(folder)), SharesOf)
        \/ UNCHANGED phase /\ Ends(c)
        \/ UNCHANGED phase /\ MovesTo(c, [c EXCEPT !.step = "go"])
        \/ UNCHANGED phase /\ MovesTo(c, [c EXCEPT !.step = "again"])
        \/ phase' = (IF phase = "loading" THEN "error" ELSE phase) /\ Throws(c)
    BY <1>30, Zenon DEF OpenAnswer
  <2>3. CASE c.k = "init" /\ chains' = Add(Add({}, ListOf(folder)), SharesOf)
    <3>1. folder \in Folders
      BY <2>3 DEF FirstRenewal
    <3>2. \A d \in chains' : d.k # "init"
      BY <1>28, <2>3, <3>1
    <3> QED BY <3>2 DEF FirstRenewal
  <2>4. ASSUME UNCHANGED phase,
               \/ Ends(c) \/ MovesTo(c, [c EXCEPT !.step = "go"])
               \/ MovesTo(c, [c EXCEPT !.step = "again"])
        PROVE  FirstRenewal'
    BY <1>1, <1>3, <1>4, <1>9, <2>1, <2>4
  <2>5. CASE phase' = (IF phase = "loading" THEN "error" ELSE phase) /\ Throws(c)
    BY <1>1, <1>7, <2>1, <2>5
  <2> QED BY <2>2, <2>3, <2>4, <2>5, Zenon
<1> QED
  BY <1>12, <1>13, <1>14, <1>15, <1>16, <1>17, <1>18, <1>19, <1>20, <1>21, <1>22, <1>23, <1>24,
     <1>25, <1>26, <1>29, <1>30, Zenon DEF DriveNext, DriveUser, DriveAnswers, DriveOthers

(* Every step of the drive keeps the invariant and the files.               *)
LEMMA DriveStep ==
  ASSUME DriveInv, [DriveNext]_driveVars
  PROVE  DriveInv' /\ KeepsFiles
<1>1. DriveHolds /\ FirstRenewal /\ clicks \in 0 .. MaxClicks /\ MaxClicks \in Nat
  BY DriveConstants DEF DriveInv
<1>2. UNCHANGED files => KeepsFiles
  BY DEF KeepsFiles
<1>3. CASE UNCHANGED driveVars
  <2>1. /\ UNCHANGED server /\ UNCHANGED renewal /\ UNCHANGED history
        /\ UNCHANGED <<phase, folder, shares>> /\ UNCHANGED listing /\ UNCHANGED uploads
        /\ UNCHANGED modal /\ UNCHANGED chains /\ UNCHANGED files /\ UNCHANGED clicks
    BY <1>3, Zenon DEF driveVars, server
  <2>2. Carriers' /\ Landed'
    BY <1>1, <2>1, QuietStep
  <2>3. FirstRenewal'
    BY <1>1, <2>1 DEF FirstRenewal
  <2> QED BY <1>1, <1>2, <2>1, <2>2, <2>3, DriveRest DEF DriveInv, DriveHolds
<1>4. CASE DriveNext
  <2>1. FirstRenewal'
    BY <1>1, <1>4, RenewalOver
  <2>2. clicks' \in 0 .. MaxClicks
    <3>1. clicks' = clicks \/ (clicks < MaxClicks /\ clicks' = clicks + 1)
      BY <1>4, Zenon DEF DriveNext
    <3> QED BY <1>1, <3>1
  <2>3. DriveHolds' /\ KeepsFiles
    BY <1>1, <1>2, <1>4, DriveClicks, DriveDialogs, DialogSends, DriveRenews, DriveShows, UploadClicks,
       UploadChecked, UploadPlaced, ItemAnswered, OtherFile, Zenon
       DEF DriveNext, DriveUser, DriveAnswers, DriveOthers
  <2> QED BY <2>1, <2>2, <2>3 DEF DriveInv
<1> QED BY <1>3, <1>4

(* A file dropped on the drive lands in the folder it was dropped on, and   *)
(* replaces an item only when Replace was chosen for it or the item was not *)
(* there at the service's check: UploadsKeepFiles, for any folders, names,  *)
(* number of uploads, chains of calls and renewals.                         *)
THEOREM UploadsKeepFilesAlways == Spec => UploadsKeepFiles
<1>1. Open => DriveInv
  BY DriveStart DEF Open
<1>2. DriveInv /\ [Next]_windowVars => DriveInv'
  BY DriveStep, Parts
<1>3. DriveInv /\ [Next]_windowVars => [KeepsFiles]_driveVars
  BY DriveStep, Parts
<1>4. KeepsFiles <=> (\A i \in Items, u \in UploadIds :
       files[i] # u /\ files'[i] = u
       => /\ i[1] = uploads[u].item[1]
          /\ files[i] # 0 => u \in asked \/ met[u] = 0)
  BY DEF KeepsFiles
<1> QED BY <1>1, <1>2, <1>3, <1>4, PTL DEF Spec, UploadsKeepFiles

-----------------------------------------------------------------------------
(***************************************************************************)
(* Files dialog.  What is staged for a send is always the first chunks of  *)
(* the file it is at, and never all of them; an offset is never past them. *)
(***************************************************************************)
FirstChunks(k) == [n \in 1 .. k |-> n]
Short(k, f) == k \in Nat /\ (k = 0 \/ k < Size[f])
TransferTypes ==
  /\ sends \in [SendIds -> SendType] /\ DOMAIN staged = SendIds
  /\ cwd \in [dir : Dirs, known : BOOLEAN]
  /\ DOMAIN written = SendIds \X Docs /\ told \subseteq SendIds \X Docs

(* A send under way, its chunks staged and the answer it has.               *)
SendHolds(r, data) ==
  r.st \in {"sent", "got"} =>
    /\ r.doc \in Docs /\ Short(r.off, r.doc)
    /\ \E k \in Nat : Short(k, r.doc) /\ data = FirstChunks(k)
    /\ r.st = "got" /\ r.ans = "partial" => r.off + 1 < Size[r.doc]
    /\ r.st = "got" /\ r.ans = "offset_mismatch" => Short(r.expected, r.doc)
DoneIsWritten(s, r) ==
  r.st = "got" /\ r.ans = "done" => r.doc \in Docs /\ written[<<s, r.doc>>].has
WrittenIsWhole ==
  \A p \in SendIds \X Docs :
    written[p] = Absent \/ written[p] = [has |-> TRUE, data |-> Whole(p[2])]
ToldIsWritten == \A p \in told : written[p].has
TransferInv ==
  /\ TransferTypes /\ WrittenIsWhole /\ ToldIsWritten
  /\ \A s \in SendIds : SendHolds(sends[s], staged[s]) /\ DoneIsWritten(s, sends[s])

(* The chunks staged, one by one.                                           *)
LEMMA Chunks ==
  /\ FirstChunks(0) = <<>>
  /\ \A k \in Nat : /\ Len(FirstChunks(k)) = k
                    /\ Append(FirstChunks(k), k + 1) = FirstChunks(k + 1)
<1>1. FirstChunks(0) = <<>>
  BY DEF FirstChunks
<1>2. ASSUME NEW k \in Nat
      PROVE  /\ Len(FirstChunks(k)) = k
             /\ Append(FirstChunks(k), k + 1) = FirstChunks(k + 1)
  <2>1. FirstChunks(k) \in Seq(Nat) /\ Len(FirstChunks(k)) = k
    BY DEF FirstChunks
  <2>2. FirstChunks(k + 1) \in Seq(Nat) /\ Len(FirstChunks(k + 1)) = k + 1
    BY DEF FirstChunks
  <2>3. Append(FirstChunks(k), k + 1) \in Seq(Nat)
    BY <2>1
  <2>4. Len(Append(FirstChunks(k), k + 1)) = k + 1
    BY <2>1
  <2>5. \A n \in 1 .. k + 1 : Append(FirstChunks(k), k + 1)[n] = FirstChunks(k + 1)[n]
    BY <2>1 DEF FirstChunks
  <2> QED BY <2>1, <2>2, <2>3, <2>4, <2>5
<1> QED BY <1>1, <1>2

(* No send has begun.                                                       *)
LEMMA TransferStart == TransferInit => TransferInv
<1> SUFFICES ASSUME TransferInit PROVE TransferInv
  OBVIOUS
<1> USE TransferAssumption DEF TransferAssumption, TransferInit
<1>1. Idle \in SendType
  <2>1. Idle.doc \in Docs
    BY DEF Idle
  <2> QED BY <2>1 DEF Idle, SendType
<1>2. TransferTypes
  BY <1>1 DEF TransferTypes, Unlisted
<1>3. WrittenIsWhole /\ ToldIsWritten
  BY DEF WrittenIsWhole, ToldIsWritten
<1>4. Idle.st = "idle"
  BY DEF Idle
<1>5. ASSUME NEW s \in SendIds
      PROVE  SendHolds(sends[s], staged[s]) /\ DoneIsWritten(s, sends[s])
  BY <1>4 DEF SendHolds, DoneIsWritten
<1> QED BY <1>2, <1>3, <1>5 DEF TransferInv

(* One send moves, and what it had written stays.                           *)
LEMMA SendMoves ==
  ASSUME TransferInv, NEW s \in SendIds, NEW r \in SendType, NEW data,
         sends' = [sends EXCEPT ![s] = r],
         DOMAIN staged' = SendIds, staged'[s] = data,
         \A o \in SendIds : o # s => staged'[o] = staged[o],
         SendHolds(r, data), cwd' \in [dir : Dirs, known : BOOLEAN],
         UNCHANGED written, told' \subseteq SendIds \X Docs,
         \A p \in told' : written[p].has,
         DoneIsWritten(s, r)
  PROVE  TransferInv'
<1>1. TransferTypes'
  BY DEF TransferInv, TransferTypes
<1>2. WrittenIsWhole' /\ ToldIsWritten'
  BY DEF TransferInv, WrittenIsWhole, ToldIsWritten
<1>3. ASSUME NEW o \in SendIds
      PROVE  SendHolds(sends'[o], staged'[o]) /\ DoneIsWritten(o, sends[o])'
  <2>1. CASE o = s
    <3>1. sends'[o] = r /\ staged'[o] = data
      BY <2>1 DEF TransferInv, TransferTypes
    <3> QED BY <2>1, <3>1 DEF DoneIsWritten
  <2>2. CASE o # s
    <3>1. sends'[o] = sends[o] /\ staged'[o] = staged[o]
      BY <2>2 DEF TransferInv, TransferTypes
    <3>2. SendHolds(sends[o], staged[o]) /\ DoneIsWritten(o, sends[o])
      BY DEF TransferInv
    <3> QED BY <3>1, <3>2 DEF DoneIsWritten
  <2> QED BY <2>1, <2>2
<1> QED BY <1>1, <1>2, <1>3, Zenon DEF TransferInv

(* The loop ends or goes on with another file.                              *)
LEMMA LoopGoesOn ==
  ASSUME TransferInv, NEW s \in SendIds, NEW r \in SendType, UNCHANGED <<written, cwd>>,
         told' \subseteq SendIds \X Docs, \A p \in told' : written[p].has,
         LoopEnds(s, r) \/ \E f \in Docs : sendFile(s, r, f)
  PROVE  TransferInv'
<1>1. cwd' \in [dir : Dirs, known : BOOLEAN] /\ DOMAIN staged = SendIds
  BY DEF TransferInv, TransferTypes
<1>2. CASE LoopEnds(s, r)
  <2> DEFINE q == [r EXCEPT !.st = "over", !.ans = "none"]
  <2>1. q \in SendType /\ q.st = "over"
    BY DEF SendType
  <2>2. SendHolds(q, staged[s]) /\ DoneIsWritten(s, q)
    BY <2>1 DEF SendHolds, DoneIsWritten
  <2>3. sends' = [sends EXCEPT ![s] = q] /\ staged' = staged
    BY <1>2, Zenon DEF LoopEnds
  <2> HIDE DEF q
  <2> QED BY <1>1, <2>1, <2>2, <2>3, SendMoves
<1>3. ASSUME NEW f \in Docs, sendFile(s, r, f), ~LoopEnds(s, r) PROVE TransferInv'
  <2> DEFINE q == [r EXCEPT !.st = "sent", !.doc = f, !.rest = r.rest \ {f}, !.off = 0,
                            !.over = FALSE]
  <2>1. q \in SendType /\ q.st = "sent" /\ q.doc = f /\ q.off = 0
    BY DEF SendType
  <2>2. SendHolds(q, <<>>) /\ DoneIsWritten(s, q)
    BY <2>1, Chunks DEF SendHolds, DoneIsWritten, Short
  <2>3. sends' = [sends EXCEPT ![s] = q] /\ staged' = [staged EXCEPT ![s] = <<>>]
    BY <1>3, Zenon DEF sendFile
  <2> HIDE DEF q
  <2>4. /\ DOMAIN staged' = SendIds /\ staged'[s] = <<>>
        /\ \A o \in SendIds : o # s => staged'[o] = staged[o]
    BY <1>1, <2>3
  <2> QED BY <1>1, <2>1, <2>2, <2>3, <2>4, SendMoves
<1> QED BY <1>2, <1>3

(* The answer to a chunk reaches the loop.                                  *)
LEMMA ChunkResultKeeps ==
  ASSUME TransferInv, NEW s \in SendIds, ChunkResult(s)
  PROVE  TransferInv'
<1> DEFINE r == sends[s]
<1>1. /\ r \in SendType /\ r.st = "got" /\ UNCHANGED <<written, cwd>>
      /\ SendHolds(r, staged[s]) /\ DoneIsWritten(s, r) /\ r.rest \subseteq Docs
      /\ told \subseteq SendIds \X Docs /\ \A p \in told : written[p].has
      /\ cwd' \in [dir : Dirs, known : BOOLEAN] /\ DOMAIN staged = SendIds
  BY DEF ChunkResult, TransferInv, TransferTypes, SendType, ToldIsWritten
<1>2. \/ r.ans = "partial" /\ NextChunk(s, r)
      \/ r.ans = "done" /\ Uploaded(s, r)
      \/ r.ans = "exists" /\ Exists(s, r)
      \/ r.ans = "offset_mismatch" /\ Resync(s, r)
      \/ r.ans = "error" /\ LoopEnds(s, r) /\ UNCHANGED told
  BY Zenon DEF ChunkResult
<1> HIDE DEF r
<1>3. r.doc \in Docs /\ Short(r.off, r.doc)
  BY <1>1 DEF SendHolds
<1>4. PICK k \in Nat : Short(k, r.doc) /\ staged[s] = FirstChunks(k)
  BY <1>1 DEF SendHolds
<1>5. ASSUME NEW off \in Nat, Short(off, r.doc), UNCHANGED <<told, staged>>,
             sends' = [sends EXCEPT ![s] = [r EXCEPT !.st = "sent", !.off = off]]
      PROVE  TransferInv'
  <2> DEFINE q == [r EXCEPT !.st = "sent", !.off = off]
  <2>1. q \in SendType /\ q.st = "sent" /\ q.doc = r.doc /\ q.off = off
    BY <1>1 DEF SendType
  <2>2. SendHolds(q, staged[s]) /\ DoneIsWritten(s, q)
    BY <1>3, <1>4, <1>5, <2>1 DEF SendHolds, DoneIsWritten
  <2>3. /\ sends' = [sends EXCEPT ![s] = q] /\ UNCHANGED <<told, staged>>
    BY <1>5
  <2> HIDE DEF q
  <2> QED BY <1>1, <2>1, <2>2, <2>3, SendMoves
<1>6. CASE r.ans = "partial" /\ NextChunk(s, r)
  <2>1. r.off + 1 \in Nat /\ Short(r.off + 1, r.doc)
    BY <1>1, <1>3, <1>6 DEF SendHolds, Short
  <2> QED BY <1>5, <1>6, <2>1 DEF NextChunk
<1>7. CASE r.ans = "offset_mismatch" /\ Resync(s, r)
  <2>1. r.expected \in Nat /\ Short(r.expected, r.doc)
    BY <1>1, <1>7 DEF SendHolds, Short
  <2> QED BY <1>5, <1>7, <2>1 DEF Resync
<1>8. CASE r.ans = "done" /\ Uploaded(s, r)
  <2>1. told' = told \cup {<<s, r.doc>>} /\ written[<<s, r.doc>>].has
    BY <1>1, <1>8 DEF Uploaded, DoneIsWritten
  <2>2. told' \subseteq SendIds \X Docs /\ \A p \in told' : written[p].has
    BY <1>1, <1>3, <2>1
  <2>3. LoopEnds(s, r) \/ \E f \in Docs : sendFile(s, r, f)
    BY <1>1, <1>8, Zenon DEF Uploaded
  <2> QED BY <1>1, <2>2, <2>3, LoopGoesOn
<1>9. CASE r.ans = "exists" /\ Exists(s, r)
  <2>1. CASE LoopEnds(s, r)
    <3>1. UNCHANGED told
      BY <1>9 DEF Exists
    <3> QED BY <1>1, <2>1, <3>1, LoopGoesOn
  <2>2. CASE /\ sends' = [sends EXCEPT ![s] = [r EXCEPT !.st = "sent", !.off = 0, !.over = TRUE]]
             /\ staged' = [staged EXCEPT ![s] = <<>>] /\ UNCHANGED told
    <3> DEFINE q == [r EXCEPT !.st = "sent", !.off = 0, !.over = TRUE]
    <3>1. q \in SendType /\ q.st = "sent" /\ q.doc = r.doc /\ q.off = 0
      BY <1>1 DEF SendType
    <3>2. SendHolds(q, <<>>) /\ DoneIsWritten(s, q)
      BY <1>3, <3>1, Chunks DEF SendHolds, DoneIsWritten, Short
    <3> HIDE DEF q
    <3>3. /\ DOMAIN staged' = SendIds /\ staged'[s] = <<>>
          /\ \A o \in SendIds : o # s => staged'[o] = staged[o]
      BY <1>1, <2>2
    <3>4. sends' = [sends EXCEPT ![s] = q]
      BY <2>2 DEF q
    <3> QED BY <1>1, <2>2, <3>1, <3>2, <3>3, <3>4, SendMoves
  <2> QED BY <1>9, <2>1, <2>2, Zenon DEF Exists
<1>10. CASE r.ans = "error" /\ LoopEnds(s, r) /\ UNCHANGED told
  BY <1>1, <1>10, LoopGoesOn
<1> QED BY <1>2, <1>6, <1>7, <1>8, <1>9, <1>10

(* The bastion stages a chunk, writes the file, or refuses.                 *)
LEMMA UploadChunkKeeps ==
  ASSUME TransferInv, NEW s \in SendIds, upload_chunk(s)
  PROVE  TransferInv'
<1> DEFINE r == sends[s]
           had == IF r.off = 0 THEN <<>> ELSE staged[s]
           got(a, e) == [r EXCEPT !.st = "got", !.ans = a, !.expected = e]
<1>1. /\ r \in SendType /\ r.st = "sent" /\ UNCHANGED <<told, cwd>>
      /\ SendHolds(r, staged[s])
      /\ told \subseteq SendIds \X Docs /\ \A p \in told : written[p].has
      /\ cwd' \in [dir : Dirs, known : BOOLEAN] /\ DOMAIN staged = SendIds
      /\ DOMAIN sends = SendIds
  BY DEF upload_chunk, TransferInv, TransferTypes, ToldIsWritten, dialog
<1>2. /\ r.doc \in Docs /\ Short(r.off, r.doc) /\ Size[r.doc] \in Nat /\ r.off \in Nat
  BY <1>1, TransferAssumption DEF SendHolds, TransferAssumption, Short
<1>3. PICK k \in Nat : Short(k, r.doc) /\ had = FirstChunks(k)
  <2>1. PICK k \in Nat : Short(k, r.doc) /\ staged[s] = FirstChunks(k)
    BY <1>1 DEF SendHolds
  <2>2. Short(0, r.doc) /\ <<>> = FirstChunks(0)
    BY Chunks DEF Short
  <2> QED BY <2>1, <2>2
<1>4. Len(had) = k /\ Append(had, k + 1) = FirstChunks(k + 1)
  BY <1>3, Chunks
<1>5. ASSUME NEW a \in {"none", "partial", "done", "exists", "offset_mismatch", "error"},
             NEW e \in Nat
      PROVE  /\ got(a, e) \in SendType /\ got(a, e).st = "got" /\ got(a, e).ans = a
             /\ got(a, e).expected = e /\ got(a, e).doc = r.doc /\ got(a, e).off = r.off
  BY <1>1 DEF SendType
<1>6. ASSUME NEW a, NEW e, Answer(s, a, e) PROVE sends' = [sends EXCEPT ![s] = got(a, e)]
  BY <1>1, <1>6 DEF Answer, SendType
<1>7. ASSUME NEW data, Stage(s, data)
      PROVE  /\ DOMAIN staged' = SendIds /\ staged'[s] = data
             /\ \A o \in SendIds : o # s => staged'[o] = staged[o]
  BY <1>1, <1>7 DEF Stage
<1>8. /\ \E n \in Nat : Short(n, r.doc) /\ <<>> = FirstChunks(n)
      /\ \E n \in Nat : Short(n, r.doc) /\ staged[s] = FirstChunks(n)
  <2>1. Short(0, r.doc) /\ <<>> = FirstChunks(0)
    BY Chunks DEF Short
  <2> QED BY <1>1, <2>1 DEF SendHolds
<1> HIDE DEF r, had, got
<1>9. ASSUME NEW a \in {"exists", "error"}, Answer(s, a, 0), Stage(s, <<>>), UNCHANGED written
      PROVE  TransferInv'
  <2>1. SendHolds(got(a, 0), <<>>) /\ DoneIsWritten(s, got(a, 0))
    BY <1>2, <1>5, <1>8, <1>9 DEF SendHolds, DoneIsWritten
  <2> QED BY <1>1, <1>5, <1>6, <1>7, <1>9, <2>1, SendMoves
<1>10. CASE Answer(s, "offset_mismatch", Len(had)) /\ UNCHANGED <<staged, written>>
  <2>1. SendHolds(got("offset_mismatch", k), staged[s])
        /\ DoneIsWritten(s, got("offset_mismatch", k))
    BY <1>2, <1>3, <1>5, <1>8 DEF SendHolds, DoneIsWritten
  <2>2. sends' = [sends EXCEPT ![s] = got("offset_mismatch", k)]
    BY <1>4, <1>6, <1>10
  <2> QED BY <1>1, <1>5, <1>10, <2>1, <2>2, SendMoves
<1>11. Appended(s, had) = IF r.off < Size[r.doc] THEN Append(had, r.off + 1) ELSE had
  BY Zenon DEF Appended, r
<1>12. CASE /\ r.off = Len(had) /\ ~final(r) /\ Stage(s, Appended(s, had))
            /\ Answer(s, "partial", 0) /\ UNCHANGED written
  <2>1. r.off + 1 < Size[r.doc] /\ r.off = k
    BY <1>2, <1>4, <1>12 DEF final
  <2>2. Appended(s, had) = FirstChunks(k + 1)
    <3>1. k < Size[r.doc]
      BY <1>2, <2>1
    <3> QED BY <1>4, <1>11, <2>1, <3>1, Zenon
  <2>3. SendHolds(got("partial", 0), FirstChunks(k + 1)) /\ DoneIsWritten(s, got("partial", 0))
    <3>1. k + 1 \in Nat /\ Short(k + 1, r.doc)
      BY <2>1 DEF Short
    <3> QED BY <1>2, <1>5, <2>1, <3>1 DEF SendHolds, DoneIsWritten
  <2>4. /\ DOMAIN staged' = SendIds /\ staged'[s] = FirstChunks(k + 1)
        /\ \A o \in SendIds : o # s => staged'[o] = staged[o]
    BY <1>7, <1>12, <2>2
  <2>5. sends' = [sends EXCEPT ![s] = got("partial", 0)] /\ got("partial", 0) \in SendType
    BY <1>5, <1>6, <1>12
  <2> QED BY <1>1, <1>12, <2>3, <2>4, <2>5, SendMoves
<1>13. CASE /\ r.off = Len(had) /\ final(r) /\ Stage(s, <<>>)
            /\ written' = [written EXCEPT ![<<s, r.doc>>] =
                             [has |-> TRUE, data |-> Appended(s, had)]]
            /\ Answer(s, "done", 0)
  <2>1. Appended(s, had) = Whole(r.doc)
    <3>1. r.off = k /\ r.off + 1 >= Size[r.doc]
      BY <1>4, <1>13 DEF final
    <3>2. CASE k < Size[r.doc]
      <4>1. Appended(s, had) = FirstChunks(k + 1)
        BY <1>4, <1>11, <3>1, <3>2, Zenon
      <4>2. k + 1 = Size[r.doc]
        BY <1>2, <3>1, <3>2
      <4> QED BY <4>1, <4>2 DEF Whole, FirstChunks
    <3>3. CASE ~(k < Size[r.doc])
      <4>1. k = 0 /\ Size[r.doc] = 0
        BY <1>2, <1>3, <3>3 DEF Short
      <4>2. Appended(s, had) = FirstChunks(k)
        BY <1>3, <1>11, <3>1, <3>3, Zenon
      <4> QED BY <4>1, <4>2 DEF Whole, FirstChunks
    <3> QED BY <3>2, <3>3
  <2> DEFINE full == [has |-> TRUE, data |-> Whole(r.doc)]
  <2>2. /\ DOMAIN written = SendIds \X Docs /\ <<s, r.doc>> \in SendIds \X Docs
        /\ written' = [written EXCEPT ![<<s, r.doc>>] = full]
    <3>1. DOMAIN written = SendIds \X Docs
      BY DEF TransferInv, TransferTypes
    <3>2. <<s, r.doc>> \in SendIds \X Docs
      BY <1>2
    <3>3. written' = [written EXCEPT ![<<s, r.doc>>] = full]
      BY <1>13, <2>1, Zenon
    <3> QED BY <3>1, <3>2, <3>3
  <2>3. full.has = TRUE
    OBVIOUS
  <2>4. DOMAIN written' = SendIds \X Docs /\ written'[<<s, r.doc>>] = full
    BY <2>2, Zenon
  <2>5. ASSUME NEW p \in SendIds \X Docs
        PROVE  written'[p] = written[p] \/ (p = <<s, r.doc>> /\ written'[p] = full)
    BY <2>2, <2>4, Zenon
  <2> HIDE DEF full
  <2>6. WrittenIsWhole'
    <3>1. ASSUME NEW p \in SendIds \X Docs
          PROVE  written'[p] = Absent \/ written'[p] = [has |-> TRUE, data |-> Whole(p[2])]
      <4>1. CASE written'[p] = written[p]
        BY <4>1 DEF TransferInv, WrittenIsWhole
      <4>2. CASE p = <<s, r.doc>> /\ written'[p] = full
        <5>1. p[2] = r.doc
          BY <4>2
        <5> QED BY <4>2, <5>1, Zenon DEF full
      <4> QED BY <2>5, <4>1, <4>2
    <3> QED BY <3>1 DEF WrittenIsWhole
  <2>7. ASSUME NEW p \in SendIds \X Docs, written[p].has PROVE written'[p].has
    BY <2>3, <2>5, <2>7
  <2>8. ToldIsWritten' /\ told' \subseteq SendIds \X Docs
    BY <1>1, <2>7 DEF ToldIsWritten
  <2>9. sends' = [sends EXCEPT ![s] = got("done", 0)] /\ got("done", 0) \in SendType
    BY <1>5, <1>6, <1>13
  <2>10. TransferTypes'
    BY <1>1, <1>7, <1>13, <2>4, <2>8, <2>9 DEF TransferTypes, TransferInv
  <2>11. ASSUME NEW o \in SendIds
         PROVE  SendHolds(sends'[o], staged'[o]) /\ DoneIsWritten(o, sends[o])'
    <3>1. CASE o = s
      <4>1. sends'[o] = got("done", 0) /\ staged'[o] = <<>>
        BY <1>1, <1>7, <1>13, <2>9, <3>1
      <4>2. SendHolds(got("done", 0), <<>>)
        BY <1>2, <1>5, <1>8 DEF SendHolds
      <4>3. got("done", 0).doc = r.doc
        BY <1>5
      <4> QED BY <1>2, <2>3, <2>4, <3>1, <4>1, <4>2, <4>3 DEF DoneIsWritten
    <3>2. CASE o # s
      <4>1. sends'[o] = sends[o] /\ staged'[o] = staged[o]
        BY <1>1, <1>7, <1>13, <2>9, <3>2
      <4>2. SendHolds(sends[o], staged[o]) /\ DoneIsWritten(o, sends[o])
        BY DEF TransferInv
      <4>3. sends[o].doc \in Docs => <<o, sends[o].doc>> \in SendIds \X Docs
        OBVIOUS
      <4> QED BY <2>7, <4>1, <4>2, <4>3 DEF DoneIsWritten
    <3> QED BY <3>1, <3>2
  <2> QED BY <2>6, <2>8, <2>10, <2>11, Zenon DEF TransferInv
<1> QED
  <2>1. \/ Answer(s, "exists", 0) /\ Stage(s, <<>>) /\ UNCHANGED written
        \/ Answer(s, "offset_mismatch", Len(had)) /\ UNCHANGED <<staged, written>>
        \/ /\ r.off = Len(had)
           /\ \/ ~final(r) /\ Stage(s, Appended(s, had)) /\ Answer(s, "partial", 0)
                 /\ UNCHANGED written
              \/ final(r) /\ Stage(s, <<>>) /\ Push(s, Appended(s, had))
    BY Zenon DEF upload_chunk, r, had
  <2>2. ASSUME Push(s, Appended(s, had))
        PROVE  \/ /\ written' = [written EXCEPT ![<<s, r.doc>>] =
                                   [has |-> TRUE, data |-> Appended(s, had)]]
                  /\ Answer(s, "done", 0)
               \/ Answer(s, "error", 0) /\ UNCHANGED written
    BY <2>2, Zenon DEF Push, r
  <2> QED BY <1>9, <1>10, <1>12, <1>13, <2>1, <2>2

(* Every step of the files dialog and of the bastion keeps the invariant.   *)
LEMMA TransferStep == TransferInv /\ [TransferNext]_transferVars => TransferInv'
<1> SUFFICES ASSUME TransferInv, [TransferNext]_transferVars PROVE TransferInv'
  OBVIOUS
<1>1. /\ sends \in [SendIds -> SendType] /\ DOMAIN staged = SendIds
      /\ cwd \in [dir : Dirs, known : BOOLEAN]
      /\ told \subseteq SendIds \X Docs /\ \A p \in told : written[p].has
  BY DEF TransferInv, TransferTypes, ToldIsWritten
<1>2. ASSUME UNCHANGED <<sends, staged, written, told>>, cwd' \in [dir : Dirs, known : BOOLEAN]
      PROVE  TransferInv'
  BY <1>2 DEF TransferInv, TransferTypes, WrittenIsWhole, ToldIsWritten, DoneIsWritten
<1>3. CASE UNCHANGED transferVars
  BY <1>1, <1>2, <1>3 DEF transferVars, bastion, dialog
<1>4. ASSUME NEW d \in Dirs, load(d) \/ LoadAnswer(d) PROVE TransferInv'
  <2>1. UNCHANGED <<sends, staged, written, told>>
    BY <1>4, Zenon DEF load, LoadAnswer, bastion
  <2>2. cwd' = cwd \/ cwd' = [dir |-> d, known |-> TRUE]
    BY <1>4 DEF load, LoadAnswer
  <2>3. [dir |-> d, known |-> TRUE] \in [dir : Dirs, known : BOOLEAN]
    OBVIOUS
  <2>4. cwd' \in [dir : Dirs, known : BOOLEAN]
    BY <1>1, <2>2, <2>3, Zenon
  <2> QED BY <1>2, <2>1, <2>4
<1>5. ASSUME NEW s \in SendIds, NEW chosen \in SUBSET Docs, sendFiles(s, chosen)
      PROVE  TransferInv'
  <2> DEFINE r == [Idle EXCEPT !.rest = chosen, !.dir = cwd.dir]
  <2>1. r \in SendType
    <3>1. sends[s] = Idle
      BY <1>5 DEF sendFiles
    <3>2. Idle \in SendType /\ cwd.dir \in Dirs
      BY <1>1, <3>1
    <3> QED BY <3>2 DEF SendType
  <2>2. \E f \in Docs : sendFile(s, r, f)
    BY <1>5, Zenon DEF sendFiles
  <2>3. UNCHANGED <<written, cwd, told>>
    BY <1>5 DEF sendFiles
  <2> HIDE DEF r
  <2> QED BY <1>1, <2>1, <2>2, <2>3, LoopGoesOn
<1>6. ASSUME NEW s \in SendIds, ChunkFails(s) PROVE TransferInv'
  <2> DEFINE q == [sends[s] EXCEPT !.st = "got", !.ans = "error", !.expected = 0]
  <2>1. sends[s] \in SendType /\ sends[s].st = "sent" /\ SendHolds(sends[s], staged[s])
    BY <1>1, <1>6 DEF ChunkFails, TransferInv
  <2>2. /\ q \in SendType /\ q.st = "got" /\ q.ans = "error" /\ q.doc = sends[s].doc
        /\ q.off = sends[s].off
    BY <2>1 DEF SendType
  <2>3. sends' = [sends EXCEPT ![s] = q]
    BY <1>1, <1>6, <2>1 DEF ChunkFails, Answer, SendType
  <2>4. /\ DOMAIN staged' = SendIds /\ staged'[s] = <<>>
        /\ \A o \in SendIds : o # s => staged'[o] = staged[o]
    BY <1>1, <1>6 DEF ChunkFails, Stage
  <2> HIDE DEF q
  <2>5. SendHolds(q, <<>>) /\ DoneIsWritten(s, q)
    <3>1. Short(0, q.doc) /\ <<>> = FirstChunks(0)
      BY Chunks DEF Short
    <3> QED BY <2>1, <2>2, <3>1 DEF SendHolds, DoneIsWritten
  <2>6. UNCHANGED <<written, cwd, told>>
    BY <1>6 DEF ChunkFails, dialog
  <2> QED BY <1>1, <2>2, <2>3, <2>4, <2>5, <2>6, SendMoves
<1>7. ASSUME NEW s \in SendIds, sweep_staging(s) PROVE TransferInv'
  <2> DEFINE q == sends[s]
  <2>1. q \in SendType /\ SendHolds(q, staged[s]) /\ DoneIsWritten(s, q)
    BY <1>1 DEF TransferInv
  <2>2. sends' = [sends EXCEPT ![s] = q] /\ UNCHANGED <<written, cwd, told>>
    BY <1>1, <1>7 DEF sweep_staging, dialog
  <2>3. /\ DOMAIN staged' = SendIds /\ staged'[s] = <<>>
        /\ \A o \in SendIds : o # s => staged'[o] = staged[o]
    BY <1>1, <1>7 DEF sweep_staging, Stage
  <2> HIDE DEF q
  <2>4. SendHolds(q, <<>>)
    <3>1. Short(0, q.doc) /\ <<>> = FirstChunks(0)
      BY Chunks DEF Short
    <3> QED BY <2>1, <3>1 DEF SendHolds
  <2> QED BY <1>1, <2>1, <2>2, <2>3, <2>4, SendMoves
<1> QED
  BY <1>3, <1>4, <1>5, <1>6, <1>7, ChunkResultKeeps, UploadChunkKeeps, Zenon DEF TransferNext

(* The files dialog says "uploaded" of a file only when all of it was       *)
(* written to the target, in order: UploadedIsWhole, for any files, sizes,  *)
(* number of loops and sweeps.                                              *)
THEOREM UploadedIsWholeAlways == Spec => []UploadedIsWhole
<1>1. Open => TransferInv
  BY TransferStart DEF Open
<1>2. TransferInv /\ [Next]_windowVars => TransferInv'
  BY TransferStep, Parts
<1>3. TransferInv => UploadedIsWhole
  <2> SUFFICES ASSUME TransferInv, NEW p \in told
               PROVE  written[p] = [has |-> TRUE, data |-> Whole(p[2])]
    BY DEF UploadedIsWhole
  <2>1. p \in SendIds \X Docs /\ written[p].has
    BY DEF TransferInv, TransferTypes, ToldIsWritten
  <2>2. written[p] # Absent
    BY <2>1 DEF Absent
  <2> QED BY <2>1, <2>2 DEF TransferInv, WrittenIsWhole
<1> QED BY <1>1, <1>2, <1>3, PTL DEF Spec

-----------------------------------------------------------------------------
(***************************************************************************)
(* Accounts.  The administrators are finitely many, so that the check      *)
(* under user_mutex (LastAdmin) counts them.                               *)
(***************************************************************************)
UsersInv == UsersTypeOK /\ IsFiniteSet(Admins(role)) /\ AdminRemains

(* Two administrators at first.                                             *)
LEMMA UsersStart == UsersInit => UsersInv
<1> SUFFICES ASSUME UsersInit PROVE UsersInv
  OBVIOUS
<1> USE UsersAssumption DEF UsersAssumption, UsersInit
<1>1. Me \in Admins(role) /\ Admins(role) \subseteq {Me, Peer}
  BY DEF Admins
<1>2. IsFiniteSet({Me, Peer})
  <2>1. IsFiniteSet({} \cup {Me} \cup {Peer})
    BY FS_EmptySet, FS_AddElement
  <2>2. {} \cup {Me} \cup {Peer} = {Me, Peer}
    OBVIOUS
  <2> QED BY <2>1, <2>2
<1>3. IsFiniteSet(Admins(role))
  BY <1>1, <1>2, FS_Subset
<1>4. UsersTypeOK
  <2>1. role \in [Accounts -> Values] /\ rows \in [Accounts -> Values]
    BY DEF Values
  <2>2. made \in 0..MaxCalls
    OBVIOUS
  <2> QED BY <2>1, <2>2 DEF UsersTypeOK
<1> QED BY <1>1, <1>3, <1>4 DEF UsersInv, AdminRemains

(* A request and how far it came.                                           *)
AskType == [by : {Me, Peer}, op : {"create", "update", "delete"},
            who : Accounts, to : Roles,
            step : {"sent", "change", "persist", "ok", "refused"}]

(* Every step of the accounts page and of the bastion keeps the types.      *)
LEMMA UsersTypes ==
  ASSUME UsersTypeOK, [UsersNext]_userVars
  PROVE  UsersTypeOK'
<1> USE DEF memory, page
<1>1. /\ asks \subseteq AskType /\ made \in 0..MaxCalls /\ MaxCalls \in Nat
      /\ Roles \subseteq Values /\ "none" \in Values /\ "admin" \in Roles
      /\ {Me, Peer} \subseteq Accounts
  BY UsersAssumption DEF UsersAssumption, UsersTypeOK, AskType, Values
<1>2. ASSUME NEW by \in {Me, Peer}, NEW op \in {"create", "update", "delete"},
             NEW who \in Accounts, NEW to \in Roles, Send(by, op, who, to)
      PROVE  asks' \subseteq AskType /\ made' \in 0..MaxCalls
  <2>1. [by |-> by, op |-> op, who |-> who, to |-> to, step |-> "sent"] \in AskType
    BY DEF AskType
  <2>2. made' \in 0..MaxCalls
    BY <1>1, <1>2 DEF Send
  <2> QED BY <1>1, <1>2, <2>1, <2>2 DEF Send
<1>3. ASSUME NEW r \in asks, NEW s \in {"change", "persist", "ok", "refused"}
      PROVE  [r EXCEPT !.step = s] \in AskType
  BY <1>1 DEF AskType
<1>4. ASSUME NEW r \in asks
      PROVE  r \in AskType /\ r.who \in Accounts /\ r.to \in Values
  BY <1>1 DEF AskType
<1>5. ASSUME NEW a \in Accounts, SelectUser(a) PROVE UsersTypeOK'
  BY <1>5 DEF SelectUser, UsersTypeOK
<1>6. ASSUME NEW m \in {"view", "edit", "create"}, SetMode(m) PROVE UsersTypeOK'
  BY <1>6 DEF SetMode, UsersTypeOK
<1>7. ASSUME NEW a \in Accounts, NEW to \in Roles, SubmitCreate(a, to)
      PROVE  UsersTypeOK'
  <2>1. asks' \subseteq AskType /\ made' \in 0..MaxCalls
    BY <1>2, <1>7 DEF SubmitCreate
  <2> QED BY <1>7, <2>1 DEF SubmitCreate, UsersTypeOK, AskType
<1>8. ASSUME NEW to \in Roles, SubmitEdit(to) PROVE UsersTypeOK'
  <2>1. selected \in Accounts
    BY <1>8 DEF SubmitEdit, UsersTypeOK
  <2>2. asks' \subseteq AskType /\ made' \in 0..MaxCalls
    BY <1>2, <1>8, <2>1 DEF SubmitEdit
  <2> QED BY <1>8, <2>2 DEF SubmitEdit, UsersTypeOK, AskType
<1>9. CASE AskDelete \/ CancelDelete
  BY <1>9 DEF AskDelete, CancelDelete, UsersTypeOK
<1>10. CASE ConfirmDelete
  <2>1. selected \in Accounts
    BY <1>10 DEF ConfirmDelete, UsersTypeOK
  <2>2. asks' \subseteq AskType /\ made' \in 0..MaxCalls
    BY <1>1, <1>2, <1>10, <2>1 DEF ConfirmDelete
  <2> QED BY <1>10, <2>2 DEF ConfirmDelete, UsersTypeOK, AskType
<1>11. CASE ReloadUsers
  BY <1>11 DEF ReloadUsers, UsersTypeOK
<1>12. ASSUME NEW op \in {"create", "update", "delete"}, NEW who \in Accounts,
              NEW to \in Roles, PeerAsks(op, who, to)
       PROVE  UsersTypeOK'
  <2>1. asks' \subseteq AskType /\ made' \in 0..MaxCalls
    BY <1>2, <1>12 DEF PeerAsks
  <2> QED BY <1>12, <2>1 DEF PeerAsks, UsersTypeOK, AskType
<1>13. ASSUME NEW r \in asks, Authorize(r) PROVE UsersTypeOK'
  <2>1. asks' \subseteq AskType
    BY <1>1, <1>3, <1>13 DEF Authorize
  <2> QED BY <1>13, <2>1 DEF Authorize, UsersTypeOK, AskType
<1>14. ASSUME NEW r \in asks, Change(r) PROVE UsersTypeOK'
  <2>1. asks' \subseteq AskType
    BY <1>1, <1>3, <1>14 DEF Change
  <2>2. role' \in [Accounts -> Values]
    BY <1>1, <1>4, <1>14 DEF Change, UsersTypeOK
  <2>3. dead' \subseteq Accounts
    BY <1>4, <1>14 DEF Change, UsersTypeOK
  <2> QED BY <1>14, <2>1, <2>2, <2>3 DEF Change, UsersTypeOK, AskType
<1>15. ASSUME NEW r \in asks, Persist(r) PROVE UsersTypeOK'
  <2>1. asks' \subseteq AskType
    BY <1>1, <1>3, <1>15 DEF Persist
  <2> QED BY <1>15, <2>1 DEF Persist, UsersTypeOK, AskType
<1>16. ASSUME NEW r \in asks, PersistFails(r) PROVE UsersTypeOK'
  <2>1. asks' \subseteq AskType
    BY <1>1, <1>3, <1>16 DEF PersistFails
  <2>2. role' \in [Accounts -> Values] /\ dead' \subseteq Accounts
    BY <1>1, <1>4, <1>16 DEF PersistFails, UsersTypeOK
  <2>3. lost' \in BOOLEAN
    BY <1>16, Zenon DEF PersistFails, UsersTypeOK
  <2> QED BY <1>16, <2>1, <2>2, <2>3 DEF PersistFails, UsersTypeOK, AskType
<1>17. ASSUME NEW r \in asks, UserAnswer(r) PROVE UsersTypeOK'
  <2>1. asks' \subseteq AskType
    BY <1>1, <1>17 DEF UserAnswer
  <2>2. CASE r.by = Me
    <3>1. /\ rows' = [rows EXCEPT ![r.who] = IF r.op = "delete" THEN "none" ELSE r.to]
          /\ busy' = FALSE /\ confirming' = FALSE
          /\ selected' = (CASE r.op = "create" -> r.who
                            [] r.op = "delete" -> Nobody [] OTHER -> selected)
          /\ mode' = (IF r.op = "delete" THEN mode ELSE "view")
      BY <1>17, <2>2 DEF UserAnswer
    <3>2. rows' \in [Accounts -> Values]
      BY <1>1, <1>4, <3>1 DEF UsersTypeOK
    <3>3. selected' \in Accounts \cup {Nobody}
      BY <1>4, <3>1 DEF UsersTypeOK
    <3>4. mode' \in {"view", "edit", "create"}
      BY <3>1 DEF UsersTypeOK
    <3> QED BY <1>17, <2>1, <3>1, <3>2, <3>3, <3>4 DEF UserAnswer, UsersTypeOK, AskType
  <2>3. CASE r.by # Me
    BY <1>17, <2>1, <2>3 DEF UserAnswer, UsersTypeOK, AskType
  <2> QED BY <2>2, <2>3
<1>18. ASSUME NEW r \in asks, UserError(r) PROVE UsersTypeOK'
  BY <1>18 DEF UserError, UsersTypeOK
<1>19. ASSUME NEW a \in Accounts, SignInAgain(a) PROVE UsersTypeOK'
  BY <1>19 DEF SignInAgain, UsersTypeOK
<1>20. CASE UNCHANGED userVars
  BY <1>20 DEF userVars, UsersTypeOK
<1> QED
  BY <1>5, <1>6, <1>7, <1>8, <1>9, <1>10, <1>11, <1>12, <1>13, <1>14, <1>15, <1>16,
     <1>17, <1>18, <1>19, <1>20, Zenon DEF UsersNext, UsersPage

(* Only the checked change and a row that could not be written touch the    *)
(* roles.                                                                   *)
LEMMA RoleStep ==
  ASSUME [UsersNext]_userVars
  PROVE  \/ UNCHANGED <<role, lost>>
         \/ \E r \in asks : Change(r) \/ PersistFails(r)
<1> USE DEF memory
<1>1. CASE UsersPage
  BY <1>1, Zenon DEF UsersPage, SelectUser, SubmitCreate, SetMode, SubmitEdit, AskDelete,
       CancelDelete, ConfirmDelete, ReloadUsers
<1>2. ASSUME NEW op, NEW who, NEW to, PeerAsks(op, who, to)
      PROVE  UNCHANGED <<role, lost>>
  BY <1>2 DEF PeerAsks
<1>3. ASSUME NEW r \in asks,
             Authorize(r) \/ Persist(r) \/ UserAnswer(r) \/ UserError(r)
      PROVE  UNCHANGED <<role, lost>>
  BY <1>3 DEF Authorize, Persist, UserAnswer, UserError
<1>4. ASSUME NEW a, SignInAgain(a) PROVE UNCHANGED <<role, lost>>
  BY <1>4 DEF SignInAgain
<1>5. CASE UNCHANGED userVars
  BY <1>5 DEF userVars
<1> QED BY <1>1, <1>2, <1>3, <1>4, <1>5, Zenon DEF UsersNext

(* An administrator remains.                                                *)
LEMMA UsersStep == UsersInv /\ [UsersNext]_userVars => UsersInv'
<1> SUFFICES ASSUME UsersInv, [UsersNext]_userVars PROVE UsersInv'
  OBVIOUS
<1>1. UsersTypeOK'
  BY UsersTypes DEF UsersInv
<1> DEFINE A == Admins(role)
<1>2. /\ role \in [Accounts -> Values] /\ IsFiniteSet(A) /\ (lost \/ A # {})
      /\ asks \subseteq AskType
  BY DEF UsersInv, UsersTypeOK, AdminRemains, AskType
<1>3. CASE UNCHANGED <<role, lost>>
  <2>1. Admins(role)' = A
    BY <1>3 DEF Admins
  <2> QED BY <1>1, <1>2, <1>3, <2>1 DEF UsersInv, AdminRemains
<1>4. ASSUME NEW who \in Accounts, NEW v, role' = [role EXCEPT ![who] = v]
      PROVE  /\ A \ {who} \subseteq Admins(role)' /\ Admins(role)' \subseteq A \cup {who}
             /\ (v = "admin" => A \subseteq Admins(role)')
             /\ IsFiniteSet(Admins(role)')
  <2>1. /\ A \ {who} \subseteq Admins(role)' /\ Admins(role)' \subseteq A \cup {who}
        /\ (v = "admin" => A \subseteq Admins(role)')
    BY <1>2, <1>4 DEF Admins
  <2>2. IsFiniteSet(A \cup {who})
    BY <1>2, FS_AddElement
  <2>3. IsFiniteSet(Admins(role)')
    BY <2>1, <2>2, FS_Subset
  <2> QED BY <2>1, <2>3
<1>5. ASSUME NEW r \in asks, Change(r)
      PROVE  IsFiniteSet(Admins(role)') /\ AdminRemains'
  <2>1. r.who \in Accounts /\ r.op \in {"create", "update", "delete"}
    BY <1>2 DEF AskType
  <2>2. UNCHANGED lost
    BY <1>5 DEF Change
  <2>3. CASE UNCHANGED role
    BY <1>2, <2>2, <2>3 DEF AdminRemains, Admins
  <2>4. CASE /\ ~Refused(r)
             /\ role' = [role EXCEPT ![r.who] = IF r.op = "delete" THEN "none" ELSE r.to]
    <3> DEFINE v == IF r.op = "delete" THEN "none" ELSE r.to
    <3> HIDE DEF v
    <3>1. /\ A \ {r.who} \subseteq Admins(role)'
          /\ (v = "admin" => A \subseteq Admins(role)')
          /\ IsFiniteSet(Admins(role)')
      BY <1>4, <2>1, <2>4 DEF v
    <3>2. CASE v = "admin"
      BY <1>2, <2>2, <3>1, <3>2 DEF AdminRemains
    <3>3. CASE r.who \notin A
      BY <1>2, <2>2, <3>1, <3>3 DEF AdminRemains
    <3>4. CASE v # "admin" /\ r.who \in A
      <4>1. r.op # "create"
        BY <2>4, <3>4, UsersAssumption DEF Refused, Admins, UsersAssumption
      <4>2. ~LastAdmin(r.who)
        BY <2>1, <2>4, <3>4, <4>1 DEF Refused, v
      <4>3. ~(Cardinality(A) <= 1)
        BY <3>4, <4>2 DEF LastAdmin
      <4>4. A \ {r.who} # {}
        <5>1. SUFFICES ASSUME A \ {r.who} = {} PROVE FALSE
          OBVIOUS
        <5>2. A = {r.who}
          BY <3>4, <5>1
        <5>3. Cardinality(A) = 1
          BY <5>2, FS_Singleton
        <5> QED BY <4>3, <5>3
      <4> QED BY <3>1, <4>4 DEF AdminRemains
    <3> QED BY <3>1, <3>2, <3>3, <3>4
  <2> QED BY <1>5, <2>3, <2>4 DEF Change
<1>6. ASSUME NEW r \in asks, PersistFails(r)
      PROVE  IsFiniteSet(Admins(role)') /\ AdminRemains'
  <2>1. r.who \in Accounts
    BY <1>2 DEF AskType
  <2>2. CASE UNCHANGED <<role, lost>>
    BY <1>2, <2>2 DEF AdminRemains, Admins
  <2>3. CASE /\ role' = [role EXCEPT ![r.who] = "none"]
             /\ lost' = (lost \/ r.who \in Admins(role))
    <3>1. A \ {r.who} \subseteq Admins(role)' /\ IsFiniteSet(Admins(role)')
      BY <1>4, <2>1, <2>3
    <3>2. lost' \/ Admins(role)' # {}
      BY <1>2, <2>3, <3>1, Zenon
    <3> QED BY <3>1, <3>2 DEF AdminRemains
  <2> QED BY <1>6, <2>2, <2>3, Zenon DEF PersistFails
<1> QED BY <1>1, <1>3, <1>5, <1>6, RoleStep DEF UsersInv

(* An administrator who can sign in always remains, for any number of       *)
(* accounts and any overlap of the requests of administrators, unless the   *)
(* row of a new one could not be written (routes.cc, update and delete of   *)
(* users under user_mutex).                                                 *)
THEOREM AdminRemainsAlways == Spec => []AdminRemains
<1>1. Open => UsersInv
  BY UsersStart DEF Open
<1>2. UsersInv /\ [Next]_windowVars => UsersInv'
  BY UsersStep, Parts
<1>3. UsersInv => AdminRemains
  BY DEF UsersInv
<1> QED BY <1>1, <1>2, <1>3, PTL DEF Spec

-----------------------------------------------------------------------------
(***************************************************************************)
(* Second factors.  A confirmation that is open names a removal; with      *)
(* handlers that do not overlap, what a handler checked still holds when   *)
(* it writes.                                                              *)
(***************************************************************************)
CardType == [totp : BOOLEAN, webauthn : BOOLEAN, keys : SUBSET Keys,
             preferred : Methods, setup : 0 .. MaxSecrets, busy : BOOLEAN]
ConfirmType == [op : Removals \cup {"none"}, key : Keys \cup {NoKey}]
RequestType == [n : 0 .. MaxChanges, card : Cards, op : FactorOps,
                key : Keys \cup {NoKey}, code : 0 .. MaxSecrets, method : Methods,
                step : {"sent", "checked", "done", "refused"}, seen : Factors]

ConfirmOK == \A k \in Cards : confirm[k].op = "none" => confirm[k] = Closed
KeyKnown == \A c \in requests : c.op = "register" => c.key \in Keys
FactorsTyped == FactorsTypeOK /\ ConfirmOK /\ KeyKnown

StillAllowed ==
  /\ \A c \in requests : c.step = "checked" => Allowed(c, account)
  /\ \A c, d \in requests : c.step = "checked" /\ d.step = "checked" => c = d
FactorsInv == FactorsTyped /\ StillAllowed /\ FactorRemains

(* What the parts of the type invariant are.                                *)
LEMMA FactorsParts ==
  FactorsTypeOK <=>
    /\ account \in Factors /\ secrets \in 0 .. MaxSecrets /\ sent \in 0 .. MaxChanges
    /\ card \in [Cards -> CardType] /\ confirm \in [Cards -> ConfirmType]
    /\ requests \subseteq RequestType
BY DEF FactorsTypeOK, CardType, ConfirmType, RequestType

(* The account has an authenticator app and its keys.                       *)
LEMMA FactorsStart == FactorsInit => FactorsInv
<1> SUFFICES ASSUME FactorsInit PROVE FactorsInv
  OBVIOUS
<1> USE FactorsAssumption DEF FactorsAssumption, FactorsInit
<1>1. account \in Factors
  BY DEF Factors, Methods
<1>2. Shown(account) \in CardType
  BY <1>1 DEF Shown, CardType, Factors, Methods
<1>3. card \in [Cards -> CardType]
  BY <1>2
<1>4. Closed \in ConfirmType
  BY DEF Closed, ConfirmType
<1>5. confirm \in [Cards -> ConfirmType]
  BY <1>4
<1>6. secrets \in 0..MaxSecrets /\ sent \in 0..MaxChanges
  OBVIOUS
<1>7. FactorsTypeOK
  BY <1>1, <1>3, <1>5, <1>6, FactorsParts
<1>8. ConfirmOK /\ KeyKnown /\ StillAllowed
  BY DEF ConfirmOK, KeyKnown, StillAllowed
<1>9. FactorRemains
  BY DEF FactorRemains
<1> QED BY <1>7, <1>8, <1>9 DEF FactorsInv, FactorsTyped

(* What a handler writes is an account.                                     *)
LEMMA AppliedType ==
  ASSUME FactorsTypeOK, KeyKnown, NEW c \in requests,
         c.op = "setup" => secrets < MaxSecrets
  PROVE  Applied(c, account) \in Factors
<1>1. account \in Factors /\ c \in RequestType /\ secrets \in 0..MaxSecrets
  BY FactorsParts
<1>2. /\ c.op \in FactorOps /\ c.key \in Keys \cup {NoKey} /\ c.method \in Methods
      /\ c.seen \in Factors
  BY <1>1 DEF RequestType
<1>3. MaxSecrets \in Nat
  BY FactorsAssumption DEF FactorsAssumption
<1>4. CASE c.op = "setup"
  <2>1. secrets + 1 \in 0..MaxSecrets
    BY <1>1, <1>3, <1>4
  <2>2. Applied(c, account) = [account EXCEPT !.totp = FALSE, !.secret = secrets + 1]
    BY <1>4 DEF Applied
  <2> QED BY <1>1, <2>1, <2>2 DEF Factors
<1>5. CASE c.op = "verify"
  <2>1. Applied(c, account) = [account EXCEPT !.totp = TRUE, !.secret = c.seen.secret]
    BY <1>5 DEF Applied
  <2> QED BY <1>1, <1>2, <2>1 DEF Factors
<1>6. CASE c.op = "disable"
  <2> DEFINE p == Prefers(account, "totp", IF c.seen.keys # {} THEN "webauthn" ELSE "any")
  <2>1. p \in Methods
    BY <1>1 DEF Prefers, Methods, Factors
  <2>2. Applied(c, account) =
          [account EXCEPT !.totp = FALSE, !.secret = 0, !.preferred = p]
    BY <1>6 DEF Applied
  <2> HIDE DEF p
  <2>3. 0 \in 0..MaxSecrets
    BY <1>3
  <2>4. [account EXCEPT !.totp = FALSE, !.secret = 0] \in Factors
    BY <1>1, <2>3 DEF Factors
  <2>5. [account EXCEPT !.totp = FALSE, !.secret = 0, !.preferred = p] \in Factors
    BY <1>1, <2>1, <2>3, <2>4 DEF Factors
  <2> QED BY <2>2, <2>5
<1>7. CASE c.op = "register"
  <2>1. Applied(c, account) = [account EXCEPT !.keys = @ \cup {c.key}]
    BY <1>7 DEF Applied
  <2>2. c.key \in Keys
    BY <1>7 DEF KeyKnown
  <2> QED BY <1>1, <2>1, <2>2 DEF Factors
<1>8. CASE c.op = "delete"
  <2> DEFINE p == IF account.keys \subseteq {c.key}
                    THEN Prefers(account, "webauthn", IF c.seen.totp THEN "totp" ELSE "any")
                    ELSE account.preferred
  <2>1. p \in Methods
    BY <1>1 DEF Prefers, Methods, Factors
  <2>2. Applied(c, account) =
          [account EXCEPT !.keys = @ \ {c.key}, !.preferred = p]
    BY <1>8 DEF Applied
  <2> HIDE DEF p
  <2> QED BY <1>1, <2>1, <2>2 DEF Factors
<1>9. CASE c.op = "prefer"
  <2>1. Applied(c, account) = [account EXCEPT !.preferred = c.method]
    BY <1>9 DEF Applied
  <2> QED BY <1>1, <1>2, <2>1 DEF Factors
<1>10. CASE c.op \in {"status", "reread"}
  <2>1. Applied(c, account) = account
    BY <1>10 DEF Applied
  <2> QED BY <1>1, <2>1
<1> QED BY <1>2, <1>4, <1>5, <1>6, <1>7, <1>8, <1>9, <1>10 DEF FactorOps, Removals

(* What an answer makes of the card is a card.                              *)
LEMMA UpdatedType ==
  ASSUME NEW s \in CardType, NEW c \in RequestType
  PROVE  Updated(s, c) \in CardType
<1>1. c.op \in FactorOps /\ c.seen \in Factors
  BY DEF RequestType
<1>2. /\ c.seen.totp \in BOOLEAN /\ c.seen.keys \in SUBSET Keys
      /\ c.seen.preferred \in Methods /\ c.seen.secret \in 0..MaxSecrets
  BY <1>1 DEF Factors
<1> DEFINE f == Flags(s, c.seen)
<1>3. f \in CardType
  BY <1>2 DEF Flags, CardType
<1>4. 0 \in 0..MaxSecrets
  BY FactorsAssumption DEF FactorsAssumption
<1> HIDE DEF f
<1>5. CASE c.op \in {"setup", "prefer"}
  BY <1>2, <1>5 DEF Updated, CardType
<1>6. CASE c.op = "verify"
  <2>1. Updated(s, c) = [f EXCEPT !.totp = TRUE, !.setup = 0]
    BY <1>6 DEF Updated, f
  <2> QED BY <1>3, <1>4, <2>1 DEF CardType
<1>7. CASE c.op = "disable"
  <2>1. Updated(s, c) = [f EXCEPT !.totp = FALSE]
    BY <1>7 DEF Updated, f
  <2> QED BY <1>3, <2>1 DEF CardType
<1>8. CASE c.op = "register"
  BY <1>3, <1>8 DEF Updated, f
<1>9. CASE c.op \in {"delete", "reread"}
  <2>1. Updated(s, c) = [f EXCEPT !.keys = c.seen.keys, !.busy = FALSE]
    BY <1>9 DEF Updated, f
  <2> QED BY <1>2, <1>3, <2>1 DEF CardType
<1>10. CASE c.op = "status"
  <2>1. Updated(s, c) = [f EXCEPT !.keys = c.seen.keys]
    BY <1>10 DEF Updated, f
  <2> QED BY <1>2, <1>3, <2>1 DEF CardType
<1> QED BY <1>1, <1>5, <1>6, <1>7, <1>8, <1>9, <1>10 DEF FactorOps, Removals

(* The card sends a request.                                                *)
LEMMA SendFactor ==
  ASSUME FactorsTyped, NEW k \in Cards, NEW op \in FactorOps,
         NEW key \in Keys \cup {NoKey}, NEW code \in 0..MaxSecrets, NEW m \in Methods,
         op = "register" => key \in Keys, SendRequest(k, op, key, code, m),
         card' \in [Cards -> CardType], UNCHANGED confirm
  PROVE  FactorsTyped'
<1>1. /\ account \in Factors /\ secrets \in 0..MaxSecrets /\ sent \in 0..MaxChanges
      /\ confirm \in [Cards -> ConfirmType] /\ requests \subseteq RequestType
  BY FactorsParts DEF FactorsTyped
<1>2. /\ sent < MaxChanges /\ sent' = sent + 1 /\ UNCHANGED <<account, secrets>>
      /\ requests' = requests \cup {Request(k, op, key, code, m)}
  BY DEF SendRequest
<1> DEFINE r == Request(k, op, key, code, m)
<1>3. NoFactors \in Factors
  BY FactorsAssumption DEF FactorsAssumption, NoFactors, Factors, Methods
<1>4. r \in RequestType /\ r.op = op /\ r.key = key
  BY <1>1, <1>3 DEF Request, RequestType
<1>5. sent' \in 0..MaxChanges
  BY <1>1, <1>2, FactorsAssumption DEF FactorsAssumption
<1> HIDE DEF r
<1>6. requests' = requests \cup {r}
  BY <1>2 DEF r
<1>7. requests' \subseteq RequestType /\ KeyKnown'
  BY <1>1, <1>4, <1>6 DEF KeyKnown, FactorsTyped
<1>8. FactorsTypeOK'
  BY <1>1, <1>2, <1>5, <1>7, FactorsParts DEF FactorsTypeOK, CardType, ConfirmType, RequestType
<1> QED BY <1>7, <1>8 DEF FactorsTyped, ConfirmOK

(* A request moves on, or is answered.                                      *)
LEMMA FactorMoves ==
  ASSUME FactorsTyped, UNCHANGED sent, account' \in Factors,
         secrets' \in 0..MaxSecrets, card' \in [Cards -> CardType],
         NEW c \in requests, NEW ds \in SUBSET RequestType,
         requests' = (requests \ {c}) \cup ds,
         \A d \in ds : d.op = "register" => d.key \in Keys,
         UNCHANGED confirm \/ CloseConfirm(c)
  PROVE  FactorsTyped'
<1>1. /\ sent \in 0..MaxChanges /\ confirm \in [Cards -> ConfirmType]
      /\ requests \subseteq RequestType
  BY FactorsParts DEF FactorsTyped
<1>2. requests' \subseteq RequestType /\ KeyKnown'
  BY <1>1 DEF KeyKnown, FactorsTyped
<1>3. c.card \in Cards /\ Closed \in ConfirmType
  BY <1>1 DEF RequestType, ConfirmType, Closed
<1>4. confirm' = confirm \/ confirm' = [confirm EXCEPT ![c.card] = Closed]
  BY DEF CloseConfirm
<1>5. confirm' \in [Cards -> ConfirmType]
  BY <1>1, <1>3, <1>4
<1>6. ConfirmOK'
  BY <1>1, <1>3, <1>4 DEF ConfirmOK, FactorsTyped
<1>7. FactorsTypeOK'
  BY <1>1, <1>2, <1>5 DEF FactorsTypeOK, CardType, ConfirmType, RequestType
<1> QED BY <1>2, <1>6, <1>7 DEF FactorsTyped

(* Every step of the card and of the bastion keeps the types.               *)
LEMMA FactorsTypes ==
  ASSUME FactorsTyped, [FactorsNext]_factorVars
  PROVE  FactorsTyped'
<1>1. /\ account \in Factors /\ secrets \in 0..MaxSecrets /\ sent \in 0..MaxChanges
      /\ card \in [Cards -> CardType] /\ confirm \in [Cards -> ConfirmType]
      /\ requests \subseteq RequestType /\ KeyKnown /\ ConfirmOK
  BY FactorsParts DEF FactorsTyped
<1>2. /\ MaxSecrets \in Nat /\ 0 \in 0..MaxSecrets /\ NoKey \in Keys \cup {NoKey}
      /\ "any" \in Methods /\ FactorOps \cap {"setup", "verify", "register", "prefer"} =
           {"setup", "verify", "register", "prefer"}
      /\ Removals \subseteq FactorOps
  BY FactorsAssumption DEF FactorsAssumption, Methods, FactorOps
<1>3. ASSUME NEW k \in Cards, onSetup2FA(k) PROVE FactorsTyped'
  BY <1>1, <1>2, <1>3, SendFactor DEF onSetup2FA
<1>4. ASSUME NEW k \in Cards, NEW code \in 0..secrets, onVerify2FA(k, code)
      PROVE  FactorsTyped'
  <2>1. code \in 0..MaxSecrets
    BY <1>1, <1>2
  <2> QED BY <1>1, <1>2, <1>4, <2>1, SendFactor DEF onVerify2FA
<1>5. ASSUME NEW k \in Cards, onCancelSetup(k) PROVE FactorsTyped'
  <2>1. card' = [card EXCEPT ![k].setup = 0] /\ UNCHANGED <<account, secrets, confirm, requests, sent>>
    BY <1>5 DEF onCancelSetup
  <2>2. card' \in [Cards -> CardType]
    BY <1>1, <1>2, <2>1 DEF CardType
  <2>3. FactorsTypeOK'
    BY <1>1, <2>1, <2>2 DEF FactorsTypeOK, CardType, ConfirmType, RequestType
  <2> QED BY <1>1, <2>1, <2>3 DEF FactorsTyped, ConfirmOK, KeyKnown
<1>6. ASSUME NEW k \in Cards, NEW op \in Removals, NEW key \in Keys \cup {NoKey},
             AskRemoval(k, op, key)
      PROVE  FactorsTyped'
  <2>1. /\ confirm' = [confirm EXCEPT ![k] = [op |-> op, key |-> key]]
        /\ UNCHANGED <<account, secrets, card, requests, sent>>
    BY <1>6 DEF AskRemoval
  <2>2. confirm' \in [Cards -> ConfirmType]
    BY <1>1, <2>1 DEF ConfirmType
  <2>3. ConfirmOK'
    BY <1>1, <2>1 DEF ConfirmOK, Removals
  <2>4. FactorsTypeOK'
    BY <1>1, <2>1, <2>2 DEF FactorsTypeOK, CardType, ConfirmType, RequestType
  <2> QED BY <1>1, <2>1, <2>3, <2>4 DEF FactorsTyped, KeyKnown
<1>7. ASSUME NEW k \in Cards, CancelRemoval(k) PROVE FactorsTyped'
  <2>1. /\ confirm' = [confirm EXCEPT ![k] = Closed]
        /\ UNCHANGED <<account, secrets, card, requests, sent>>
    BY <1>7 DEF CancelRemoval
  <2>2. confirm' \in [Cards -> ConfirmType]
    BY <1>1, <2>1 DEF ConfirmType, Closed
  <2>3. ConfirmOK'
    BY <1>1, <2>1 DEF ConfirmOK
  <2>4. FactorsTypeOK'
    BY <1>1, <2>1, <2>2 DEF FactorsTypeOK, CardType, ConfirmType, RequestType
  <2> QED BY <1>1, <2>1, <2>3, <2>4 DEF FactorsTyped, KeyKnown
<1>8. ASSUME NEW k \in Cards, NEW code \in 0..secrets, ConfirmRemoval(k, code)
      PROVE  FactorsTyped'
  <2>1. /\ SendRequest(k, confirm[k].op, confirm[k].key, code, "any")
        /\ card' = [card EXCEPT ![k].busy = @ \/ confirm[k].op = "delete"]
        /\ UNCHANGED confirm /\ confirm[k] # Closed
    BY <1>8 DEF ConfirmRemoval, Reachable
  <2>2. code \in 0..MaxSecrets
    BY <1>1, <1>2
  <2>3. confirm[k].op \in Removals /\ confirm[k].key \in Keys \cup {NoKey}
    BY <1>1, <2>1 DEF ConfirmOK, ConfirmType
  <2>4. confirm[k].op \in FactorOps /\ confirm[k].op # "register"
    BY <2>3 DEF FactorOps, Removals
  <2>5. card' \in [Cards -> CardType]
    <3>1. card[k] \in CardType /\ DOMAIN card = Cards
      BY <1>1
    <3> DEFINE q == [card[k] EXCEPT !.busy = @ \/ confirm[k].op = "delete"]
    <3>2. q \in CardType
      BY <3>1 DEF CardType
    <3>3. card' = [card EXCEPT ![k] = q]
      BY <2>1, <3>1, Zenon
    <3> HIDE DEF q
    <3> QED BY <1>1, <3>2, <3>3
  <2> QED BY <1>2, <2>1, <2>2, <2>3, <2>4, <2>5, SendFactor
<1>9. ASSUME NEW k \in Cards, NEW key \in Keys, onRegisterPasskey(k, key)
      PROVE  FactorsTyped'
  <2>1. card' \in [Cards -> CardType]
    BY <1>1, <1>9 DEF onRegisterPasskey, CardType
  <2> QED BY <1>2, <1>9, <2>1, SendFactor DEF onRegisterPasskey
<1>10. ASSUME NEW k \in Cards, NEW m \in Methods, onUpdateMfaPreference(k, m)
       PROVE  FactorsTyped'
  BY <1>1, <1>2, <1>10, SendFactor DEF onUpdateMfaPreference
<1>11. ASSUME NEW c \in requests, CheckRequest(c) PROVE FactorsTyped'
  <2> DEFINE d == IF Allowed(c, account) THEN [c EXCEPT !.seen = account, !.step = "checked"]
                  ELSE [c EXCEPT !.step = "refused"]
  <2>1. /\ requests' = (requests \ {c}) \cup {d}
        /\ UNCHANGED <<account, secrets, card, confirm, sent>>
    BY <1>11 DEF CheckRequest
  <2>2. d \in RequestType /\ d.op = c.op /\ d.key = c.key
    BY <1>1 DEF RequestType
  <2> HIDE DEF d
  <2>3. {d} \in SUBSET RequestType /\ \A e \in {d} : e.op = "register" => e.key \in Keys
    BY <1>1, <2>2 DEF KeyKnown
  <2> QED BY <1>1, <2>1, <2>3, FactorMoves
<1>12. ASSUME NEW c \in requests, ApplyRequest(c) PROVE FactorsTyped'
  <2> DEFINE d == [c EXCEPT !.seen = account',
                            !.step = IF Gone(c, account) THEN "refused" ELSE "done"]
  <2>1. /\ requests' = (requests \ {c}) \cup {d}
        /\ (c.op = "setup" => secrets < MaxSecrets)
        /\ secrets' = IF c.op = "setup" THEN secrets + 1 ELSE secrets
        /\ account' = IF Gone(c, account) THEN account ELSE Applied(c, account)
        /\ UNCHANGED <<card, confirm, sent>>
    BY <1>12 DEF ApplyRequest
  <2>2. Applied(c, account) \in Factors
    BY <1>1, <2>1, AppliedType DEF FactorsTyped
  <2>3. account' \in Factors /\ secrets' \in 0..MaxSecrets
    BY <1>1, <1>2, <2>1, <2>2
  <2>4. d \in RequestType /\ d.op = c.op /\ d.key = c.key
    BY <1>1, <2>3 DEF RequestType
  <2> HIDE DEF d
  <2>5. {d} \in SUBSET RequestType /\ \A e \in {d} : e.op = "register" => e.key \in Keys
    BY <1>1, <2>4 DEF KeyKnown
  <2> QED BY <1>1, <2>1, <2>3, <2>5, FactorMoves
<1>13. ASSUME NEW c \in requests, FactorAnswer(c) PROVE FactorsTyped'
  <2>1. c \in RequestType /\ c.card \in Cards
    BY <1>1 DEF RequestType
  <2>2. /\ card' = [card EXCEPT ![c.card] = Updated(@, c)]
        /\ requests' = (requests \ {c}) \cup onLoad2FAStatus(c)
        /\ UNCHANGED <<account, secrets, sent>> /\ CloseConfirm(c)
    BY <1>13 DEF FactorAnswer
  <2>3. card' \in [Cards -> CardType]
    <3>1. Updated(card[c.card], c) \in CardType
      BY <1>1, <2>1, UpdatedType
    <3> QED BY <1>1, <2>1, <2>2, <3>1
  <2>4. NoFactors \in Factors
    BY <1>2 DEF NoFactors, Factors, Methods
  <2>5. /\ onLoad2FAStatus(c) \in SUBSET RequestType
        /\ \A e \in onLoad2FAStatus(c) : e.op = "register" => e.key \in Keys
    <3>1. CASE c.op \in {"verify", "disable"}
      <4> DEFINE d == [c EXCEPT !.op = "status", !.step = "sent", !.seen = NoFactors]
      <4>1. onLoad2FAStatus(c) = {d}
        BY <3>1 DEF onLoad2FAStatus
      <4>2. d \in RequestType /\ d.op = "status"
        BY <2>1, <2>4 DEF RequestType, FactorOps
      <4> HIDE DEF d
      <4> QED BY <4>1, <4>2
    <3>2. CASE c.op = "register"
      <4> DEFINE d == [c EXCEPT !.op = "reread", !.step = "sent", !.seen = NoFactors]
      <4>1. onLoad2FAStatus(c) = {d}
        BY <3>2 DEF onLoad2FAStatus
      <4>2. d \in RequestType /\ d.op = "reread"
        BY <2>1, <2>4 DEF RequestType, FactorOps
      <4> HIDE DEF d
      <4> QED BY <4>1, <4>2
    <3>3. CASE c.op \notin {"verify", "disable", "register"}
      BY <3>3 DEF onLoad2FAStatus
    <3> QED BY <3>1, <3>2, <3>3
  <2> QED BY <1>1, <2>2, <2>3, <2>5, FactorMoves
<1>14. ASSUME NEW c \in requests, FactorError(c) PROVE FactorsTyped'
  <2>1. c.card \in Cards
    BY <1>1 DEF RequestType
  <2>2. /\ requests' = (requests \ {c}) \cup {} /\ CloseConfirm(c)
        /\ UNCHANGED <<account, secrets, sent>>
    BY <1>14 DEF FactorError
  <2>3. PICK b \in BOOLEAN : card' = [card EXCEPT ![c.card].busy = b]
    <3> DEFINE b == card[c.card].busy /\ c.op \notin {"register", "delete", "reread"}
    <3>1. card' = [card EXCEPT ![c.card].busy = b]
      BY <1>14 DEF FactorError
    <3>2. b \in BOOLEAN
      BY Zenon
    <3> HIDE DEF b
    <3> QED BY <3>1, <3>2
  <2>5. card' \in [Cards -> CardType]
    BY <1>1, <2>1, <2>3 DEF CardType
  <2>4. {} \in SUBSET RequestType
    OBVIOUS
  <2> QED BY <1>1, <2>2, <2>4, <2>5, FactorMoves
<1>15. CASE UNCHANGED factorVars
  BY <1>15 DEF factorVars, FactorsTyped, FactorsTypeOK, ConfirmOK, KeyKnown
<1>16. "disable" \in Removals /\ "delete" \in Removals
  BY DEF Removals
<1>17. CASE \E k \in Cards :
              \/ AskRemoval(k, "disable", NoKey)
              \/ \E key \in Keys : AskRemoval(k, "delete", key)
  BY <1>2, <1>6, <1>16, <1>17
<1> QED
  BY <1>3, <1>4, <1>5, <1>7, <1>8, <1>9, <1>10, <1>11, <1>12, <1>13, <1>14, <1>15,
     <1>17, Zenon DEF FactorsNext

(* What a handler checked does not depend on how far its request came.      *)
LEMMA AllowedSame ==
  ASSUME NEW c, NEW d, NEW a,
         d.op = c.op, d.code = c.code, d.key = c.key, d.method = c.method
  PROVE  Allowed(d, a) = Allowed(c, a)
BY Zenon DEF Allowed

(* What is allowed leaves an administrator a factor.                        *)
LEMMA AllowedKeeps ==
  ASSUME NEW c \in RequestType, account \in Factors, FactorRemains,
         Allowed(c, account), Admin
  PROVE  Applied(c, account).totp \/ Applied(c, account).keys # {}
<1>1. c.op \in FactorOps
  BY DEF RequestType
<1>2. account.totp \/ account.keys # {}
  BY DEF FactorRemains
<1>3. CASE c.op = "setup"
  <2>1. ~account.totp
    BY <1>3 DEF Allowed
  <2>2. Applied(c, account) = [account EXCEPT !.totp = FALSE, !.secret = secrets + 1]
    BY <1>3 DEF Applied
  <2> QED BY <1>2, <2>1, <2>2 DEF Factors
<1>4. CASE c.op = "verify"
  <2>1. Applied(c, account) = [account EXCEPT !.totp = TRUE, !.secret = c.seen.secret]
    BY <1>4 DEF Applied
  <2> QED BY <2>1 DEF Factors
<1>5. CASE c.op = "disable"
  <2>1. Cardinality(account.keys) > 0
    BY <1>5 DEF Allowed, KeepsFactor
  <2>2. account.keys # {}
    BY <2>1, FS_EmptySet
  <2> DEFINE p == Prefers(account, "totp", IF c.seen.keys # {} THEN "webauthn" ELSE "any")
  <2>3. Applied(c, account) =
          [account EXCEPT !.totp = FALSE, !.secret = 0, !.preferred = p]
    BY <1>5 DEF Applied
  <2> HIDE DEF p
  <2>4. Applied(c, account).keys = account.keys
    BY <2>3 DEF Factors
  <2> QED BY <2>2, <2>4
<1>6. CASE c.op = "register"
  <2>1. Applied(c, account) = [account EXCEPT !.keys = @ \cup {c.key}]
    BY <1>6 DEF Applied
  <2> QED BY <2>1 DEF Factors
<1>7. CASE c.op = "delete"
  <2>1. c.key \in account.keys /\ (Cardinality(account.keys) - 1 > 0 \/ account.totp)
    BY <1>7 DEF Allowed, KeepsFactor
  <2> DEFINE p == IF account.keys \subseteq {c.key}
                    THEN Prefers(account, "webauthn", IF c.seen.totp THEN "totp" ELSE "any")
                    ELSE account.preferred
  <2>2. Applied(c, account) = [account EXCEPT !.keys = @ \ {c.key}, !.preferred = p]
    BY <1>7 DEF Applied
  <2> HIDE DEF p
  <2>3. /\ Applied(c, account).totp = account.totp
        /\ Applied(c, account).keys = account.keys \ {c.key}
    BY <2>2 DEF Factors
  <2>4. CASE account.totp
    BY <2>3, <2>4
  <2>5. CASE ~account.totp
    <3>1. account.keys # {c.key}
      <4>1. Cardinality({c.key}) = 1
        BY FS_Singleton
      <4> QED BY <2>1, <2>5, <4>1
    <3> QED BY <2>1, <2>3, <3>1
  <2> QED BY <2>4, <2>5
<1>8. CASE c.op = "prefer"
  <2>1. Applied(c, account) = [account EXCEPT !.preferred = c.method]
    BY <1>8 DEF Applied
  <2> QED BY <1>2, <2>1 DEF Factors
<1>9. CASE c.op \in {"status", "reread"}
  <2>1. Applied(c, account) = account
    BY <1>9 DEF Applied
  <2> QED BY <1>2, <2>1
<1> QED BY <1>1, <1>3, <1>4, <1>5, <1>6, <1>7, <1>8, <1>9 DEF FactorOps, Removals

(* Nothing is changed and nothing is checked.                               *)
CheckedStays ==
  /\ UNCHANGED account
  /\ \A c \in requests' : c.step = "checked" => c \in requests

(* Every step of the card and of the bastion is one of these.               *)
LEMMA FactorsMoves ==
  ASSUME FactorsTyped, [FactorsNext]_factorVars
  PROVE  \/ CheckedStays
         \/ \E c \in requests : CheckRequest(c) \/ ApplyRequest(c)
<1>1. ASSUME NEW k, NEW op, NEW key, NEW code, NEW m, SendRequest(k, op, key, code, m)
      PROVE  CheckedStays
  BY <1>1 DEF SendRequest, Request, CheckedStays
<1>2. CASE UNCHANGED <<account, requests>>
  BY <1>2 DEF CheckedStays
<1>3. ASSUME NEW c \in requests, FactorAnswer(c) PROVE CheckedStays
  <2>1. c \in RequestType
    BY FactorsParts DEF FactorsTyped
  <2>2. requests' = (requests \ {c}) \cup onLoad2FAStatus(c) /\ UNCHANGED account
    BY <1>3 DEF FactorAnswer
  <2>3. ASSUME NEW d \in onLoad2FAStatus(c) PROVE d.step = "sent"
    BY <2>1, <2>3 DEF onLoad2FAStatus, RequestType
  <2> QED BY <2>2, <2>3 DEF CheckedStays
<1>4. ASSUME NEW c \in requests, FactorError(c) PROVE CheckedStays
  BY <1>4 DEF FactorError, CheckedStays
<1>5. CASE \E k \in Cards : onSetup2FA(k) \/ onCancelSetup(k) \/ CancelRemoval(k)
  BY <1>1, <1>2, <1>5, Zenon DEF onSetup2FA, onCancelSetup, CancelRemoval
<1>6. CASE \E k \in Cards, code \in 0..secrets : onVerify2FA(k, code) \/ ConfirmRemoval(k, code)
  BY <1>1, <1>6, Zenon DEF onVerify2FA, ConfirmRemoval
<1>7. CASE \E k \in Cards : \/ AskRemoval(k, "disable", NoKey)
                          \/ \E key \in Keys : AskRemoval(k, "delete", key)
  BY <1>2, <1>7, Zenon DEF AskRemoval
<1>8. CASE \E k \in Cards : \/ \E key \in Keys : onRegisterPasskey(k, key)
                          \/ \E m \in Methods : onUpdateMfaPreference(k, m)
  BY <1>1, <1>8, Zenon DEF onRegisterPasskey, onUpdateMfaPreference
<1>9. CASE UNCHANGED factorVars
  BY <1>2, <1>9 DEF factorVars
<1> QED BY <1>3, <1>4, <1>5, <1>6, <1>7, <1>8, <1>9, Zenon DEF FactorsNext

(* One handler at a time: what it checked holds until it has written.       *)
LEMMA FactorsStep ==
  ASSUME FactorsInv, [FactorsNext]_factorVars, Overlapping = FALSE
  PROVE  FactorsInv'
<1>1. FactorsTyped /\ FactorsTyped'
  BY FactorsTypes DEF FactorsInv
<1>2. requests \subseteq RequestType /\ account \in Factors /\ StillAllowed /\ FactorRemains
  BY <1>1, FactorsParts DEF FactorsTyped, FactorsInv
<1>3. CASE CheckedStays
  BY <1>1, <1>2, <1>3 DEF CheckedStays, FactorsInv, StillAllowed, FactorRemains
<1>4. ASSUME NEW c \in requests, CheckRequest(c) PROVE FactorsInv'
  <2> DEFINE d == IF Allowed(c, account) THEN [c EXCEPT !.seen = account, !.step = "checked"]
                  ELSE [c EXCEPT !.step = "refused"]
  <2>1. /\ requests' = (requests \ {c}) \cup {d} /\ UNCHANGED account
        /\ \A e \in requests : e.step # "checked"
    BY <1>4 DEF CheckRequest
  <2>2. d.op = c.op /\ d.code = c.code /\ d.key = c.key /\ d.method = c.method
    BY <1>2 DEF RequestType
  <2>3. d.step = "checked" => Allowed(c, account)
    BY <1>2 DEF RequestType
  <2> HIDE DEF d
  <2>4. d.step = "checked" => Allowed(d, account)
    BY <2>2, <2>3, AllowedSame
  <2>5. StillAllowed'
    BY <2>1, <2>4 DEF StillAllowed
  <2> QED BY <1>1, <1>2, <2>1, <2>5 DEF FactorsInv, FactorRemains
<1>5. ASSUME NEW c \in requests, ApplyRequest(c) PROVE FactorsInv'
  <2> DEFINE d == [c EXCEPT !.seen = account',
                            !.step = IF Gone(c, account) THEN "refused" ELSE "done"]
  <2>1. /\ requests' = (requests \ {c}) \cup {d} /\ c.step = "checked"
        /\ account' = IF Gone(c, account) THEN account ELSE Applied(c, account)
    BY <1>5 DEF ApplyRequest
  <2>2. d.step # "checked"
    BY <1>2 DEF RequestType
  <2> HIDE DEF d
  <2>3. \A e \in requests' : e.step # "checked"
    BY <1>2, <2>1, <2>2 DEF StillAllowed
  <2>4. StillAllowed'
    BY <2>3 DEF StillAllowed
  <2>5. Allowed(c, account) /\ c \in RequestType
    BY <1>2, <2>1 DEF StillAllowed
  <2>6. FactorRemains'
    BY <1>2, <2>1, <2>5, AllowedKeeps DEF FactorRemains
  <2> QED BY <1>1, <2>4, <2>6 DEF FactorsInv
<1> QED BY <1>1, <1>3, <1>4, <1>5, FactorsMoves

(* An administrator keeps a second factor whatever two tabs ask for in any  *)
(* order, for any set of security keys and any number of tabs, when the     *)
(* handlers that check and then write do not overlap (routes.cc, the 2FA    *)
(* and WebAuthn routes).                                                    *)
THEOREM FactorRemainsAlways ==
  ASSUME Overlapping = FALSE PROVE Spec => []FactorRemains
<1>1. Open => FactorsInv
  BY FactorsStart DEF Open
<1>2. FactorsInv /\ [Next]_windowVars => FactorsInv'
  BY FactorsStep, Parts
<1>3. FactorsInv => FactorRemains
  BY DEF FactorsInv
<1> QED BY <1>1, <1>2, <1>3, PTL DEF Spec

-----------------------------------------------------------------------------
(***************************************************************************)
(* Lists.  A call of the present request is for what the page asks for     *)
(* now; a call for a further page waits while no search does, and starts   *)
(* where the rows on screen end.                                           *)
(***************************************************************************)
RowType == [q : Queries, n : 1 .. MaxEvents]
CallType == [request : 1 .. MaxRequests, q : Queries, cursor : 0 .. MaxEvents]
Current ==
  \A c \in pending :
    /\ c.request <= requestRef
    /\ c.request = requestRef =>
         /\ c.q = query
         /\ c.cursor = 0 => waiting
         /\ c.cursor # 0 => ~waiting /\ On("journal") /\ c.cursor = next
Bottom ==
  /\ ~On("journal") => next = 0
  /\ ~waiting /\ next # 0 =>
       items # <<>> /\ items[Len(items)] = [q |-> query, n |-> next]
Asking == ListsTypeOK /\ purged < log /\ Current /\ Bottom

(* What each page asks for is a query.                                      *)
LEMMA QueryTypes ==
  /\ \A f \in Filters : Key("journal", f) \in Queries
  /\ \A x \in Periods : Key("reports", x) \in Queries
  /\ \A x \in Sessions : Key("sessions", x) \in Queries
  /\ \A x \in Nodes : Key("map", x) \in Queries
  /\ \A p \in {"journal", "reports", "sessions", "map"} :
       Opening(p) \in Queries /\ Opening(p).page = p
  /\ \A q \in Queries : q.page = "journal" => q.key \in Filters
<1>1. \A q \in Queries : q.page = "journal" => q.key \in Filters
  BY DEF Queries, Key
<1>2. /\ \A f \in Filters : Key("journal", f) \in Queries
      /\ \A x \in Periods : Key("reports", x) \in Queries
      /\ \A x \in Sessions : Key("sessions", x) \in Queries
      /\ \A x \in Nodes : Key("map", x) \in Queries
  BY DEF Queries
<1>3. [text |-> NoText, sel |-> NoSelection] \in Filters
  BY ListsAssumption DEF ListsAssumption, Filters
<1>4. \A p \in {"journal", "reports", "sessions", "map"} :
        Opening(p) \in Queries /\ Opening(p).page = p
  <2> TAKE p \in {"journal", "reports", "sessions", "map"}
  <2>1. Opening(p) \in Queries
    BY <1>2, <1>3, ListsAssumption DEF ListsAssumption, Opening
  <2>2. Opening(p).page = p
    BY DEF Opening, Key
  <2> QED BY <2>1, <2>2
<1> QED BY <1>1, <1>2, <1>4

(* The rows of an answer, and the last of them.                             *)
LEMMA RowsRun ==
  ASSUME NEW q \in Queries, NEW hi \in 1..MaxEvents, NEW lo \in 1..hi
  PROVE  /\ Rows(q, hi, lo) \in Seq(RowType) /\ Len(Rows(q, hi, lo)) = hi + 1 - lo
         /\ Rows(q, hi, lo)[hi + 1 - lo] = [q |-> q, n |-> lo]
         /\ Rows(q, hi, lo) = Promise!Run(q, hi, lo)
<1>1. MaxEvents \in Nat /\ hi + 1 - lo \in Nat
  BY ListsAssumption DEF ListsAssumption
<1>2. ASSUME NEW i \in 1..(hi + 1 - lo) PROVE [q |-> q, n |-> hi + 1 - i] \in RowType
  BY <1>1, <1>2 DEF RowType
<1>3. Rows(q, hi, lo) \in [1..(hi + 1 - lo) -> RowType]
  BY <1>2 DEF Rows
<1>4. Rows(q, hi, lo) \in Seq(RowType) /\ Len(Rows(q, hi, lo)) = hi + 1 - lo
  BY <1>1, <1>3
<1>5. Rows(q, hi, lo)[hi + 1 - lo] = [q |-> q, n |-> lo]
  BY <1>1 DEF Rows
<1> QED BY <1>4, <1>5 DEF Rows, Promise!Run

(* An answer of the journal: rows of the query, and where they end.         *)
LEMMA AuditPage ==
  ASSUME ListsTypeOK, NEW q \in Queries, NEW hi \in 1..MaxEvents, purged < hi
  PROVE  \E lo \in 1..hi :
           /\ fetchAuditPage(q, hi) = [rows |-> Rows(q, hi, lo), next |-> Cursor(lo)]
           /\ Cursor(lo) \in {0, lo}
<1>1. Lowest(hi) \in 1..hi
  BY ListsAssumption DEF ListsAssumption, ListsTypeOK, Lowest
<1>2. Cursor(Lowest(hi)) \in {0, Lowest(hi)}
  BY DEF Cursor
<1> QED BY <1>1, <1>2 DEF fetchAuditPage

(* The journal is open and its first search under way.                      *)
LEMMA ListsStart == ListsInit => Asking
<1> SUFFICES ASSUME ListsInit PROVE Asking
  OBVIOUS
<1> USE ListsAssumption DEF ListsAssumption, ListsInit
<1>1. Opening("journal") \in Queries /\ Opening("journal").page = "journal"
  BY QueryTypes
<1>2. pending \subseteq CallType
  <2>1. 1 \in 1..MaxRequests /\ 0 \in 0..MaxEvents
    OBVIOUS
  <2> QED BY <1>1, <2>1 DEF CallType
<1>3. items \in Seq(RowType)
  OBVIOUS
<1>4. ListsTypeOK
  <2>1. /\ log \in 1..MaxEvents /\ purged \in 0..MaxEvents /\ next \in 0..MaxEvents
        /\ requestRef \in 1..MaxRequests
    OBVIOUS
  <2>2. query \in Queries /\ typed \in Texts /\ waiting \in BOOLEAN /\ more \in BOOLEAN
    BY <1>1
  <2> HIDE DEF ListsInit
  <2> QED BY <1>2, <1>3, <2>1, <2>2 DEF ListsTypeOK, RowType, CallType
<1>5. Current /\ Bottom
  BY <1>1 DEF Current, Bottom, On
<1> QED BY <1>4, <1>5 DEF Asking

(* A search makes every call before it stale.                               *)
LEMMA SearchAsks ==
  ASSUME Asking, NEW rest \in SUBSET pending, NEW q \in Queries, Search(rest, q),
         UNCHANGED auditLog, typed' \in Texts, items' \in Seq(RowType), more' \in BOOLEAN,
         next' \in 0..MaxEvents, q.page # "journal" => next' = 0
  PROVE  Asking'
<1>1. /\ requestRef \in 1..MaxRequests /\ pending \subseteq CallType /\ Current
      /\ log \in 1..MaxEvents /\ purged \in 0..MaxEvents /\ purged < log
  BY DEF Asking, ListsTypeOK, CallType
<1>2. /\ requestRef < MaxRequests /\ requestRef' = requestRef + 1 /\ query' = q
      /\ waiting' = (q \notin {Opening("sessions"), Opening("map")})
      /\ pending' = rest \cup
           IF waiting' THEN {[request |-> requestRef + 1, q |-> q, cursor |-> 0]} ELSE {}
      /\ UNCHANGED <<log, purged>>
  BY DEF Search, auditLog
<1>3. MaxRequests \in Nat /\ MaxEvents \in Nat /\ requestRef + 1 \in 1..MaxRequests
  BY <1>1, <1>2, ListsAssumption DEF ListsAssumption
<1>4. waiting' \in BOOLEAN
  BY <1>2, Zenon
<1> DEFINE d == [request |-> requestRef + 1, q |-> q, cursor |-> 0]
<1>5. d \in CallType /\ d.request = requestRef + 1 /\ d.q = q /\ d.cursor = 0
  BY <1>3 DEF CallType
<1>6. pending' \subseteq pending \cup {d} /\ (d \in pending' => waiting' \/ d \in pending)
  BY <1>2
<1> HIDE DEF d
<1>7. pending' \subseteq CallType
  BY <1>1, <1>5, <1>6
<1>8. \A c \in pending : c.request <= requestRef /\ c.request \in Nat
  BY <1>1 DEF Current, CallType
<1>9. requestRef \in Nat
  BY <1>1
<1>10. Current'
  BY <1>2, <1>5, <1>6, <1>8, <1>9 DEF Current
<1>11. ~waiting' => q.page # "journal"
  BY <1>2, QueryTypes
<1>12. Bottom'
  BY <1>2, <1>11 DEF Bottom, On
<1>13. ListsTypeOK'
  BY <1>1, <1>2, <1>3, <1>4, <1>7 DEF ListsTypeOK, RowType, CallType
<1> QED BY <1>1, <1>2, <1>10, <1>12, <1>13 DEF Asking

(* Only calls go, and nothing else changes but what is typed, or added to   *)
(* the log, or purged.                                                      *)
LEMMA ListsRest ==
  ASSUME Asking, UNCHANGED <<query, items, next, waiting, requestRef>>,
         pending' \subseteq pending, typed' \in Texts, more' \in BOOLEAN,
         log' \in 1..MaxEvents, purged' \in 0..MaxEvents, purged' < log'
  PROVE  Asking'
<1>1. ListsTypeOK'
  BY DEF Asking, ListsTypeOK
<1>2. Current' /\ Bottom'
  BY DEF Asking, Current, Bottom, On
<1> QED BY <1>1, <1>2 DEF Asking

(* A call of the present request is answered: no other one is left.         *)
LEMMA OnlyCall ==
  ASSUME Asking, NEW c \in pending, ~Ignored(c), NEW d \in pending \ {c}
  PROVE  d.request < requestRef
<1>1. c \in CallType /\ d \in CallType /\ requestRef \in Nat
  BY DEF Asking, ListsTypeOK, CallType
<1>2. c.request = requestRef
  BY DEF Ignored
<1>3. d.request # requestRef
  <2> SUFFICES ASSUME d.request = requestRef PROVE FALSE
    OBVIOUS
  <2>1. c.q = d.q /\ c.request = d.request
    BY <1>2 DEF Asking, Current
  <2>2. c.cursor = d.cursor
    BY <1>2 DEF Asking, Current
  <2> QED BY <1>1, <2>1, <2>2 DEF CallType
<1>4. d.request <= requestRef /\ d.request \in Nat
  BY <1>1 DEF Asking, Current, CallType
<1> QED BY <1>1, <1>3, <1>4

(* Rows are shown, or taken off, by an answer to the present request.       *)
LEMMA AnswerShows ==
  ASSUME Asking, NEW c \in pending, ~Ignored(c), pending' = pending \ {c},
         UNCHANGED <<auditLog, query, typed, requestRef>>,
         items' \in Seq(RowType), next' \in 0..MaxEvents, ~On("journal") => next' = 0,
         next' # 0 => items' # <<>> /\ items'[Len(items')] = [q |-> query, n |-> next'],
         waiting' \in BOOLEAN, more' \in BOOLEAN
  PROVE  Asking'
<1>1. \A d \in pending' : d.request < requestRef
  BY OnlyCall
<1>2. requestRef \in Nat /\ \A d \in pending' : d.request \in Nat
  BY DEF Asking, ListsTypeOK
<1>3. Current'
  BY <1>1, <1>2 DEF Current
<1>4. Bottom'
  BY DEF Bottom, On
<1>5. ListsTypeOK' /\ purged' < log'
  BY DEF Asking, ListsTypeOK, RowType, auditLog
<1> QED BY <1>3, <1>4, <1>5 DEF Asking

(* Every step of a list keeps its calls current and its rows in order.      *)
LEMMA ListsStep ==
  ASSUME Asking, [ListsNext]_listVars
  PROVE  Asking'
<1>1. /\ log \in 1..MaxEvents /\ purged \in 0..MaxEvents /\ purged < log
      /\ query \in Queries /\ typed \in Texts /\ items \in Seq(RowType)
      /\ next \in 0..MaxEvents /\ waiting \in BOOLEAN /\ more \in BOOLEAN
      /\ requestRef \in 1..MaxRequests /\ pending \subseteq CallType
  BY DEF Asking, ListsTypeOK, RowType, CallType
<1>2. /\ MaxEvents \in Nat \ {0} /\ <<>> \in Seq(RowType) /\ 0 \in 0..MaxEvents
      /\ NoText \in Texts /\ NoSelection \in Selections
  BY ListsAssumption DEF ListsAssumption
<1>3. ~On("journal") => next = 0
  BY DEF Asking, Bottom
<1>4. ASSUME NEW p \in {"journal", "reports", "sessions", "map"}, OpenPage(p) PROVE Asking'
  BY <1>1, <1>2, <1>4, QueryTypes, SearchAsks DEF OpenPage
<1>5. ASSUME NEW x \in Texts, Type(x) PROVE Asking'
  BY <1>1, <1>5, ListsRest DEF Type, auditLog
<1>6. ASSUME NEW v \in Filters, Search(pending, Key("journal", v)), typed' \in Texts,
             UNCHANGED <<auditLog, items, next, more>>
      PROVE  Asking'
  <2>1. Key("journal", v) \in Queries /\ Key("journal", v).page = "journal"
    BY <1>6, QueryTypes DEF Key
  <2> QED BY <1>1, <1>6, <2>1, SearchAsks
<1>7. ASSUME On("journal") PROVE query.key \in Filters
  BY <1>1, <1>7, QueryTypes DEF On
<1>8. ASSUME NEW s \in Selections, SetFilter(s) PROVE Asking'
  <2>1. [query.key EXCEPT !.sel = s] \in Filters
    BY <1>7, <1>8 DEF SetFilter, Filters
  <2> QED BY <1>1, <1>6, <1>8, <2>1 DEF SetFilter
<1>9. CASE SearchTimer
  <2>1. [query.key EXCEPT !.text = typed] \in Filters
    BY <1>1, <1>7, <1>9 DEF SearchTimer, Filters
  <2> QED BY <1>1, <1>6, <1>9, <2>1 DEF SearchTimer
<1>10. CASE resetFilters
  <2>1. [query.key EXCEPT !.sel = NoSelection] \in Filters
    BY <1>2, <1>7, <1>10 DEF resetFilters, Filters
  <2>2. CASE query.key.sel # NoSelection
    BY <1>2, <1>6, <1>10, <2>1, <2>2 DEF resetFilters
  <2>3. CASE query.key.sel = NoSelection
    BY <1>1, <1>2, <1>10, <2>3, ListsRest DEF resetFilters, auditLog
  <2> QED BY <2>2, <2>3
<1>11. CASE RefreshPage
  BY <1>1, <1>3, <1>11, SearchAsks DEF RefreshPage, On
<1>12. ASSUME NEW x \in Periods, SetPeriod(x) PROVE Asking'
  <2>1. Key("reports", x) \in Queries /\ Key("reports", x).page = "reports"
    BY <1>12, QueryTypes DEF Key
  <2>2. next = 0
    BY <1>3, <1>12 DEF SetPeriod, On
  <2> QED BY <1>1, <1>12, <2>1, <2>2, SearchAsks DEF SetPeriod
<1>13. ASSUME NEW x \in Sessions, useSessionEvents(x) PROVE Asking'
  <2>1. Key("sessions", x) \in Queries
    BY <1>13, QueryTypes
  <2>2. next = 0
    BY <1>3, <1>13 DEF useSessionEvents, On
  <2> QED BY <1>1, <1>2, <1>13, <2>1, <2>2, SearchAsks DEF useSessionEvents
<1>14. ASSUME NEW x \in Nodes, SelectResource(x) PROVE Asking'
  <2>1. Key("map", x) \in Queries
    BY <1>14, QueryTypes
  <2>2. next = 0
    BY <1>3, <1>14 DEF SelectResource, On
  <2> QED BY <1>1, <1>2, <1>14, <2>1, <2>2, SearchAsks DEF SelectResource
<1>15. CASE loadMore
  <2> DEFINE d == [request |-> requestRef, q |-> query, cursor |-> next]
  <2>1. /\ On("journal") /\ next # 0 /\ ~waiting /\ more' = TRUE
        /\ pending' = pending \cup {d}
        /\ UNCHANGED <<log, purged, query, typed, items, next, waiting, requestRef>>
    BY <1>15 DEF loadMore, auditLog
  <2>2. d \in CallType /\ d.request = requestRef /\ d.q = query /\ d.cursor = next
    BY <1>1 DEF CallType
  <2> HIDE DEF d
  <2>3. ListsTypeOK'
    BY <1>1, <2>1, <2>2 DEF ListsTypeOK, RowType, CallType
  <2>4. requestRef <= requestRef
    BY <1>1
  <2>5. Current'
    BY <2>1, <2>2, <2>4 DEF Asking, Current, On
  <2>6. Bottom' /\ purged' < log'
    BY <1>1, <2>1 DEF Asking, Bottom, On
  <2> QED BY <2>3, <2>5, <2>6 DEF Asking
<1>16. CASE AppendEvent \/ PurgeArchive
  <2>1. log' \in 1..MaxEvents /\ purged' \in 0..MaxEvents /\ purged' < log'
    BY <1>1, <1>2, <1>16 DEF AppendEvent, PurgeArchive
  <2>2. UNCHANGED <<query, typed, items, next, waiting, more, requestRef, pending>>
    BY <1>16 DEF AppendEvent, PurgeArchive
  <2> QED BY <1>1, <2>1, <2>2, ListsRest
<1>17. ASSUME NEW c \in pending, DropAnswer(c) \/ MoreFails(c) PROVE Asking'
  <2>1. /\ pending' = pending \ {c} /\ more' \in BOOLEAN
        /\ UNCHANGED <<log, purged, query, typed, items, next, waiting, requestRef>>
    BY <1>1, <1>17 DEF DropAnswer, MoreFails, auditLog
  <2> QED BY <1>1, <2>1, ListsRest
<1>18. ASSUME NEW c \in pending, FirstPage(c) PROVE Asking'
  <2>1. c.q = query /\ ~Ignored(c)
    BY <1>18 DEF FirstPage, Ignored, Asking, Current
  <2>2. CASE On("journal")
    <3>1. PICK lo \in 1..log :
            /\ fetchAuditPage(query, log) = [rows |-> Rows(query, log, lo), next |-> Cursor(lo)]
            /\ Cursor(lo) \in {0, lo}
      BY <1>1, AuditPage DEF Asking
    <3>2. /\ items' = Rows(query, log, lo) /\ next' = Cursor(lo) /\ pending' = pending \ {c}
          /\ waiting' = FALSE /\ more' = FALSE /\ UNCHANGED <<auditLog, query, typed, requestRef>>
      BY <1>18, <2>1, <2>2, <3>1 DEF FirstPage, On
    <3>3. /\ Rows(query, log, lo) \in Seq(RowType) /\ Len(Rows(query, log, lo)) = log + 1 - lo
          /\ Rows(query, log, lo)[log + 1 - lo] = [q |-> query, n |-> lo]
      BY <1>1, RowsRun
    <3>4. items' # <<>> /\ items'[Len(items')] = [q |-> query, n |-> lo]
      BY <1>1, <3>2, <3>3
    <3>5. next' \in 0..MaxEvents
      BY <1>1, <1>2, <3>1, <3>2
    <3> QED BY <2>1, <2>2, <3>1, <3>2, <3>3, <3>4, <3>5, AnswerShows
  <2>3. CASE ~On("journal")
    <3>1. /\ items' = Rows(query, 1, 1) /\ UNCHANGED next /\ pending' = pending \ {c}
          /\ waiting' = FALSE /\ more' = FALSE /\ UNCHANGED <<auditLog, query, typed, requestRef>>
      BY <1>18, <2>1, <2>3 DEF FirstPage, On
    <3>2. 1 \in 1..MaxEvents /\ 1 \in 1..1
      BY <1>2
    <3>3. Rows(query, 1, 1) \in Seq(RowType)
      BY <1>1, <3>2, RowsRun
    <3> QED BY <1>1, <1>3, <2>1, <2>3, <3>1, <3>3, AnswerShows
  <2> QED BY <2>2, <2>3
<1>19. ASSUME NEW c \in pending, FirstPageFails(c) PROVE Asking'
  <2>1. /\ pending' = pending \ {c} /\ items' \in {items, <<>>} /\ next' = 0 /\ ~Ignored(c)
        /\ waiting' = FALSE /\ more' = FALSE /\ UNCHANGED <<auditLog, query, typed, requestRef>>
    BY <1>19 DEF FirstPageFails
  <2>2. items' \in Seq(RowType)
    BY <1>1, <1>2, <2>1
  <2> QED BY <1>2, <2>1, <2>2, AnswerShows
<1>20. ASSUME NEW c \in pending, MorePage(c) PROVE Asking'
  <2>1. /\ c.cursor # 0 /\ ~Ignored(c) /\ c.cursor > purged + 1 /\ pending' = pending \ {c}
        /\ items' = items \o fetchAuditPage(c.q, c.cursor - 1).rows
        /\ next' = fetchAuditPage(c.q, c.cursor - 1).next
        /\ more' = FALSE /\ UNCHANGED <<auditLog, query, typed, waiting, requestRef>>
    BY <1>20 DEF MorePage
  <2>2. c.q = query /\ ~waiting /\ On("journal") /\ c.cursor = next
    BY <2>1 DEF Ignored, Asking, Current
  <2> DEFINE hi == next - 1
  <2>3. hi \in 1..MaxEvents /\ purged < hi
    BY <1>1, <1>2, <2>1, <2>2
  <2>4. PICK lo \in 1..hi :
          /\ fetchAuditPage(query, hi) = [rows |-> Rows(query, hi, lo), next |-> Cursor(lo)]
          /\ Cursor(lo) \in {0, lo}
    BY <1>1, <2>3, AuditPage DEF Asking
  <2>5. items' = items \o Rows(query, hi, lo) /\ next' = Cursor(lo)
    BY <2>1, <2>2, <2>4
  <2> HIDE DEF hi
  <2>6. /\ Rows(query, hi, lo) \in Seq(RowType) /\ Len(Rows(query, hi, lo)) = hi + 1 - lo
        /\ Rows(query, hi, lo)[hi + 1 - lo] = [q |-> query, n |-> lo]
    BY <1>1, <2>3, RowsRun
  <2> DEFINE s == Rows(query, hi, lo)
  <2> HIDE DEF s
  <2>7. items' = items \o s /\ s \in Seq(RowType) /\ Len(s) = hi + 1 - lo /\ Len(s) > 0
        /\ s[Len(s)] = [q |-> query, n |-> lo]
    BY <1>2, <2>3, <2>5, <2>6 DEF s
  <2>8. /\ items' \in Seq(RowType) /\ items' # <<>>
        /\ items'[Len(items')] = [q |-> query, n |-> lo]
    BY <1>1, <2>7
  <2>9. next' \in 0..MaxEvents
    BY <1>2, <2>3, <2>4, <2>5
  <2> QED BY <1>1, <2>1, <2>2, <2>4, <2>5, <2>8, <2>9, AnswerShows
<1>21. ASSUME NEW c \in pending, MoreExpired(c) PROVE Asking'
  <2>1. pending \ {c} \in SUBSET pending
    OBVIOUS
  <2> QED BY <1>1, <1>3, <1>21, <2>1, SearchAsks DEF MoreExpired, On
<1>22. CASE UNCHANGED listVars
  BY <1>1, <1>22, ListsRest DEF listVars, auditLog
<1> QED
  BY <1>4, <1>5, <1>8, <1>9, <1>10, <1>11, <1>12, <1>13, <1>14, <1>15, <1>16, <1>17,
     <1>18, <1>19, <1>20, <1>21, <1>22, Zenon DEF ListsNext, ListsUser

(* Every step of a list is one of Listing, or a step that shows nothing new. *)
LEMMA ListsShow ==
  ASSUME Asking, [ListsNext]_listVars
  PROVE  [Promise!Next]_<<query, items>>
<1>1. /\ log \in 1..MaxEvents /\ purged < log /\ query \in Queries
      /\ items \in Seq(RowType) /\ next \in 0..MaxEvents /\ MaxEvents \in Nat \ {0}
      /\ purged \in 0..MaxEvents
  BY ListsAssumption DEF ListsAssumption, Asking, ListsTypeOK, RowType
<1>2. ASSUME NEW rest, NEW q \in Queries, Search(rest, q), items' \in {items, <<>>}
      PROVE  Promise!Next
  BY <1>2 DEF Search, Promise!Next, Promise!Choose
<1>3. CASE UNCHANGED <<query, items>>
  BY <1>3
<1>4. ASSUME NEW hi \in 1..MaxEvents, NEW lo \in 1..hi,
             items' = Rows(query, hi, lo), UNCHANGED query
      PROVE  Promise!Next
  <2>1. items' = Promise!Run(query, hi, lo)
    BY <1>1, <1>4, RowsRun
  <2>2. hi \in 0..MaxEvents /\ lo \in 1..hi + 1
    BY <1>1
  <2>3. Promise!Show
    BY <1>4, <2>1, <2>2 DEF Promise!Show
  <2> QED BY <2>3 DEF Promise!Next
<1>5. ASSUME NEW c \in pending, FirstPage(c) PROVE Promise!Next
  <2>1. c.q = query
    BY <1>5 DEF FirstPage, Ignored, Asking, Current
  <2>2. CASE c.q.page = "journal"
    <3>1. PICK lo \in 1..log :
            fetchAuditPage(query, log) = [rows |-> Rows(query, log, lo), next |-> Cursor(lo)]
      BY <1>1, AuditPage DEF Asking
    <3>2. items' = Rows(query, log, lo) /\ UNCHANGED query
      BY <1>5, <2>1, <2>2, <3>1 DEF FirstPage
    <3> QED BY <1>1, <1>4, <3>2
  <2>3. CASE c.q.page # "journal"
    <3>1. items' = Rows(query, 1, 1) /\ UNCHANGED query
      BY <1>5, <2>1, <2>3 DEF FirstPage
    <3>2. 1 \in 1..MaxEvents /\ 1 \in 1..1
      BY <1>1
    <3> QED BY <1>4, <3>1, <3>2
  <2> QED BY <2>2, <2>3
<1>6. ASSUME NEW c \in pending, FirstPageFails(c) PROVE [Promise!Next]_<<query, items>>
  <2>1. UNCHANGED query /\ (items' = items \/ items' = <<>>)
    BY <1>6 DEF FirstPageFails
  <2> QED BY <2>1 DEF Promise!Next, Promise!Drop
<1>7. ASSUME NEW c \in pending, MorePage(c) PROVE Promise!Next
  <2>1. /\ c.cursor # 0 /\ ~Ignored(c) /\ c.cursor > purged + 1 /\ UNCHANGED query
        /\ items' = items \o fetchAuditPage(c.q, c.cursor - 1).rows
    BY <1>7 DEF MorePage
  <2>2. c.q = query /\ c.cursor = next /\ ~waiting
    BY <2>1 DEF Ignored, Asking, Current
  <2>3. items # <<>> /\ items[Len(items)] = [q |-> query, n |-> next]
    BY <2>1, <2>2 DEF Asking, Bottom
  <2> DEFINE hi == next - 1
  <2>4. hi \in 1..MaxEvents /\ purged < hi
    BY <1>1, <2>1, <2>2
  <2>5. PICK lo \in 1..hi :
          fetchAuditPage(query, hi) = [rows |-> Rows(query, hi, lo), next |-> Cursor(lo)]
    BY <1>1, <2>4, AuditPage DEF Asking
  <2>6. items' = items \o Rows(query, hi, lo)
    <3>1. fetchAuditPage(c.q, c.cursor - 1).rows = Rows(query, hi, lo)
      BY <2>2, <2>5
    <3> QED BY <2>1, <3>1
  <2>7. items' = items \o Promise!Run(query, next - 1, lo)
    <3>1. Rows(query, hi, lo) = Promise!Run(query, hi, lo)
      BY <1>1, <2>4, RowsRun
    <3> QED BY <2>6, <3>1
  <2>8. lo \in 1..next
    BY <1>1, <2>4
  <2>9. items[Len(items)].q = query /\ items[Len(items)].n = next
    BY <2>3
  <2>10. Promise!More
    BY <2>1, <2>3, <2>7, <2>8, <2>9 DEF Promise!More
  <2> QED BY <2>10 DEF Promise!Next
<1>8. ASSUME NEW v \in Filters, Search(pending, Key("journal", v)), UNCHANGED items
      PROVE  Promise!Next
  BY <1>2, <1>8, QueryTypes
<1>9. ASSUME On("journal") PROVE query.key \in Filters
  BY <1>1, <1>9, QueryTypes DEF On
<1>10. ASSUME NEW s \in Selections, SetFilter(s) PROVE Promise!Next
  <2>1. [query.key EXCEPT !.sel = s] \in Filters
    BY <1>9, <1>10 DEF SetFilter, Filters
  <2> QED BY <1>8, <1>10, <2>1 DEF SetFilter
<1>11. CASE SearchTimer
  <2>1. [query.key EXCEPT !.text = typed] \in Filters
    BY <1>9, <1>11 DEF SearchTimer, Filters, Asking, ListsTypeOK
  <2> QED BY <1>8, <1>11, <2>1 DEF SearchTimer
<1>12. CASE resetFilters
  <2>1. [query.key EXCEPT !.sel = NoSelection] \in Filters
    BY <1>9, <1>12, ListsAssumption DEF resetFilters, Filters, ListsAssumption
  <2> QED BY <1>8, <1>12, <2>1 DEF resetFilters
<1>13. ASSUME NEW p \in {"journal", "reports", "sessions", "map"}, OpenPage(p)
       PROVE  Promise!Next
  BY <1>2, <1>13, QueryTypes DEF OpenPage
<1>14. CASE RefreshPage
  BY <1>1, <1>2, <1>14 DEF RefreshPage
<1>15. ASSUME NEW x \in Periods, SetPeriod(x) PROVE Promise!Next
  BY <1>2, <1>15, QueryTypes DEF SetPeriod
<1>16. ASSUME NEW x \in Sessions, useSessionEvents(x) PROVE Promise!Next
  BY <1>2, <1>16, QueryTypes DEF useSessionEvents
<1>17. ASSUME NEW x \in Nodes, SelectResource(x) PROVE Promise!Next
  BY <1>2, <1>17, QueryTypes DEF SelectResource
<1>18. ASSUME NEW c \in pending, MoreExpired(c) PROVE Promise!Next
  BY <1>1, <1>2, <1>18 DEF MoreExpired
<1>19. ASSUME NEW x, Type(x) PROVE UNCHANGED <<query, items>>
  BY <1>19 DEF Type
<1>20. ASSUME NEW c, DropAnswer(c) \/ MoreFails(c) PROVE UNCHANGED <<query, items>>
  BY <1>20 DEF DropAnswer, MoreFails
<1>21. CASE loadMore \/ AppendEvent \/ PurgeArchive \/ UNCHANGED listVars
  BY <1>3, <1>21, Zenon DEF loadMore, AppendEvent, PurgeArchive, listVars
<1> QED
  BY <1>3, <1>5, <1>6, <1>7, <1>10, <1>11, <1>12, <1>13, <1>14, <1>15, <1>16, <1>17,
     <1>18, <1>19, <1>20, <1>21, Zenon DEF ListsNext, ListsUser

(* The journal, the reports, the events of a session and the preview of a   *)
(* resource implement Listing for every set of queries, size of a page and  *)
(* length of the log: an answer is shown only for what the page asks for    *)
(* now, and a further page only continues the rows on screen                *)
(* (AuditPage.jsx, ReportsPage.jsx, SessionsPage.jsx, MapPage.jsx).         *)
THEOREM ListsImplementListing == Spec => ShowsWhatIsAsked
<1>1. Open => Asking /\ Promise!Init
  <2>1. ListsInit => query \in Queries /\ items = <<>>
    BY QueryTypes DEF ListsInit
  <2> QED BY <2>1, ListsStart DEF Open, Promise!Init
<1>2. Asking /\ [Next]_windowVars => Asking'
  BY ListsStep, Parts
<1>3. Asking /\ [Next]_windowVars => [Promise!Next]_<<query, items>>
  BY ListsShow, Parts
<1> QED BY <1>1, <1>2, <1>3, PTL DEF Spec, ShowsWhatIsAsked, Promise!Spec

-----------------------------------------------------------------------------
(***************************************************************************)
(* The window of an isolated browser.  While the websocket is open, what   *)
(* the bastion has of the upload under way is what its uploadFile has      *)
(* sent; the pieces of an upload that was replaced have another number.    *)
(***************************************************************************)
SendingType == [id : Nat, paper : Papers, off : Nat, dialog : Dialogs]
IncomingType ==
  [active : BOOLEAN, open : BOOLEAN, id : Nat, paper : Papers,
   dialog : Dialogs, written : Seq(Papers \X (Nat \ {0}))]
FirstPieces(p, n) == [i \in 1 .. n |-> <<p, i>>]

ViewerTypes ==
  /\ link \in {"connecting", "open", "closed"}
  /\ sending \subseteq SendingType /\ uploadId \in Nat /\ incoming \in IncomingType
  /\ pendingDialog \in Dialogs /\ dialogs \in Dialogs
  /\ failures \in [n : Nat, torn : BOOLEAN]
SendersApart ==
  /\ \A u \in sending : u.id < uploadId /\ u.off < Pieces[u.paper]
  /\ \A u, v \in sending : u.id = v.id => u = v
InStep ==
  /\ incoming.open
  /\ link = "open" => \A u \in sending : u.id = incoming.id =>
       u.paper = incoming.paper /\ incoming.written = FirstPieces(u.paper, u.off)
Receiving ==
  /\ incoming.id < uploadId /\ (link = "connecting" => ~incoming.active)
  /\ ~failures.torn /\ incoming.active => InStep
ViewerInv == ViewerTypes /\ SendersApart /\ Receiving /\ GivenIsWhole

(* One more piece of a file follows the first ones.                         *)
LEMMA NextPiece ==
  ASSUME NEW p \in Papers, NEW n \in Nat
  PROVE  /\ FirstPieces(p, n) \in Seq(Papers \X (Nat \ {0}))
         /\ Append(FirstPieces(p, n), <<p, n + 1>>) = FirstPieces(p, n + 1)
<1> DEFINE T == Papers \X (Nat \ {0})  s == FirstPieces(p, n)
<1>1. s \in Seq(T) /\ Len(s) = n
  <2>1. \A i \in 1..n : <<p, i>> \in T
    OBVIOUS
  <2>2. s \in [1..n -> T]
    BY <2>1 DEF FirstPieces
  <2> QED BY <2>2
<1>2. Append(s, <<p, n + 1>>) = FirstPieces(p, n + 1)
  <2>1. Append(s, <<p, n + 1>>) = [i \in 1..(n + 1) |-> IF i = n + 1 THEN <<p, n + 1>> ELSE s[i]]
    BY <1>1
  <2>2. \A i \in 1..(n + 1) : i # n + 1 => i \in 1..n
    OBVIOUS
  <2>3. \A i \in 1..n : s[i] = <<p, i>>
    BY DEF FirstPieces
  <2> QED BY <2>1, <2>2, <2>3 DEF FirstPieces
<1> QED BY <1>1, <1>2

(* Nothing is sent yet.                                                     *)
LEMMA ViewerStart == ViewerInit => ViewerInv
<1> SUFFICES ASSUME ViewerInit PROVE ViewerInv
  OBVIOUS
<1> USE ViewerAssumption DEF ViewerAssumption, ViewerInit
<1>1. 0 \in Dialogs /\ <<>> \in Seq(Papers \X (Nat \ {0}))
  BY DEF Dialogs
<1>2. incoming \in IncomingType /\ ~incoming.active /\ incoming.id = 0
  BY <1>1 DEF IncomingType, NoPaper
<1>3. ViewerTypes
  BY <1>1, <1>2 DEF ViewerTypes
<1>4. SendersApart /\ GivenIsWhole
  BY DEF SendersApart, GivenIsWhole
<1>5. Receiving
  BY <1>2 DEF Receiving
<1> QED BY <1>3, <1>4, <1>5 DEF ViewerInv

(* The websocket opens or closes, and nothing is sent.                      *)
LEMMA LinkMoves ==
  ASSUME ViewerInv, UNCHANGED <<sending, uploadId, incoming, given, failures>>,
         pendingDialog' \in Dialogs, dialogs' \in Dialogs,
         \/ UNCHANGED link
         \/ link = "connecting" /\ link' = "open"
         \/ link' = "closed"
  PROVE  ViewerInv'
<1>1. ViewerTypes' /\ SendersApart'
  BY DEF ViewerInv, ViewerTypes, SendersApart
<1>2. Receiving'
  BY DEF ViewerInv, Receiving, InStep, ViewerTypes
<1>3. GivenIsWhole'
  BY DEF ViewerInv, GivenIsWhole
<1> QED BY <1>1, <1>2, <1>3 DEF ViewerInv

(* An upload ends, with its place in the window or without one, or another  *)
(* one is refused: what is left behaves as before.                          *)
LEMMA UploadStops ==
  ASSUME ViewerInv, UNCHANGED <<link, uploadId, pendingDialog, dialogs, given>>,
         sending' \subseteq sending,
         \/ UNCHANGED incoming
         \/ incoming' = [incoming EXCEPT !.active = FALSE, !.open = FALSE],
         failures' \in [n : Nat, torn : BOOLEAN], failures'.torn = failures.torn
  PROVE  ViewerInv'
<1>1. incoming \in IncomingType
  BY DEF ViewerInv, ViewerTypes
<1>2. /\ incoming' \in IncomingType /\ incoming'.id = incoming.id
      /\ UNCHANGED incoming \/ ~incoming'.active
  BY <1>1 DEF IncomingType
<1>3. ViewerTypes' /\ SendersApart'
  BY <1>2 DEF ViewerInv, ViewerTypes, SendersApart
<1>4. Receiving'
  BY <1>2 DEF ViewerInv, Receiving, InStep
<1>5. GivenIsWhole'
  BY DEF ViewerInv, GivenIsWhole
<1> QED BY <1>3, <1>4, <1>5 DEF ViewerInv

(* Another file is begun; an empty one goes to the page at once.            *)
LEMMA UploadBegins ==
  ASSUME ViewerInv, NEW p \in Papers, NEW g \in Dialogs, uploadFile(p, g), UNCHANGED link,
         pendingDialog' \in Dialogs, dialogs' \in Dialogs
  PROVE  ViewerInv'
<1> DEFINE u == [id |-> uploadId, paper |-> p, off |-> 0, dialog |-> g]
<1>1. /\ sending \subseteq SendingType /\ uploadId \in Nat /\ incoming \in IncomingType
      /\ failures \in [n : Nat, torn : BOOLEAN] /\ Pieces[p] \in Nat
      /\ incoming.id \in Nat /\ incoming.id < uploadId /\ \A v \in sending : v.id \in Nat
  BY ViewerAssumption DEF ViewerAssumption, ViewerInv, ViewerTypes, Receiving, IncomingType, SendingType
<1>2. CASE link # "open"
  BY <1>2, LinkMoves DEF uploadFile
<1>3. CASE link = "open"
  <2>1. /\ uploadId' = uploadId + 1
        /\ sending' = IF Pieces[p] = 0 THEN sending ELSE sending \cup {u}
    BY <1>3 DEF uploadFile
  <2>2. u \in SendingType /\ u.id = uploadId /\ u.paper = p /\ u.off = 0 /\ u.dialog = g
    BY <1>1 DEF SendingType
  <2> DEFINE b == Begin(u)
  <2>3. b \in IncomingType /\ b.active /\ b.open /\ b.id = uploadId /\ b.paper = p
        /\ b.dialog = g /\ b.written = <<>>
    BY <1>1 DEF Begin, IncomingType
  <2>4. \/ /\ IF Pieces[p] = 0 THEN End(b, u) ELSE incoming' = b /\ UNCHANGED given
           /\ UNCHANGED failures
        \/ /\ failures' = [n |-> failures.n + 1, torn |-> failures.torn \/ incoming.active]
           /\ incoming' = [incoming EXCEPT !.open = FALSE, !.paper = p] /\ UNCHANGED given
    BY <1>3 DEF uploadFile
  <2> HIDE DEF u, b
  <2>5. uploadId' \in Nat /\ uploadId < uploadId'
    BY <1>1, <2>1
  <2>6. sending' \subseteq SendingType /\ SendersApart'
    <3>1. \A v \in sending : v.id < uploadId /\ v.off < Pieces[v.paper]
      BY DEF ViewerInv, SendersApart
    <3>2. Pieces[p] # 0 => 0 < Pieces[p]
      BY <1>1
    <3>3. \A v \in sending : v.id < uploadId' /\ v.id # uploadId
      BY <1>1, <2>5, <3>1
    <3> QED BY <1>1, <2>1, <2>2, <2>5, <3>1, <3>2, <3>3 DEF ViewerInv, SendersApart
  <2>7. CASE Pieces[p] = 0 /\ End(b, u) /\ UNCHANGED failures
    <3> DEFINE new == [id |-> u.id, paper |-> b.paper, dialog |-> b.dialog, written |-> b.written]
    <3>1. /\ incoming' = [b EXCEPT !.active = FALSE, !.open = FALSE]
          /\ given' = given \cup {new}
      BY <2>2, <2>3, <2>7 DEF End, Mine
    <3>2. new.written = <<>> /\ new.paper = p
      BY <2>3
    <3> HIDE DEF new
    <3>3. WholePaper(p) = <<>>
      BY <2>7 DEF WholePaper
    <3>4. GivenIsWhole'
      BY <2>7, <3>1, <3>2, <3>3 DEF ViewerInv, GivenIsWhole
    <3>5. incoming' \in IncomingType /\ ~incoming'.active /\ incoming'.id = uploadId
      BY <2>3, <3>1 DEF IncomingType
    <3>6. ViewerTypes' /\ Receiving'
      BY <2>5, <2>6, <2>7, <3>5 DEF ViewerInv, ViewerTypes, Receiving
    <3> QED BY <2>6, <3>4, <3>6 DEF ViewerInv
  <2>8. CASE Pieces[p] # 0 /\ incoming' = b /\ UNCHANGED <<given, failures>>
    <3>1. ViewerTypes'
      BY <2>3, <2>5, <2>6, <2>8 DEF ViewerInv, ViewerTypes
    <3>2. \A v \in sending' : v.id = uploadId => v = u
      BY <1>1, <2>1, <2>8 DEF ViewerInv, SendersApart
    <3>3. FirstPieces(p, 0) = <<>>
      BY DEF FirstPieces
    <3>4. InStep'
      BY <2>2, <2>3, <2>8, <3>2, <3>3 DEF InStep
    <3>5. Receiving'
      BY <1>3, <2>3, <2>5, <2>8, <3>4 DEF Receiving
    <3>6. GivenIsWhole'
      BY <2>8 DEF ViewerInv, GivenIsWhole
    <3> QED BY <2>6, <3>1, <3>5, <3>6 DEF ViewerInv
  <2>9. CASE /\ failures' = [n |-> failures.n + 1, torn |-> failures.torn \/ incoming.active]
             /\ incoming' = [incoming EXCEPT !.open = FALSE, !.paper = p] /\ UNCHANGED given
    <3>1. /\ incoming' \in IncomingType /\ incoming'.id = incoming.id
          /\ incoming'.active = incoming.active
      BY <1>1, <2>9 DEF IncomingType
    <3>2. /\ failures'.torn = (failures.torn \/ incoming.active)
          /\ failures'.n = failures.n + 1
      BY <2>9
    <3>3. failures' \in [n : Nat, torn : BOOLEAN]
      BY <1>1, <2>9 DEF IncomingType
    <3>4. ViewerTypes'
      BY <2>5, <2>6, <3>1, <3>3 DEF ViewerInv, ViewerTypes
    <3>5. incoming'.id < uploadId'
      BY <1>1, <2>1, <3>1
    <3>6. Receiving'
      BY <1>3, <3>1, <3>2, <3>5 DEF Receiving
    <3>7. GivenIsWhole'
      BY <2>9, <3>2 DEF ViewerInv, GivenIsWhole
    <3> QED BY <2>6, <3>4, <3>6, <3>7 DEF ViewerInv
  <2> QED BY <2>4, <2>7, <2>8, <2>9
<1> QED BY <1>2, <1>3

(* What the bastion makes of a piece: nothing, the end of an upload that is *)
(* too large, or one more piece of the upload it belongs to.                *)
LEMMA PieceArrives ==
  ASSUME ViewerInv, NEW u \in sending, link = "open"
  PROVE  LET s == Piece(incoming, u) IN
         /\ s \in IncomingType /\ s.id = incoming.id
         /\ \/ s = incoming /\ (incoming.active /\ incoming.open => incoming.id # u.id)
            \/ ~s.active
            \/ /\ s = [incoming EXCEPT !.written = Append(@, <<u.paper, u.off + 1>>)]
               /\ incoming.active /\ incoming.open /\ incoming.id = u.id
<1> DEFINE s == Piece(incoming, u)
<1>1. /\ incoming \in IncomingType /\ u \in SendingType /\ u.paper \in Papers /\ u.off \in Nat
      /\ incoming.written \in Seq(Papers \X (Nat \ {0}))
  BY DEF ViewerInv, ViewerTypes, SendingType, IncomingType
<1>2. Append(incoming.written, <<u.paper, u.off + 1>>) \in Seq(Papers \X (Nat \ {0}))
  BY <1>1
<1>3. CASE ~incoming.active \/ ~incoming.open \/ incoming.id # u.id
  <2>1. s = incoming
    BY <1>3, Zenon DEF Piece
  <2> HIDE DEF s
  <2> QED BY <1>1, <1>3, <2>1 DEF s
<1>4. CASE /\ incoming.active /\ incoming.open /\ incoming.id = u.id
           /\ Len(incoming.written) + 1 > Cap
  <2>1. s = [incoming EXCEPT !.active = FALSE, !.open = FALSE]
    BY <1>4 DEF Piece
  <2> HIDE DEF s
  <2>2. s \in IncomingType /\ s.id = incoming.id /\ ~s.active
    BY <1>1, <2>1 DEF IncomingType
  <2> QED BY <2>2 DEF s
<1>5. CASE /\ incoming.active /\ incoming.open /\ incoming.id = u.id
           /\ ~(Len(incoming.written) + 1 > Cap)
  <2>1. s = [incoming EXCEPT !.written = Append(@, <<u.paper, u.off + 1>>)]
    BY <1>5 DEF Piece
  <2> HIDE DEF s
  <2>2. s \in IncomingType /\ s.id = incoming.id
    BY <1>1, <1>2, <2>1 DEF IncomingType
  <2> QED BY <1>5, <2>1, <2>2 DEF s
<1> QED BY <1>3, <1>4, <1>5

(* A piece that follows the ones before it.                                 *)
LEMMA PieceFollows ==
  ASSUME ViewerInv, NEW u \in sending, link = "open", ~failures.torn,
         Piece(incoming, u).active, incoming.id = u.id
  PROVE  /\ Piece(incoming, u).open /\ Piece(incoming, u).paper = u.paper
         /\ Piece(incoming, u).written = FirstPieces(u.paper, u.off + 1)
<1> DEFINE s == Piece(incoming, u)
<1>1. /\ incoming \in IncomingType /\ u \in SendingType /\ u.paper \in Papers /\ u.off \in Nat
  BY DEF ViewerInv, ViewerTypes, SendingType
<1>2. \/ s = incoming /\ (incoming.active /\ incoming.open => incoming.id # u.id)
      \/ /\ s = [incoming EXCEPT !.written = Append(@, <<u.paper, u.off + 1>>)]
         /\ incoming.active /\ incoming.open /\ incoming.id = u.id
  BY PieceArrives
<1> HIDE DEF s
<1>3. incoming.active => InStep
  BY DEF ViewerInv, Receiving
<1>4. s = [incoming EXCEPT !.written = Append(@, <<u.paper, u.off + 1>>)] /\ incoming.active
  BY <1>2, <1>3 DEF InStep, s
<1>5. incoming.open /\ u.paper = incoming.paper /\ incoming.written = FirstPieces(u.paper, u.off)
  BY <1>3, <1>4 DEF InStep
<1>6. s.open = incoming.open /\ s.paper = incoming.paper
      /\ s.written = Append(incoming.written, <<u.paper, u.off + 1>>)
  BY <1>1, <1>4 DEF IncomingType
<1>7. Append(FirstPieces(u.paper, u.off), <<u.paper, u.off + 1>>) = FirstPieces(u.paper, u.off + 1)
  BY <1>1, NextPiece
<1> QED BY <1>5, <1>6, <1>7 DEF s

(* A piece of a file is sent.                                               *)
LEMMA PieceSent ==
  ASSUME ViewerInv, NEW u \in sending, SendPiece(u)
  PROVE  ViewerInv'
<1> DEFINE last == u.off + 1 = Pieces[u.paper]
           v == [u EXCEPT !.off = @ + 1]
           s == Piece(incoming, u)
<1>1. /\ incoming \in IncomingType /\ u \in SendingType /\ u.paper \in Papers /\ u.off \in Nat
      /\ u.id \in Nat /\ sending \subseteq SendingType /\ Pieces[u.paper] \in Nat
      /\ u.id < uploadId /\ u.off < Pieces[u.paper]
  BY ViewerAssumption
     DEF ViewerAssumption, ViewerInv, ViewerTypes, SendingType, SendersApart
<1>2. v \in SendingType /\ v.id = u.id /\ v.paper = u.paper /\ v.off = u.off + 1
  BY <1>1 DEF SendingType
<1>3. /\ sending' = (sending \ {u}) \cup (IF last THEN {} ELSE {v})
      /\ UNCHANGED <<link, uploadId, pendingDialog, dialogs, failures>>
  BY DEF SendPiece, chooser
<1>4. CASE \/ link # "open" /\ UNCHANGED <<incoming, given>>
           \/ link = "open" /\ last /\ End(s, u)
           \/ link = "open" /\ ~last /\ incoming' = s /\ UNCHANGED given
  <2> HIDE DEF v
  <2>1. sending' \subseteq SendingType
    BY <1>1, <1>2, <1>3
  <2>2. \A w \in sending \ {u} : w.id # u.id
    BY DEF ViewerInv, SendersApart
  <2>3. ~last => v.off < Pieces[v.paper]
    BY <1>1, <1>2
  <2>4. SendersApart'
    <3>1. \A w \in sending' : w.id < uploadId' /\ w.off < Pieces[w.paper]
      BY <1>1, <1>2, <1>3, <2>3 DEF ViewerInv, SendersApart
    <3>2. \A w, x \in sending' : w.id = x.id => w = x
      BY <1>2, <1>3, <2>2 DEF ViewerInv, SendersApart
    <3> QED BY <3>1, <3>2 DEF SendersApart
  <2> HIDE DEF last
  <2>5. ASSUME incoming' \in IncomingType, Receiving', GivenIsWhole' PROVE ViewerInv'
    <3>1. ViewerTypes'
      BY <1>3, <2>1, <2>5 DEF ViewerInv, ViewerTypes
    <3> QED BY <2>4, <2>5, <3>1 DEF ViewerInv
  <2>6. CASE link # "open" /\ UNCHANGED <<incoming, given>>
    <3>1. Receiving' /\ GivenIsWhole'
      BY <1>3, <2>6 DEF ViewerInv, Receiving, InStep, GivenIsWhole
    <3> QED BY <1>1, <2>5, <2>6, <3>1
  <2>7. CASE link = "open" /\ ~last /\ incoming' = s /\ UNCHANGED given
    <3>1. s \in IncomingType /\ s.id = incoming.id
      BY <2>7, PieceArrives
    <3>2. GivenIsWhole'
      BY <1>3, <2>7 DEF ViewerInv, GivenIsWhole
    <3>3. ASSUME ~failures.torn, s.active PROVE InStep'
      <4>1. CASE incoming.id = u.id
        <5>1. s.open /\ s.paper = u.paper /\ s.written = FirstPieces(u.paper, u.off + 1)
          BY <2>7, <3>3, <4>1, PieceFollows
        <5> HIDE DEF s
        <5>2. \A w \in sending' : w.id = incoming'.id => w = v
          BY <1>2, <1>3, <2>2, <2>7, <3>1, <4>1
        <5> QED BY <1>2, <2>7, <5>1, <5>2 DEF InStep
      <4>2. CASE incoming.id # u.id
        <5>1. s = incoming
          BY <2>7, <3>3, <4>2, PieceArrives
        <5> HIDE DEF s
        <5>2. InStep
          BY <3>3, <5>1 DEF ViewerInv, Receiving
        <5>3. \A w \in sending' : w.id = incoming'.id => w \in sending
          BY <1>2, <1>3, <2>7, <4>2, <5>1
        <5> QED BY <1>3, <2>7, <5>1, <5>2, <5>3 DEF InStep
      <4> QED BY <4>1, <4>2
    <3> HIDE DEF s
    <3>4. Receiving'
      BY <1>3, <2>7, <3>1, <3>3 DEF ViewerInv, Receiving
    <3> QED BY <2>5, <2>7, <3>1, <3>2, <3>4
  <2>8. CASE link = "open" /\ last /\ End(s, u)
    <3>1. s \in IncomingType /\ s.id = incoming.id
      BY <2>8, PieceArrives
    <3>2. CASE Mine(s, u)
      <4>1. s.active /\ incoming.id = u.id
        BY <3>1, <3>2 DEF Mine
      <4> DEFINE new == [id |-> u.id, paper |-> s.paper, dialog |-> s.dialog,
                         written |-> s.written]
      <4>2. /\ incoming' = [s EXCEPT !.active = FALSE, !.open = FALSE]
            /\ given' = given \cup {new}
        BY <2>8, <3>2 DEF End
      <4>3. ~failures.torn => s.paper = u.paper /\ s.written = FirstPieces(u.paper, u.off + 1)
        BY <2>8, <4>1, PieceFollows
      <4> HIDE DEF s
      <4>4. new.paper = s.paper /\ new.written = s.written
        OBVIOUS
      <4> HIDE DEF new
      <4>5. ~failures.torn => new.written = WholePaper(new.paper)
        BY <2>8, <4>3, <4>4 DEF WholePaper, FirstPieces, last
      <4>6. GivenIsWhole'
        BY <1>3, <4>2, <4>5 DEF ViewerInv, GivenIsWhole
      <4>7. incoming' \in IncomingType /\ ~incoming'.active /\ incoming'.id = incoming.id
        BY <3>1, <4>2 DEF IncomingType
      <4>8. Receiving'
        BY <1>3, <4>7 DEF ViewerInv, Receiving
      <4> QED BY <2>5, <4>6, <4>7, <4>8
    <3>3. CASE ~Mine(s, u)
      <4>1. incoming' = s /\ UNCHANGED given
        BY <2>8, <3>3 DEF End
      <4>2. GivenIsWhole'
        BY <1>3, <4>1 DEF ViewerInv, GivenIsWhole
      <4>3. ~s.active \/ s = incoming
        BY <2>8, <3>1, <3>3, PieceArrives DEF Mine
      <4> HIDE DEF s
      <4>4. sending' \subseteq sending
        BY <1>3, <2>8
      <4>5. Receiving'
        BY <1>3, <3>1, <4>1, <4>3, <4>4 DEF ViewerInv, Receiving, InStep
      <4> QED BY <2>5, <3>1, <4>1, <4>2, <4>5
    <3> QED BY <3>2, <3>3
  <2> QED BY <1>4, <2>6, <2>7, <2>8
<1>5. \/ link # "open" /\ UNCHANGED <<incoming, given>>
      \/ link = "open" /\ last /\ End(s, u)
      \/ link = "open" /\ ~last /\ incoming' = s /\ UNCHANGED given
  <2>1. CASE link # "open"
    BY <2>1, Zenon DEF SendPiece
  <2>2. CASE link = "open" /\ last
    BY <2>2, Zenon DEF SendPiece
  <2>3. CASE link = "open" /\ ~last
    BY <2>3, Zenon DEF SendPiece
  <2> QED BY <2>1, <2>2, <2>3
<1> QED BY <1>4, <1>5

(* Every step of the window keeps the bastion and uploadFile in step.       *)
LEMMA ViewerStep ==
  ASSUME ViewerInv, [ViewerNext]_viewerVars
  PROVE  ViewerInv'
<1>1. /\ pendingDialog \in Dialogs /\ dialogs \in Dialogs /\ 0 \in Dialogs
      /\ failures \in [n : Nat, torn : BOOLEAN]
  BY ViewerAssumption DEF ViewerAssumption, ViewerInv, ViewerTypes, Dialogs
<1>2. CASE SocketOpens \/ ViewerMessage \/ ViewerCloses \/ ProbeAnswer \/ UNCHANGED viewerVars
  <2>1. /\ UNCHANGED <<sending, uploadId, incoming, given, failures, pendingDialog, dialogs>>
        /\ \/ UNCHANGED link
           \/ link = "connecting" /\ link' = "open"
           \/ link' = "closed"
    BY <1>2, Zenon
       DEF SocketOpens, ViewerMessage, ViewerCloses, ProbeAnswer, viewerVars, chooser, remote
  <2> QED BY <1>1, <2>1, LinkMoves
<1>3. CASE triggerFilePicker \/ onFileInputCancel
  <2>1. pendingDialog' \in Dialogs /\ dialogs' \in Dialogs
    BY <1>1, <1>3, ViewerAssumption
       DEF ViewerAssumption, triggerFilePicker, onFileInputCancel, Dialogs
  <2>2. UNCHANGED <<link, sending, uploadId, incoming, given, failures>>
    BY <1>3 DEF triggerFilePicker, onFileInputCancel, remote
  <2> QED BY <2>1, <2>2, LinkMoves
<1>4. ASSUME NEW p \in Papers, DropFile(p) PROVE ViewerInv'
  BY <1>1, <1>4, UploadBegins DEF DropFile, chooser
<1>5. ASSUME NEW p \in Papers, onFileInputChange(p) PROVE ViewerInv'
  BY <1>1, <1>5, UploadBegins DEF onFileInputChange
<1>6. ASSUME NEW u \in sending, SliceFails(u) PROVE ViewerInv'
  <2>1. /\ sending' = sending \ {u} /\ failures' = [failures EXCEPT !.n = @ + 1]
        /\ UNCHANGED <<link, uploadId, pendingDialog, dialogs, given>>
        /\ \/ UNCHANGED incoming
           \/ incoming' = [incoming EXCEPT !.active = FALSE, !.open = FALSE]
    BY <1>6, Zenon DEF SliceFails, Cancel, chooser
  <2>2. failures' \in [n : Nat, torn : BOOLEAN] /\ failures'.torn = failures.torn
    BY <1>1, <2>1
  <2> QED BY <2>1, <2>2, UploadStops
<1>7. ASSUME NEW u \in sending, StopsSending(u) PROVE ViewerInv'
  <2>1. /\ sending' = sending \ {u} /\ UNCHANGED <<failures, link, uploadId, given, incoming>>
        /\ UNCHANGED <<pendingDialog, dialogs>>
    BY <1>7 DEF StopsSending, chooser, remote
  <2> QED BY <1>1, <2>1, UploadStops
<1> QED BY <1>2, <1>3, <1>4, <1>5, <1>6, <1>7, PieceSent, Zenon DEF ViewerNext

(* Whatever is dropped on the page or chosen for its dialogs, and however   *)
(* the pieces of any number of files mix on the websocket, a file reaches   *)
(* the page whole and under its own name, unless an upload under way was    *)
(* torn by one that could not be staged (RbiViewerModal.jsx uploadFile,     *)
(* rbi.cc upload-begin, binary frames and upload-end).                      *)
THEOREM GivenIsWholeAlways == Spec => []GivenIsWhole
<1>1. Open => ViewerInv
  BY ViewerStart DEF Open
<1>2. ViewerInv /\ [Next]_windowVars => ViewerInv'
  BY ViewerStep, Parts
<1>3. ViewerInv => GivenIsWhole
  BY DEF ViewerInv
<1> QED BY <1>1, <1>2, <1>3, PTL DEF Spec

-----------------------------------------------------------------------------
(***************************************************************************)
(* Zones.  A save in which no call has failed has done all that was wanted *)
(* at the click, but for the calls that are still to be made; and those    *)
(* ask for nothing else.                                                   *)
(***************************************************************************)
ZoneCall(c) ==
  \/ c.stage = 1 /\ c.at \in Things /\ c.to \in AnyZone /\ c.val \in Risks
  \/ c.stage = 2 /\ c.at \in Zones /\ c.val \in Rules
  \/ c.stage = 3 /\ c.at \in Things /\ c.val \in Relays

(* A call of the save asks for what was on screen at the click.             *)
AsWanted(c) ==
  /\ c.stage = 1 =>
       /\ c.to = wanted.zone[c.at]
       /\ wanted.zone[c.at] # NO_ZONE =>
            wanted.edits[wanted.zone[c.at]].risk \in {Unset, c.val}
  /\ c.stage = 2 => wanted.edits[c.at].rule \in {Unset, c.val}
  /\ c.stage = 3 => /\ wanted.zone[c.at] # NO_ZONE
                    /\ wanted.edits[wanted.zone[c.at]].relay \in {Unset, c.val}
Wanted ==
  /\ \A r \in Things : wanted.moves[r] \in {Unset, wanted.zone[r]}
  /\ \A c \in calls : AsWanted(c)

Left(stage, x) == \E c \in calls : c.stage = stage /\ c.at = x
PolicySaved(z) == wanted.edits[z].rule \in {Unset, policy[z]} \/ Left(2, z)
ZoneSaved(r) == wanted.moves[r] \in {Unset, resource[r].zone} \/ Left(1, r)
RiskSaved(r) ==
  wanted.zone[r] # NO_ZONE =>
    wanted.edits[wanted.zone[r]].risk \in {Unset, resource[r].risk} \/ Left(1, r)
RelaySaved(r) ==
  wanted.zone[r] # NO_ZONE =>
    wanted.edits[wanted.zone[r]].relay \in {Unset, resource[r].relay} \/ Left(3, r)
Saved ==
  /\ \A z \in Zones : PolicySaved(z)
  /\ \A r \in Things \ touched : ZoneSaved(r) /\ RiskSaved(r) /\ RelaySaved(r)
SaveHolds == IF saving THEN ~failed ELSE report = "saved"
ZonesInv == ZonesTypeOK /\ Wanted /\ (SaveHolds => Saved)

(* What is on the page is what was loaded.                                  *)
LEMMA ZonesStart == ZonesInit => ZonesInv
<1> SUFFICES ASSUME ZonesInit PROVE ZonesInv
  OBVIOUS
<1> DEFINE first == CHOOSE r \in Things : TRUE
           risk == CHOOSE x \in Risks : TRUE
           home == CHOOSE z \in Zones : TRUE
<1>1. risk \in Risks /\ home \in Zones /\ Direct \in Relays /\ NoPolicy \in Rules
      /\ MaxEdits \in Nat /\ MaxSaves \in Nat /\ MaxOthers \in Nat
  BY ZonesAssumption DEF ZonesAssumption
<1>2. /\ resource = [r \in Things |-> [zone |-> IF r = first THEN home ELSE NO_ZONE,
                                       risk |-> risk, relay |-> Direct]]
      /\ policy = [z \in Zones |-> NoPolicy]
      /\ resources = resource /\ policies = policy /\ reloading = FALSE
      /\ newZones = {} /\ moves = NoMoves /\ edits = NoEdits
      /\ saving = FALSE /\ calls = {} /\ failed = FALSE /\ report = "none"
      /\ wanted = [moves |-> NoMoves, zone |-> [r \in Things |-> resource[r].zone],
                   edits |-> NoEdits]
      /\ touched = {} /\ done = [edits |-> 0, saves |-> 0, others |-> 0]
  BY DEF ZonesInit
<1> HIDE DEF first, risk, home
<1>3. resource \in [Things -> Resource]
  BY <1>1, <1>2 DEF Resource, AnyZone
<1>4. policy \in [Zones -> Rules] /\ moves \in [Things -> AnyZone \cup {Unset}]
      /\ edits \in [Zones -> Edit]
  BY <1>1, <1>2 DEF NoMoves, NoEdits, NoEdit, Edit
<1>5. done \in [edits : 0 .. MaxEdits, saves : 0 .. MaxSaves, others : 0 .. MaxOthers]
  BY <1>1, <1>2
<1>6. ZonesTypeOK
  BY <1>2, <1>3, <1>4, <1>5 DEF ZonesTypeOK
<1>7. Wanted
  BY <1>2 DEF Wanted, NoMoves
<1>8. ~SaveHolds
  BY <1>2 DEF SaveHolds
<1> QED BY <1>6, <1>7, <1>8 DEF ZonesInv

(* Where a resource is shown, and what is edited there.                     *)
LEMMA ZoneShown ==
  ASSUME ZonesTypeOK, NEW r \in Things
  PROVE  /\ zoneOf(r) \in AnyZone /\ zoneOfResource(r) \in AnyZone
         /\ zoneOfResource(r) # NO_ZONE => edits[zoneOfResource(r)] \in Edit
<1>1. resources[r] \in Resource /\ moves[r] \in AnyZone \cup {Unset} /\ edits \in [Zones -> Edit]
  BY DEF ZonesTypeOK
<1>2. zoneOf(r) \in AnyZone
  BY <1>1 DEF zoneOf, Resource
<1>3. zoneOfResource(r) \in AnyZone
  BY <1>1, <1>2 DEF zoneOfResource
<1> QED BY <1>1, <1>2, <1>3 DEF AnyZone

(* The calls of a save.                                                     *)
LEMMA SaveCalls ==
  ASSUME ZonesTypeOK
  PROVE  /\ \A c \in resourceChanges \cup policyChanges \cup relayChanges : ZoneCall(c)
         /\ \A c \in resourceChanges : /\ c.stage = 1 /\ c.to = zoneOfResource(c.at)
                                       /\ Edited(c.at, "risk") =>
                                            c.val = edits[zoneOfResource(c.at)].risk
         /\ \A c \in policyChanges : c.stage = 2 /\ c.val = edits[c.at].rule
         /\ \A c \in relayChanges :
              /\ c.stage = 3 /\ Edited(c.at, "relay")
              /\ c.val = edits[zoneOfResource(c.at)].relay
<1>1. ASSUME NEW c \in resourceChanges
      PROVE  /\ ZoneCall(c) /\ c.stage = 1 /\ c.to = zoneOfResource(c.at)
             /\ Edited(c.at, "risk") => c.val = edits[zoneOfResource(c.at)].risk
  <2>1. PICK r \in Things : c = resourceChange(r)
    BY <1>1 DEF resourceChanges
  <2>2. /\ c.stage = 1 /\ c.at = r /\ c.to = zoneOfResource(r)
        /\ c.val = IF Edited(r, "risk") THEN edits[zoneOfResource(r)].risk ELSE resources[r].risk
    BY <2>1, Zenon DEF resourceChange
  <2>3. resources[r].risk \in Risks
    BY DEF ZonesTypeOK, Resource
  <2>4. Edited(r, "risk") => edits[zoneOfResource(r)].risk \in Risks
    BY ZoneShown DEF Edited, Edit
  <2> QED BY <2>2, <2>3, <2>4, ZoneShown DEF ZoneCall
<1>2. ASSUME NEW c \in policyChanges
      PROVE  ZoneCall(c) /\ c.stage = 2 /\ c.val = edits[c.at].rule
  <2>1. PICK z \in Zones : edits[z].rule # Unset /\ c = [stage |-> 2, at |-> z, val |-> edits[z].rule]
    BY <1>2 DEF policyChanges
  <2>2. edits[z].rule \in Rules
    BY <2>1 DEF ZonesTypeOK, Edit
  <2> QED BY <2>1, <2>2 DEF ZoneCall
<1>3. ASSUME NEW c \in relayChanges
      PROVE  /\ ZoneCall(c) /\ c.stage = 3 /\ Edited(c.at, "relay")
             /\ c.val = edits[zoneOfResource(c.at)].relay
  <2>1. PICK r \in Things : /\ Edited(r, "relay")
                            /\ c = [stage |-> 3, at |-> r, val |-> edits[zoneOfResource(r)].relay]
    BY <1>3 DEF relayChanges
  <2>2. edits[zoneOfResource(r)].relay \in Relays
    BY <2>1, ZoneShown DEF Edited, Edit
  <2> QED BY <2>1, <2>2 DEF ZoneCall
<1> QED BY <1>1, <1>2, <1>3

(* The click on Save: every change that is pending has its call.            *)
LEMMA SaveStarts ==
  ASSUME ZonesInv, save
  PROVE  ZonesInv'
<1> DEFINE all == resourceChanges \cup policyChanges \cup relayChanges
<1>1. /\ calls' = all /\ saving' = TRUE /\ failed' = FALSE /\ touched' = {}
      /\ wanted' = [moves |-> moves, zone |-> [r \in Things |-> zoneOfResource(r)], edits |-> edits]
      /\ done.saves < MaxSaves /\ done' = [done EXCEPT !.saves = @ + 1]
      /\ UNCHANGED <<resource, policy, resources, policies, reloading, newZones, moves, edits, report>>
  BY DEF save
<1>2. ZonesTypeOK
  BY DEF ZonesInv
<1>3. done' \in [edits : 0 .. MaxEdits, saves : 0 .. MaxSaves, others : 0 .. MaxOthers]
  BY <1>1, <1>2, ZonesAssumption DEF ZonesAssumption, ZonesTypeOK
<1>4. \A c \in all : ZoneCall(c)
  BY <1>2, SaveCalls
<1>5. /\ wanted'.moves = moves /\ wanted'.edits = edits
      /\ \A r \in Things : wanted'.zone[r] = zoneOfResource(r)
  BY <1>1
<1>6. ZonesTypeOK'
  <2> HIDE DEF all
  <2> QED BY <1>1, <1>2, <1>3, <1>4 DEF ZonesTypeOK, ZoneCall
<1>7. \A r \in Things : wanted'.moves[r] \in {Unset, wanted'.zone[r]}
  BY <1>5 DEF zoneOfResource
<1>8. ASSUME NEW c \in all PROVE AsWanted(c)'
  <2>1. \/ c.stage = 1 /\ c.at \in Things
        \/ c.stage = 2
        \/ c.stage = 3 /\ c.at \in Things
    <3> HIDE DEF all
    <3> QED BY <1>4, Zenon DEF ZoneCall
  <2>2. CASE c \in resourceChanges
    <3>1. /\ c.stage = 1 /\ c.to = zoneOfResource(c.at) /\ c.at \in Things
          /\ Edited(c.at, "risk") => c.val = edits[zoneOfResource(c.at)].risk
      BY <1>2, <2>1, <2>2, SaveCalls
    <3> QED BY <1>5, <3>1 DEF AsWanted, Edited
  <2>3. CASE c \in policyChanges
    <3>1. c.stage = 2 /\ c.val = edits[c.at].rule
      BY <1>2, <2>3, SaveCalls
    <3> QED BY <1>5, <3>1 DEF AsWanted
  <2>4. CASE c \in relayChanges
    <3>1. /\ c.stage = 3 /\ Edited(c.at, "relay") /\ c.at \in Things
          /\ c.val = edits[zoneOfResource(c.at)].relay
      BY <1>2, <2>1, <2>4, SaveCalls
    <3> QED BY <1>5, <3>1 DEF AsWanted, Edited
  <2> QED BY <2>2, <2>3, <2>4
<1>9. Wanted'
  BY <1>1, <1>7, <1>8 DEF Wanted
<1>10. ASSUME NEW z \in Zones PROVE PolicySaved(z)'
  <2>1. CASE edits[z].rule = Unset
    BY <1>5, <2>1 DEF PolicySaved
  <2>2. CASE edits[z].rule # Unset
    <3> DEFINE c == [stage |-> 2, at |-> z, val |-> edits[z].rule]
    <3>1. c \in all
      BY <2>2 DEF policyChanges
    <3>2. c.stage = 2 /\ c.at = z
      OBVIOUS
    <3> HIDE DEF c, all
    <3> QED BY <1>1, <3>1, <3>2 DEF PolicySaved, Left
  <2> QED BY <2>1, <2>2
<1>11. ASSUME NEW r \in Things, moves[r] # Unset \/ Edited(r, "risk") PROVE Left(1, r)'
  <2> DEFINE c == resourceChange(r)
  <2>1. c \in all
    BY <1>11 DEF resourceChanges
  <2>2. c.stage = 1 /\ c.at = r
    BY DEF resourceChange
  <2> HIDE DEF c, all
  <2> QED BY <1>1, <2>1, <2>2 DEF Left
<1>12. ASSUME NEW r \in Things, Edited(r, "relay") PROVE Left(3, r)'
  <2> DEFINE c == [stage |-> 3, at |-> r, val |-> edits[zoneOfResource(r)].relay]
  <2>1. c \in all
    BY <1>12 DEF relayChanges
  <2>2. c.stage = 3 /\ c.at = r
    OBVIOUS
  <2> HIDE DEF c, all
  <2> QED BY <1>1, <2>1, <2>2 DEF Left
<1>13. ASSUME NEW r \in Things PROVE ZoneSaved(r)' /\ RiskSaved(r)' /\ RelaySaved(r)'
  <2>1. ZoneSaved(r)'
    <3>1. moves[r] = Unset \/ Left(1, r)'
      BY <1>11
    <3> QED BY <1>5, <3>1 DEF ZoneSaved
  <2>2. RiskSaved(r)'
    BY <1>5, <1>11 DEF RiskSaved, Edited
  <2>3. RelaySaved(r)'
    BY <1>5, <1>12 DEF RelaySaved, Edited
  <2> QED BY <2>1, <2>2, <2>3
<1> HIDE DEF all
<1> QED BY <1>6, <1>9, <1>10, <1>13 DEF ZonesInv, Saved

(* The page changes, and what was wanted, called and written does not.      *)
LEMMA PageMoves ==
  ASSUME ZonesInv,
         UNCHANGED <<resource, policy, saving, calls, failed, wanted, touched>>,
         resources' \in [Things -> Resource], policies' \in [Zones -> Rules],
         reloading' \in BOOLEAN, newZones' \subseteq Zones,
         moves' \in [Things -> AnyZone \cup {Unset}], edits' \in [Zones -> Edit],
         report' \in {"none", report},
         done' \in [edits : 0 .. MaxEdits, saves : 0 .. MaxSaves, others : 0 .. MaxOthers]
  PROVE  ZonesInv'
<1>1. ZonesTypeOK'
  BY DEF ZonesInv, ZonesTypeOK
<1>2. Wanted'
  BY DEF ZonesInv, Wanted, AsWanted
<1>3. SaveHolds' => SaveHolds
  BY DEF SaveHolds
<1>4. Saved => Saved'
  BY DEF Saved, PolicySaved, ZoneSaved, RiskSaved, RelaySaved, Left
<1> QED BY <1>1, <1>2, <1>3, <1>4 DEF ZonesInv

(* A call is made, or fails.                                                *)
LEMMA CallMade ==
  ASSUME ZonesInv, NEW c \in calls, calls' = calls \ {c},
         UNCHANGED <<resources, policies, reloading, newZones, moves, edits, saving,
                     report, wanted, touched, done>>,
         \/ Apply(c) /\ UNCHANGED failed
         \/ (Apply(c) \/ UNCHANGED <<resource, policy>>) /\ failed' = TRUE
  PROVE  ZonesInv'
<1>1. /\ ZoneCall(c) /\ AsWanted(c) /\ resource \in [Things -> Resource] /\ policy \in [Zones -> Rules]
      /\ saving
  BY DEF ZonesInv, ZonesTypeOK, ZoneCall, Wanted
<1>2. ASSUME Apply(c)
      PROVE  \/ /\ c.stage = 1 /\ UNCHANGED policy
                /\ resource' = [resource EXCEPT ![c.at].zone = c.to, ![c.at].risk = c.val]
             \/ c.stage = 2 /\ policy' = [policy EXCEPT ![c.at] = c.val] /\ UNCHANGED resource
             \/ /\ c.stage = 3 /\ UNCHANGED policy
                /\ resource' = [resource EXCEPT ![c.at].relay = c.val]
  <2>1. c.stage \in {1, 2, 3}
    BY <1>1 DEF ZoneCall
  <2>2. 1 # 2 /\ 2 # 3 /\ 1 # 3
    OBVIOUS
  <2> QED BY <1>2, <2>1, <2>2 DEF Apply
<1>3. resource' \in [Things -> Resource] /\ policy' \in [Zones -> Rules]
  <2>1. CASE UNCHANGED <<resource, policy>>
    BY <1>1, <2>1
  <2>2. CASE c.stage = 1 /\ UNCHANGED policy
             /\ resource' = [resource EXCEPT ![c.at].zone = c.to, ![c.at].risk = c.val]
    <3>1. c.at \in Things /\ c.to \in AnyZone /\ c.val \in Risks
      BY <1>1, <2>2 DEF ZoneCall
    <3> QED BY <1>1, <2>2, <3>1 DEF Resource
  <2>3. CASE c.stage = 2 /\ policy' = [policy EXCEPT ![c.at] = c.val] /\ UNCHANGED resource
    BY <1>1, <2>3 DEF ZoneCall
  <2>4. CASE c.stage = 3 /\ UNCHANGED policy /\ resource' = [resource EXCEPT ![c.at].relay = c.val]
    <3>1. c.at \in Things /\ c.val \in Relays
      BY <1>1, <2>4 DEF ZoneCall
    <3> QED BY <1>1, <2>4, <3>1 DEF Resource
  <2> QED BY <1>2, <2>1, <2>2, <2>3, <2>4
<1>4. ZonesTypeOK'
  <2>1. failed' \in BOOLEAN
    BY DEF ZonesInv, ZonesTypeOK
  <2> QED BY <1>1, <1>3, <2>1 DEF ZonesInv, ZonesTypeOK
<1>5. Wanted'
  BY DEF ZonesInv, Wanted, AsWanted
<1>6. CASE failed'
  BY <1>1, <1>4, <1>5, <1>6 DEF ZonesInv, SaveHolds
<1>7. CASE ~failed'
  <2>1. Saved /\ Apply(c)
    BY <1>1, <1>7 DEF ZonesInv, SaveHolds
  <2>2. \A stage, x : Left(stage, x) => Left(stage, x)' \/ (c.stage = stage /\ c.at = x)
    BY DEF Left
  <2>3. CASE /\ c.stage = 1 /\ UNCHANGED policy
             /\ resource' = [resource EXCEPT ![c.at].zone = c.to, ![c.at].risk = c.val]
    <3>1. c.at \in Things /\ c.stage # 2 /\ c.stage # 3
      BY <1>1, <2>3 DEF ZoneCall
    <3>2. \A z \in Zones : PolicySaved(z)'
      BY <2>1, <2>2, <2>3, <3>1 DEF Saved, PolicySaved
    <3>3. /\ resource'[c.at].zone = c.to /\ resource'[c.at].risk = c.val
          /\ resource'[c.at].relay = resource[c.at].relay
      BY <1>1, <2>3, <3>1 DEF Resource
    <3>4. \A r \in Things : r # c.at => resource'[r] = resource[r]
      BY <1>1, <2>3
    <3>5. ZoneSaved(c.at)' /\ RiskSaved(c.at)'
      BY <1>1, <2>3, <3>1, <3>3 DEF ZoneSaved, RiskSaved, AsWanted, ZonesInv, Wanted
    <3>6. ASSUME NEW r \in Things \ touched PROVE ZoneSaved(r)' /\ RiskSaved(r)' /\ RelaySaved(r)'
      <4>1. ZoneSaved(r) /\ RiskSaved(r) /\ RelaySaved(r)
        BY <2>1 DEF Saved
      <4>2. RelaySaved(r)'
        BY <2>2, <3>1, <3>3, <3>4, <4>1 DEF RelaySaved
      <4>3. CASE r = c.at
        BY <3>5, <4>2, <4>3
      <4>4. CASE r # c.at
        <5>1. ZoneSaved(r)'
          BY <2>2, <3>4, <4>1, <4>4 DEF ZoneSaved
        <5>2. RiskSaved(r)'
          BY <2>2, <3>4, <4>1, <4>4 DEF RiskSaved
        <5> QED BY <4>2, <5>1, <5>2
      <4> QED BY <4>3, <4>4
    <3> QED BY <1>4, <1>5, <3>2, <3>6 DEF ZonesInv, Saved
  <2>4. CASE c.stage = 2 /\ policy' = [policy EXCEPT ![c.at] = c.val] /\ UNCHANGED resource
    <3>1. c.at \in Zones /\ c.stage # 1 /\ c.stage # 3
      BY <1>1, <2>4 DEF ZoneCall
    <3>2. policy'[c.at] = c.val /\ \A z \in Zones : z # c.at => policy'[z] = policy[z]
      BY <1>1, <2>4, <3>1
    <3>3. PolicySaved(c.at)'
      BY <1>1, <2>4, <3>2 DEF PolicySaved, AsWanted
    <3>4. ASSUME NEW z \in Zones PROVE PolicySaved(z)'
      <4>1. CASE z = c.at
        BY <3>3, <4>1
      <4>2. CASE z # c.at
        BY <2>1, <2>2, <3>2, <4>2 DEF Saved, PolicySaved
      <4> QED BY <4>1, <4>2
    <3>5. ASSUME NEW r \in Things \ touched PROVE ZoneSaved(r)' /\ RiskSaved(r)' /\ RelaySaved(r)'
      <4>1. ZoneSaved(r) /\ RiskSaved(r) /\ RelaySaved(r)
        BY <2>1 DEF Saved
      <4> QED BY <2>2, <2>4, <3>1, <4>1 DEF ZoneSaved, RiskSaved, RelaySaved
    <3> QED BY <1>4, <1>5, <3>4, <3>5 DEF ZonesInv, Saved
  <2>5. CASE /\ c.stage = 3 /\ UNCHANGED policy
             /\ resource' = [resource EXCEPT ![c.at].relay = c.val]
    <3>1. c.at \in Things /\ c.stage # 1 /\ c.stage # 2
      BY <1>1, <2>5 DEF ZoneCall
    <3>2. \A z \in Zones : PolicySaved(z)'
      BY <2>1, <2>2, <2>5, <3>1 DEF Saved, PolicySaved
    <3>3. /\ resource'[c.at].zone = resource[c.at].zone /\ resource'[c.at].relay = c.val
          /\ resource'[c.at].risk = resource[c.at].risk
      BY <1>1, <2>5, <3>1 DEF Resource
    <3>4. \A r \in Things : r # c.at => resource'[r] = resource[r]
      BY <1>1, <2>5
    <3>5. RelaySaved(c.at)'
      BY <1>1, <2>5, <3>3 DEF RelaySaved, AsWanted
    <3>6. ASSUME NEW r \in Things \ touched PROVE ZoneSaved(r)' /\ RiskSaved(r)' /\ RelaySaved(r)'
      <4>1. ZoneSaved(r) /\ RiskSaved(r) /\ RelaySaved(r)
        BY <2>1 DEF Saved
      <4>2. resource'[r].zone = resource[r].zone /\ resource'[r].risk = resource[r].risk
        BY <3>3, <3>4
      <4>3. ZoneSaved(r)' /\ RiskSaved(r)'
        BY <2>2, <3>1, <4>1, <4>2 DEF ZoneSaved, RiskSaved
      <4>4. RelaySaved(r)'
        <5>1. CASE r = c.at
          BY <3>5, <5>1
        <5>2. CASE r # c.at
          BY <2>2, <3>4, <4>1, <5>2 DEF RelaySaved
        <5> QED BY <5>1, <5>2
      <4> QED BY <4>3, <4>4
    <3> QED BY <1>4, <1>5, <3>2, <3>6 DEF ZonesInv, Saved
  <2> QED BY <1>2, <2>1, <2>3, <2>4, <2>5
<1> QED BY <1>6, <1>7

(* Every step of the zones page, of its save and of other administrators.   *)
LEMMA ZonesStep ==
  ASSUME ZonesInv, [ZonesNext]_zoneVars
  PROVE  ZonesInv'
<1> DEFINE Counts == [edits : 0 .. MaxEdits, saves : 0 .. MaxSaves, others : 0 .. MaxOthers]
<1>1. /\ resource \in [Things -> Resource] /\ resources \in [Things -> Resource]
      /\ policy \in [Zones -> Rules] /\ policies \in [Zones -> Rules] /\ newZones \subseteq Zones
      /\ moves \in [Things -> AnyZone \cup {Unset}] /\ edits \in [Zones -> Edit]
      /\ reloading \in BOOLEAN /\ saving \in BOOLEAN /\ failed \in BOOLEAN
      /\ done \in Counts /\ touched \subseteq Things
      /\ report \in {"none", "saved", "failures"} /\ (calls # {} => saving)
  BY DEF ZonesInv, ZonesTypeOK
<1>2. MaxEdits \in Nat /\ MaxOthers \in Nat
  BY ZonesAssumption DEF ZonesAssumption
<1>3. CountEdit => done' \in Counts
  BY <1>1, <1>2 DEF CountEdit
<1>4. NoMoves \in [Things -> AnyZone \cup {Unset}] /\ NoEdits \in [Zones -> Edit]
  BY DEF NoMoves, NoEdits, NoEdit, Edit
<1> HIDE DEF Counts
<1> USE DEF Counts
<1>5. ASSUME NEW z \in Zones, createZone(z) PROVE ZonesInv'
  BY <1>1, <1>3, <1>5, PageMoves DEF createZone
<1>6. ASSUME NEW r \in Things, NEW z \in AnyZone, moveResource(r, z) PROVE ZonesInv'
  <2>1. moves' \in [Things -> AnyZone \cup {Unset}]
    BY <1>1, <1>6 DEF moveResource
  <2> QED BY <1>1, <1>3, <1>6, <2>1, PageMoves DEF moveResource
<1>7. ASSUME NEW z \in Zones, NEW key, NEW v, setEdit(z, key, v),
             \/ key = "risk" /\ v \in Risks
             \/ key = "rule" /\ v \in Rules
             \/ key = "relay" /\ v \in Relays
      PROVE  ZonesInv'
  <2> DEFINE w == IF baseOf(z)[key] = v THEN Unset ELSE v
  <2>1. w \in {v, Unset} /\ edits' = [edits EXCEPT ![z][key] = w]
    BY <1>7 DEF setEdit
  <2> HIDE DEF w
  <2>2. edits' \in [Zones -> Edit]
    <3>1. edits[z] \in Edit /\ DOMAIN edits = Zones
      BY <1>1
    <3> DEFINE q == [edits[z] EXCEPT ![key] = w]
    <3>2. q \in Edit
      BY <1>7, <2>1, <3>1 DEF Edit
    <3>3. edits' = [edits EXCEPT ![z] = q]
      BY <2>1, <3>1, Zenon
    <3> HIDE DEF q
    <3> QED BY <1>1, <3>2, <3>3
  <2> QED BY <1>1, <1>3, <1>7, <2>2, PageMoves DEF setEdit
<1>8. CASE reset
  BY <1>1, <1>4, <1>8, PageMoves DEF reset
<1>9. CASE RefreshZones
  <2>1. resources' \in [Things -> Resource] /\ policies' \in [Zones -> Rules]
    <3>1. ASSUME resources' = [r \in Things |->
                                 [resources[r] EXCEPT !.relay = resource[r].relay]]
          PROVE  resources' \in [Things -> Resource]
      <4>1. ASSUME NEW r \in Things
            PROVE  [resources[r] EXCEPT !.relay = resource[r].relay] \in Resource
        <5>1. resources[r] \in Resource /\ resource[r] \in Resource
          BY <1>1
        <5> QED BY <5>1 DEF Resource
      <4> QED BY <3>1, <4>1
    <3>2. resources' \in [Things -> Resource]
      BY <1>1, <1>9, <3>1 DEF RefreshZones
    <3>3. policies' \in [Zones -> Rules]
      BY <1>1, <1>9 DEF RefreshZones
    <3> QED BY <3>2, <3>3
  <2>2. /\ UNCHANGED <<resource, policy, saving, calls, failed, wanted, touched>>
        /\ UNCHANGED <<newZones, moves, edits, report, done>> /\ reloading' = FALSE
    BY <1>9 DEF RefreshZones
  <2>3. /\ reloading' \in BOOLEAN /\ newZones' \subseteq Zones
        /\ moves' \in [Things -> AnyZone \cup {Unset}] /\ edits' \in [Zones -> Edit]
        /\ report' \in {"none", report} /\ done' \in Counts
    BY <1>1, <2>2
  <2> QED BY <2>1, <2>2, <2>3, PageMoves
<1>10. CASE SaveEnds
  <2>1. /\ saving /\ calls = {} /\ moves' = NoMoves /\ edits' = NoEdits /\ newZones' = {}
        /\ report' = (IF failed THEN "failures" ELSE "saved")
        /\ saving' = FALSE /\ reloading' = TRUE
        /\ UNCHANGED <<resource, policy, policies, calls, failed, wanted, touched, done>>
    BY <1>10 DEF SaveEnds
  <2>2. resources' \in [Things -> Resource]
    <3>1. CASE resources' = resources
      BY <1>1, <3>1
    <3>2. CASE resources' = [r \in Things |-> [resource[r] EXCEPT !.relay = resources[r].relay]]
      <4>1. ASSUME NEW r \in Things
            PROVE  [resource[r] EXCEPT !.relay = resources[r].relay] \in Resource
        <5>1. resources[r] \in Resource /\ resource[r] \in Resource
          BY <1>1
        <5> QED BY <5>1 DEF Resource
      <4> QED BY <3>2, <4>1
    <3> QED BY <1>10, <3>1, <3>2 DEF SaveEnds
  <2>3. ZonesTypeOK'
    BY <1>1, <1>4, <2>1, <2>2 DEF ZonesTypeOK
  <2>4. Wanted'
    BY <2>1 DEF ZonesInv, Wanted, AsWanted
  <2>5. SaveHolds' => SaveHolds
    BY <2>1 DEF SaveHolds
  <2>6. Saved => Saved'
    BY <2>1 DEF Saved, PolicySaved, ZoneSaved, RiskSaved, RelaySaved, Left
  <2> QED BY <2>3, <2>4, <2>5, <2>6 DEF ZonesInv
<1>11. ASSUME NEW r \in Things, NEW new \in Resource, OtherEdits(r, new) PROVE ZonesInv'
  <2>1. /\ done.others < MaxOthers /\ done' = [done EXCEPT !.others = @ + 1]
        /\ resource' = [resource EXCEPT ![r] = new] /\ touched' = touched \cup {r}
        /\ UNCHANGED <<policy, resources, policies, reloading, newZones, moves, edits, saving,
                       calls, failed, report, wanted>>
    BY <1>11 DEF OtherEdits
  <2>2. done' \in Counts
    BY <1>1, <1>2, <2>1
  <2>3. ZonesTypeOK'
    BY <1>1, <2>1, <2>2 DEF ZonesInv, ZonesTypeOK
  <2>4. Wanted'
    BY <2>1 DEF ZonesInv, Wanted, AsWanted
  <2>5. SaveHolds' = SaveHolds
    BY <2>1 DEF SaveHolds
  <2>6. ASSUME Saved, NEW s \in Things \ touched' PROVE ZoneSaved(s)' /\ RiskSaved(s)' /\ RelaySaved(s)'
    <3>1. s \in Things \ touched /\ resource'[s] = resource[s]
      BY <1>1, <2>1, <2>6
    <3>2. ZoneSaved(s) /\ RiskSaved(s) /\ RelaySaved(s)
      BY <2>6, <3>1 DEF Saved
    <3> QED BY <2>1, <3>1, <3>2 DEF ZoneSaved, RiskSaved, RelaySaved, Left
  <2>7. Saved => Saved'
    BY <2>1, <2>6 DEF Saved, PolicySaved, Left
  <2> QED BY <2>3, <2>4, <2>5, <2>7 DEF ZonesInv
<1>12. ASSUME NEW c \in calls, SaveCall(c) PROVE ZonesInv'
  BY <1>12, CallMade DEF SaveCall
<1>13. ASSUME NEW c \in calls, SaveCallFails(c) PROVE ZonesInv'
  BY <1>13, CallMade DEF SaveCallFails
<1>14. CASE UNCHANGED zoneVars
  BY <1>1, <1>14, PageMoves DEF zoneVars
<1>15. ASSUME NEW z \in Zones,
              \/ \E v \in Risks : setEdit(z, "risk", v)
              \/ \E v \in Rules \ {NoPolicy} : setEdit(z, "rule", v)
              \/ \E v \in Relays : setEdit(z, "relay", v)
       PROVE  ZonesInv'
  BY <1>7, <1>15
<1> QED
  BY <1>5, <1>6, <1>8, <1>9, <1>10, <1>11, <1>12, <1>13, <1>14, <1>15, SaveStarts, Zenon
  DEF ZonesNext

(* A report without failures is true for any resources, zones and pending   *)
(* changes, whatever is edited while the save runs and whatever others      *)
(* change meanwhile (ZonesPage.jsx save).                                   *)
THEOREM CleanSaveAlways == Spec => []CleanSave
<1>1. Open => ZonesInv
  BY ZonesStart DEF Open
<1>2. ZonesInv /\ [Next]_windowVars => ZonesInv'
  BY ZonesStep, Parts
<1>3. ZonesInv => CleanSave
  <2> SUFFICES ASSUME ZonesInv, report = "saved", ~saving
               PROVE  /\ \A z \in Zones : wanted.edits[z].rule \in {Unset, policy[z]}
                      /\ \A r \in Things \ touched :
                           /\ wanted.moves[r] \in {Unset, resource[r].zone}
                           /\ wanted.zone[r] # NO_ZONE =>
                                /\ wanted.edits[wanted.zone[r]].risk \in {Unset, resource[r].risk}
                                /\ wanted.edits[wanted.zone[r]].relay \in {Unset, resource[r].relay}
    BY DEF CleanSave
  <2>1. calls = {} /\ Saved
    BY DEF ZonesInv, ZonesTypeOK, SaveHolds
  <2>2. \A stage, x : ~Left(stage, x)
    BY <2>1 DEF Left
  <2> QED BY <2>1, <2>2 DEF Saved, PolicySaved, ZoneSaved, RiskSaved, RelaySaved
<1> QED BY <1>1, <1>2, <1>3, PTL DEF Spec

-----------------------------------------------------------------------------
(***************************************************************************)
(* Access of an account.  Every box that a chain still has to change was   *)
(* asked for by a click on the tab of the chain's account, in the          *)
(* direction that the boxes of that click gave.                            *)
(***************************************************************************)
ChangeType ==
  [n : Nat, op : Ops, who : Holders, list : Seq(Targets \cup Profiles), todo : SUBSET Nat,
   ticked : SUBSET (Targets \cup Profiles), step : {"sent", "served", "failed"},
   active : BOOLEAN, got : SUBSET Targets, gotProfiles : SUBSET Profiles]
ScopeTypes ==
  /\ permits \in [Holders -> SUBSET Targets] /\ assigned \in [Holders -> SUBSET Profiles]
  /\ holder \in Holders /\ scope \subseteq Targets /\ profiles \subseteq Profiles
  /\ scopeLoading \in BOOLEAN /\ toggles \in 0 .. MaxToggles /\ changes \subseteq ChangeType
  /\ \A c \in changes : c.todo \subseteq DOMAIN c.list
AskedFor(c) ==
  /\ c.todo # {}
  /\ \A i \in c.todo :
       /\ c.list[i] \in IF c.op = "toggle" THEN Targets ELSE Profiles
       /\ Asked(c.who, c.list[i], c.list[i] \notin c.ticked)
Clicked == \A c \in changes : c.op \in {"toggle", "profile"} => AskedFor(c)
ScopeInv == ScopeTypes /\ Clicked

(* A non-empty set of numbers has a least one.                              *)
LEMMA LeastNumber ==
  ASSUME NEW S \in SUBSET Nat, S # {}
  PROVE  \E i \in S : \A j \in S : i <= j
<1> DEFINE R == {ss \in Nat \X Nat : ss[1] < ss[2]}
<1>1. IsWellFoundedOn(R, Nat)
  BY NatLessThanWellFounded, Zenon DEF OpToRel
<1> HIDE DEF R
<1>2. PICK i \in S : \A j \in S : <<j, i>> \notin R
  BY <1>1, WFMin, Zenon
<1>3. ASSUME NEW j \in S PROVE i <= j
  <2>1. i \in Nat /\ j \in Nat
    OBVIOUS
  <2>2. j < i => <<j, i>> \in R
    BY <2>1 DEF R
  <2> QED BY <1>2, <2>1, <2>2
<1> QED BY <1>3

(* The box whose turn it is was asked for.                                  *)
LEMMA BoxAsked ==
  ASSUME ScopeInv, NEW c \in changes, c.op \in {"toggle", "profile"}
  PROVE  /\ BoxTurn(c) \in c.todo
         /\ Box(c) \in IF c.op = "toggle" THEN Targets ELSE Profiles
         /\ Has(c) => Asked(c.who, Box(c), FALSE)
         /\ ~Has(c) => Asked(c.who, Box(c), TRUE)
<1>1. c.todo \in SUBSET Nat /\ AskedFor(c)
  BY DEF ScopeInv, ScopeTypes, ChangeType, Clicked
<1>2. BoxTurn(c) \in c.todo
  <2>1. \E i \in c.todo : \A j \in c.todo : i <= j
    BY <1>1, LeastNumber DEF AskedFor
  <2> QED BY <2>1, Zenon DEF BoxTurn
<1>3. /\ Box(c) \in IF c.op = "toggle" THEN Targets ELSE Profiles
      /\ Asked(c.who, Box(c), Box(c) \notin c.ticked)
  BY <1>1, <1>2 DEF AskedFor, Box
<1>4. ASSUME Has(c) PROVE Asked(c.who, Box(c), FALSE)
  <2>1. (Box(c) \notin c.ticked) = FALSE
    BY <1>4, Zenon DEF Has
  <2> QED BY <1>3, <2>1, Zenon
<1>5. ASSUME ~Has(c) PROVE Asked(c.who, Box(c), TRUE)
  <2>1. (Box(c) \notin c.ticked) = TRUE
    BY <1>5, Zenon DEF Has
  <2> QED BY <1>3, <2>1, Zenon
<1> QED BY <1>2, <1>3, <1>4, <1>5

(* The tab of the first account is open.                                    *)
LEMMA ScopeStart == ScopeInit => ScopeInv
<1> SUFFICES ASSUME ScopeInit PROVE ScopeInv
  OBVIOUS
<1>1. First \in Holders /\ MaxToggles \in Nat
  BY ScopeAssumption DEF ScopeAssumption
<1> DEFINE c == [n |-> 0, op |-> "load", who |-> First, list |-> <<>>, todo |-> {},
                 ticked |-> {}, step |-> "sent", active |-> TRUE, got |-> {}, gotProfiles |-> {}]
<1>2. c \in ChangeType /\ c.op = "load" /\ c.todo = {}
  BY <1>1 DEF ChangeType, Ops
<1>3. /\ permits = [u \in Holders |-> {}] /\ assigned = [u \in Holders |-> {}]
      /\ holder = First /\ scope = {} /\ profiles = {} /\ scopeLoading = TRUE
      /\ toggles = 0 /\ changes = {c}
  BY DEF ScopeInit
<1> HIDE DEF c
<1>4. ScopeTypes
  BY <1>1, <1>2, <1>3 DEF ScopeTypes
<1>5. Clicked
  BY <1>2, <1>3 DEF Clicked
<1> QED BY <1>4, <1>5 DEF ScopeInv

(* One more request, after a click.                                         *)
LEMMA ScopeClick ==
  ASSUME ScopeInv, NEW d \in ChangeType, d.todo \subseteq DOMAIN d.list, Click,
         changes' = changes \cup {d}, UNCHANGED <<rights, boxes>>, intents \subseteq intents',
         d.op \in {"toggle", "profile"} => AskedFor(d)'
  PROVE  ScopeInv'
<1>1. toggles' \in 0..MaxToggles
  BY ScopeAssumption DEF ScopeAssumption, ScopeInv, ScopeTypes, Click
<1>2. ScopeTypes'
  BY <1>1 DEF ScopeInv, ScopeTypes, rights, boxes
<1>3. \A c \in changes : AskedFor(c) => AskedFor(c)'
  BY DEF AskedFor, Asked
<1>4. Clicked'
  BY <1>3 DEF ScopeInv, Clicked
<1> QED BY <1>2, <1>4 DEF ScopeInv

(* A request is served, or answered, or goes on with the next box.          *)
LEMMA ScopeMoves ==
  ASSUME ScopeInv, NEW c \in changes, NEW ds \in SUBSET ChangeType, Becomes(c, ds),
         UNCHANGED <<holder, toggles, intents>>,
         permits' \in [Holders -> SUBSET Targets], assigned' \in [Holders -> SUBSET Profiles],
         scope' \subseteq Targets, profiles' \subseteq Profiles, scopeLoading' \in BOOLEAN,
         \A d \in ds : /\ d.todo \subseteq c.todo /\ d.list = c.list
                       /\ d.op \in {"toggle", "profile"} =>
                            /\ d.todo # {} /\ d.op = c.op
                            /\ d.who = c.who /\ d.ticked = c.ticked
  PROVE  ScopeInv'
<1>1. changes' = (changes \ {c}) \cup ds
  BY DEF Becomes
<1>2. ScopeTypes'
  BY <1>1 DEF ScopeInv, ScopeTypes
<1>3. ASSUME NEW d \in changes', d.op \in {"toggle", "profile"} PROVE AskedFor(d)'
  <2>1. CASE d \in changes
    BY <1>3, <2>1 DEF ScopeInv, Clicked, AskedFor, Asked
  <2>2. CASE d \in ds
    <3>1. /\ d.todo \subseteq c.todo /\ d.list = c.list /\ d.todo # {} /\ d.op = c.op
          /\ d.who = c.who /\ d.ticked = c.ticked
      BY <1>3, <2>2
    <3>2. AskedFor(c)
      BY <1>3, <3>1 DEF ScopeInv, Clicked
    <3> QED BY <3>1, <3>2 DEF AskedFor, Asked
  <2> QED BY <1>1, <2>1, <2>2
<1>4. Clicked'
  BY <1>3 DEF Clicked
<1> QED BY <1>2, <1>4 DEF ScopeInv

(* A click asks for every box that its request will change.                 *)
LEMMA ScopeClicks ==
  ASSUME ScopeInv, NEW op \in {"toggle", "profile"},
         NEW T, T = IF op = "toggle" THEN Targets ELSE Profiles,
         NEW list \in Seq(T), NEW todo \in SUBSET DOMAIN list, todo # {},
         NEW ticked \in SUBSET T,
         NEW give \in BOOLEAN, NEW wants, Want(wants, give), Click,
         \A i \in todo : list[i] \in wants /\ (list[i] \notin ticked <=> give),
         changes' = changes \cup {BoxRequest(op, holder, list, todo, ticked)},
         UNCHANGED <<rights, boxes>>
  PROVE  ScopeInv'
<1>1. T \subseteq Targets \cup Profiles
  OBVIOUS
<1>2. DOMAIN list \subseteq Nat /\ \A i \in DOMAIN list : list[i] \in T
  OBVIOUS
<1>3. list \in Seq(Targets \cup Profiles)
  BY <1>1
<1>4. holder \in Holders /\ toggles \in Nat
  BY ScopeAssumption DEF ScopeAssumption, ScopeInv, ScopeTypes
<1>5. PICK d \in ChangeType :
        /\ d = BoxRequest(op, holder, list, todo, ticked)
        /\ d.op = op /\ d.who = holder /\ d.list = list /\ d.todo = todo /\ d.ticked = ticked
  <2> DEFINE e == BoxRequest(op, holder, list, todo, ticked)
  <2>1. /\ e.op = op /\ e.who = holder /\ e.list = list /\ e.todo = todo /\ e.ticked = ticked
        /\ e \in ChangeType
    BY <1>1, <1>2, <1>3, <1>4 DEF BoxRequest, ChangeType, Ops
  <2> HIDE DEF e
  <2> QED BY <2>1 DEF e
<1>6. intents' = intents \cup {[who |-> holder, it |-> i, give |-> give] : i \in wants}
  BY DEF Want
<1>7. ASSUME NEW i \in todo PROVE Asked(d.who, d.list[i], d.list[i] \notin d.ticked)'
  <2>1. (list[i] \notin ticked) = give
    BY Zenon
  <2>2. [who |-> holder, it |-> list[i], give |-> give] \in intents'
    BY <1>6
  <2>3. [who |-> holder, it |-> list[i], give |-> list[i] \notin ticked] \in intents'
    BY <2>1, <2>2, Zenon
  <2> QED BY <1>5, <2>3, Zenon DEF Asked
<1>8. AskedFor(d)'
  <2>1. \A i \in todo : list[i] \in T
    BY <1>2
  <2> QED BY <1>5, <1>7, <2>1, Zenon DEF AskedFor
<1>9. changes' = changes \cup {d} /\ intents \subseteq intents' /\ d.todo \subseteq DOMAIN d.list
  BY <1>5, <1>6
<1> QED BY <1>5, <1>8, <1>9, ScopeClick

(* Only a box that was asked for is given or taken.                         *)
LEMMA ServeFollows ==
  ASSUME ScopeInv, NEW c \in changes, ServeBox(c)
  PROVE  /\ permits' \in [Holders -> SUBSET Targets] /\ assigned' \in [Holders -> SUBSET Profiles]
         /\ \A u \in Holders : Follows(permits, permits', u) /\ Follows(assigned, assigned', u)
<1>1. /\ permits \in [Holders -> SUBSET Targets] /\ assigned \in [Holders -> SUBSET Profiles]
      /\ c.who \in Holders
  BY DEF ScopeInv, ScopeTypes, ChangeType
<1>2. /\ permits' = IF c.op = "toggle"
                      THEN [permits EXCEPT ![c.who] = Flip(@, Box(c), Has(c))] ELSE permits
      /\ assigned' = IF c.op = "profile"
                       THEN [assigned EXCEPT ![c.who] = Flip(@, Box(c), Has(c))] ELSE assigned
  BY DEF ServeBox
<1>3. ASSUME NEW f, NEW u PROVE Follows(f, f, u)
  BY DEF Follows
<1>4. CASE c.op = "toggle"
  <2>1. /\ Box(c) \in Targets /\ (Has(c) => Asked(c.who, Box(c), FALSE))
        /\ (~Has(c) => Asked(c.who, Box(c), TRUE))
    BY <1>4, BoxAsked
  <2>2. permits' = [permits EXCEPT ![c.who] = Flip(@, Box(c), Has(c))] /\ assigned' = assigned
    BY <1>2, <1>4
  <2>3. permits'[c.who] = Flip(permits[c.who], Box(c), Has(c))
        /\ \A u \in Holders : u # c.who => permits'[u] = permits[u]
    BY <1>1, <2>2
  <2>4. permits' \in [Holders -> SUBSET Targets]
    BY <1>1, <2>1, <2>2 DEF Flip
  <2>5. Follows(permits, permits', c.who)
    BY <2>1, <2>3 DEF Follows, Flip
  <2>6. \A u \in Holders : Follows(permits, permits', u)
    BY <2>3, <2>5 DEF Follows
  <2> QED BY <1>1, <1>3, <2>2, <2>4, <2>6
<1>5. CASE c.op = "profile"
  <2>1. /\ Box(c) \in Profiles /\ (Has(c) => Asked(c.who, Box(c), FALSE))
        /\ (~Has(c) => Asked(c.who, Box(c), TRUE))
    BY <1>5, BoxAsked
  <2>2. assigned' = [assigned EXCEPT ![c.who] = Flip(@, Box(c), Has(c))] /\ permits' = permits
    BY <1>2, <1>5
  <2>3. assigned'[c.who] = Flip(assigned[c.who], Box(c), Has(c))
        /\ \A u \in Holders : u # c.who => assigned'[u] = assigned[u]
    BY <1>1, <2>2
  <2>4. assigned' \in [Holders -> SUBSET Profiles]
    BY <1>1, <2>1, <2>2 DEF Flip
  <2>5. Follows(assigned, assigned', c.who)
    BY <2>1, <2>3 DEF Follows, Flip
  <2>6. \A u \in Holders : Follows(assigned, assigned', u)
    BY <2>3, <2>5 DEF Follows
  <2> QED BY <1>1, <1>3, <2>2, <2>4, <2>6
<1>6. CASE c.op \notin {"toggle", "profile"}
  BY <1>1, <1>2, <1>3, <1>6
<1> QED BY <1>4, <1>5, <1>6

(* Every step of the tab and of the bastion.                                *)
LEMMA ScopeStep ==
  ASSUME ScopeInv, [ScopeNext]_scopeVars
  PROVE  ScopeInv'
<1>1. /\ permits \in [Holders -> SUBSET Targets] /\ assigned \in [Holders -> SUBSET Profiles]
      /\ holder \in Holders /\ scope \subseteq Targets /\ profiles \subseteq Profiles
      /\ scopeLoading \in BOOLEAN /\ toggles \in 0 .. MaxToggles /\ changes \subseteq ChangeType
      /\ \A c \in changes : c.todo \subseteq DOMAIN c.list
  BY DEF ScopeInv, ScopeTypes
<1>2. MaxToggles \in Nat /\ Groups \subseteq Seq(Targets) /\ <<>> \notin Groups
      /\ Reach \in [Profiles -> SUBSET Targets]
  BY ScopeAssumption DEF ScopeAssumption
<1>3. ASSUME NEW u \in Holders, SelectHolder(u) PROVE ScopeInv'
  <2> DEFINE F(c) == IF c.op = "load" THEN [c EXCEPT !.active = FALSE] ELSE c
             d == BoxRequest("load", u, <<>>, {}, {})
  <2>1. /\ toggles < MaxToggles /\ toggles' = toggles + 1 /\ holder' = u /\ scopeLoading' = TRUE
        /\ changes' = {F(c) : c \in changes} \cup {d}
        /\ UNCHANGED <<permits, assigned, scope, profiles, intents>>
    BY <1>3 DEF SelectHolder, Click, rights
  <2>2. d \in ChangeType /\ d.op = "load" /\ d.todo = {}
    BY <1>1 DEF BoxRequest, ChangeType, Ops
  <2>3. ASSUME NEW c \in changes
        PROVE  /\ F(c) \in ChangeType /\ F(c).todo = c.todo /\ F(c).list = c.list
               /\ F(c).op = c.op /\ (c.op # "load" => F(c) = c)
    BY <1>1 DEF ChangeType
  <2> HIDE DEF F, d
  <2>4. toggles' \in 0..MaxToggles
    BY <1>1, <1>2, <2>1
  <2>5. ScopeTypes'
    BY <1>1, <2>1, <2>2, <2>3, <2>4 DEF ScopeTypes
  <2>6. \A c \in changes' : c.op \in {"toggle", "profile"} => c \in changes
    BY <2>1, <2>2, <2>3
  <2>7. Clicked'
    BY <2>1, <2>6 DEF ScopeInv, Clicked, AskedFor, Asked
  <2> QED BY <2>5, <2>7 DEF ScopeInv
<1>4. ASSUME NEW r \in Targets, toggleResource(r) PROVE ScopeInv'
  <2> DEFINE give == r \notin scope
  <2>1. give \in BOOLEAN
    BY Zenon
  <2>2. <<r>> \in Seq(Targets) /\ {1} \in SUBSET DOMAIN <<r>> /\ {1} # {} /\ <<r>>[1] = r
    OBVIOUS
  <2>3. /\ Click /\ Want({r}, give) /\ UNCHANGED <<rights, boxes>>
        /\ changes' = changes \cup {BoxRequest("toggle", holder, <<r>>, {1}, scope)}
    BY <1>4 DEF toggleResource
  <2> DEFINE list == <<r>>  todo == {1}  wants == {r}
  <2>4. \A i \in todo : list[i] \in wants /\ (list[i] \notin scope <=> give)
    BY <2>2
  <2>5. Targets = IF "toggle" = "toggle" THEN Targets ELSE Profiles
    OBVIOUS
  <2>6. /\ list \in Seq(Targets) /\ todo \in SUBSET DOMAIN list /\ todo # {} /\ Want(wants, give)
        /\ changes' = changes \cup {BoxRequest("toggle", holder, list, todo, scope)}
        /\ Click /\ UNCHANGED <<rights, boxes>>
        /\ scope \in SUBSET Targets /\ "toggle" \in {"toggle", "profile"}
    BY <1>1, <2>2, <2>3
  <2> HIDE DEF give, list, todo, wants
  <2> QED BY <2>1, <2>4, <2>5, <2>6, ScopeClicks, SMTT(60)
<1>5. ASSUME NEW p \in Profiles, toggleProfile(p) PROVE ScopeInv'
  <2> DEFINE give == p \notin profiles
  <2>1. give \in BOOLEAN
    BY Zenon
  <2>2. <<p>> \in Seq(Profiles) /\ {1} \in SUBSET DOMAIN <<p>> /\ {1} # {} /\ <<p>>[1] = p
    OBVIOUS
  <2>3. /\ Click /\ Want({p}, give) /\ UNCHANGED <<rights, boxes>>
        /\ changes' = changes \cup {BoxRequest("profile", holder, <<p>>, {1}, profiles)}
    BY <1>5 DEF toggleProfile
  <2> DEFINE list == <<p>>  todo == {1}  wants == {p}
  <2>4. \A i \in todo : list[i] \in wants /\ (list[i] \notin profiles <=> give)
    BY <2>2
  <2>5. Profiles = IF "profile" = "toggle" THEN Targets ELSE Profiles
    OBVIOUS
  <2>6. /\ list \in Seq(Profiles) /\ todo \in SUBSET DOMAIN list /\ todo # {} /\ Want(wants, give)
        /\ changes' = changes \cup {BoxRequest("profile", holder, list, todo, profiles)}
        /\ Click /\ UNCHANGED <<rights, boxes>>
        /\ profiles \in SUBSET Profiles /\ "profile" \in {"toggle", "profile"}
    BY <1>1, <2>2, <2>3
  <2> HIDE DEF give, list, todo, wants
  <2> QED BY <2>1, <2>4, <2>5, <2>6, ScopeClicks, SMTT(60)
<1>6. ASSUME NEW members \in Groups, toggleZone(members) PROVE ScopeInv'
  <2> DEFINE wants == {members[i] : i \in DOMAIN members}
             allOn == wants \subseteq scope
             turns == {i \in DOMAIN members : allOn = (members[i] \in scope)}
             give == ~allOn
  <2>1. members \in Seq(Targets) /\ members # <<>>
    BY <1>2
  <2>2. /\ Click /\ Want(wants, give) /\ UNCHANGED <<rights, boxes>>
        /\ changes' = changes \cup {BoxRequest("toggle", holder, members, turns, scope)}
    BY <1>6 DEF toggleZone
  <2>3. 1 \in DOMAIN members
    BY <2>1
  <2>4. turns # {}
    <3>1. CASE allOn
      <4>1. members[1] \in scope
        BY <2>3, <3>1
      <4>2. allOn = TRUE /\ (members[1] \in scope) = TRUE
        BY <3>1, <4>1, Zenon
      <4>3. 1 \in turns
        BY <2>3, <4>2, Zenon
      <4> QED BY <4>3
    <3>2. CASE ~allOn
      <4>1. PICK i \in DOMAIN members : members[i] \notin scope
        BY <3>2
      <4>2. allOn = (members[i] \in scope)
        <5>1. allOn \in BOOLEAN
          BY Zenon
        <5> HIDE DEF allOn
        <5> QED BY <3>2, <4>1, <5>1
      <4>3. i \in turns
        BY <4>2, Zenon
      <4> QED BY <4>3
    <3> QED BY <3>1, <3>2
  <2>5. ASSUME NEW i \in turns PROVE members[i] \in wants /\ (members[i] \notin scope <=> give)
    <3>1. i \in DOMAIN members /\ (allOn = (members[i] \in scope))
      BY Zenon
    <3>2. members[i] \in wants
      BY <3>1
    <3> QED BY <3>1, <3>2, Zenon
  <2>6. turns \in SUBSET DOMAIN members /\ give \in BOOLEAN
    BY Zenon
  <2> HIDE DEF wants, give, turns
  <2> QED BY <1>1, <2>1, <2>2, <2>4, <2>5, <2>6, ScopeClicks, SMTT(60)
<1>7. ASSUME NEW c \in changes, ServeBox(c) PROVE ScopeInv'
  <2> DEFINE g == IF c.op \in {"load", "refresh"} THEN get_resource_permissions(c.who) ELSE c.got
             q == IF c.op = "load" THEN assigned[c.who] ELSE c.gotProfiles
             d == [c EXCEPT !.step = "served", !.got = g, !.gotProfiles = q]
  <2>1. Becomes(c, {d}) /\ UNCHANGED <<holder, scope, profiles, scopeLoading, toggles, intents>>
    BY <1>7 DEF ServeBox, boxes
  <2>2. c \in ChangeType /\ c.who \in Holders
    BY <1>1 DEF ChangeType
  <2>3. g \subseteq Targets /\ q \subseteq Profiles
    BY <1>1, <1>2, <2>2 DEF get_resource_permissions, ChangeType
  <2> HIDE DEF g, q
  <2>4. /\ d \in ChangeType /\ d.todo = c.todo /\ d.list = c.list /\ d.op = c.op /\ d.who = c.who
        /\ d.ticked = c.ticked
    BY <2>2, <2>3 DEF ChangeType
  <2> HIDE DEF d
  <2>5. {d} \in SUBSET ChangeType
    BY <2>4
  <2>6. d.op \in {"toggle", "profile"} => d.todo # {}
    BY <2>4 DEF ScopeInv, Clicked, AskedFor
  <2> QED BY <1>1, <1>7, <2>1, <2>4, <2>5, <2>6, ServeFollows, ScopeMoves
<1>8. ASSUME NEW c \in changes, RefuseChange(c) PROVE ScopeInv'
  <2> DEFINE d == [c EXCEPT !.step = "failed"]
  <2>1. Becomes(c, {d}) /\ UNCHANGED <<permits, assigned, holder, scope, profiles, scopeLoading, toggles, intents>>
    BY <1>8 DEF RefuseChange, boxes, rights
  <2>2. /\ d \in ChangeType /\ d.todo = c.todo /\ d.list = c.list /\ d.op = c.op /\ d.who = c.who
        /\ d.ticked = c.ticked
    BY <1>1 DEF ChangeType
  <2> HIDE DEF d
  <2>3. {d} \in SUBSET ChangeType
    BY <2>2
  <2>4. d.op \in {"toggle", "profile"} => d.todo # {}
    BY <2>2 DEF ScopeInv, Clicked, AskedFor
  <2> QED BY <1>1, <2>1, <2>2, <2>3, <2>4, ScopeMoves
<1>9. ASSUME NEW c \in changes
      PROVE  /\ Onward(c) \in SUBSET ChangeType
             /\ \A d \in Onward(c) :
                  /\ d.todo \subseteq c.todo /\ d.list = c.list /\ d.todo # {}
                  /\ d.op = c.op /\ d.who = c.who /\ d.ticked = c.ticked
  <2> DEFINE e == [c EXCEPT !.todo = @ \ {BoxTurn(c)}, !.step = "sent"]
  <2>1. CASE \E i \in c.todo : i # BoxTurn(c)
    <3>1. Onward(c) = {e}
      BY <2>1 DEF Onward
    <3>2. /\ e \in ChangeType /\ e.todo = c.todo \ {BoxTurn(c)} /\ e.list = c.list /\ e.op = c.op
          /\ e.who = c.who /\ e.ticked = c.ticked
      BY <1>1 DEF ChangeType
    <3> HIDE DEF e
    <3> QED BY <2>1, <3>1, <3>2
  <2>2. CASE ~\E i \in c.todo : i # BoxTurn(c)
    BY <2>2 DEF Onward
  <2> QED BY <2>1, <2>2
<1>10. ASSUME NEW c \in changes, ToggleDone(c) PROVE ScopeInv'
  <2>1. /\ Becomes(c, Onward(c)) /\ scope' = Flip(scope, Box(c), Has(c)) /\ c.op = "toggle"
        /\ UNCHANGED <<permits, assigned, holder, profiles, scopeLoading, toggles, intents>>
    BY <1>10 DEF ToggleDone, rights
  <2>2. Box(c) \in Targets
    BY <2>1, BoxAsked
  <2>3. scope' \subseteq Targets
    BY <1>1, <2>1, <2>2 DEF Flip
  <2> QED BY <1>1, <1>9, <2>1, <2>3, ScopeMoves
<1>11. ASSUME NEW c \in changes, ProfileDone(c) PROVE ScopeInv'
  <2> DEFINE d == [c EXCEPT !.op = "refresh", !.todo = {}, !.step = "sent"]
  <2>1. /\ Becomes(c, {d}) /\ profiles' = Flip(profiles, Box(c), Has(c)) /\ c.op = "profile"
        /\ UNCHANGED <<permits, assigned, holder, scope, scopeLoading, toggles, intents>>
    BY <1>11 DEF ProfileDone, rights
  <2>2. Box(c) \in Profiles
    BY <2>1, BoxAsked
  <2>3. profiles' \subseteq Profiles
    BY <1>1, <2>1, <2>2 DEF Flip
  <2>4. d \in ChangeType /\ d.todo = {} /\ d.list = c.list /\ d.op = "refresh"
    BY <1>1 DEF ChangeType, Ops
  <2> HIDE DEF d
  <2>5. {d} \in SUBSET ChangeType
    BY <2>4
  <2> QED BY <1>1, <2>1, <2>3, <2>4, <2>5, ScopeMoves
<1>12. ASSUME NEW c \in changes, RefreshDone(c) PROVE ScopeInv'
  <2>1. /\ Becomes(c, {}) /\ scope' = c.got
        /\ UNCHANGED <<permits, assigned, holder, profiles, scopeLoading, toggles, intents>>
    BY <1>12 DEF RefreshDone, rights
  <2>2. c.got \subseteq Targets /\ {} \in SUBSET ChangeType
    BY <1>1 DEF ChangeType
  <2> QED BY <1>1, <2>1, <2>2, ScopeMoves
<1>13. ASSUME NEW c \in changes, LoadDone(c) PROVE ScopeInv'
  <2>1. /\ Becomes(c, {}) /\ UNCHANGED <<permits, assigned, holder, toggles, intents>>
        /\ \/ scope' = c.got /\ profiles' = c.gotProfiles /\ scopeLoading' = FALSE
           \/ UNCHANGED <<scope, profiles, scopeLoading>>
    BY <1>13, Zenon DEF LoadDone, rights
  <2>2. c.got \subseteq Targets /\ c.gotProfiles \subseteq Profiles /\ {} \in SUBSET ChangeType
    BY <1>1 DEF ChangeType
  <2>3. scope' \subseteq Targets /\ profiles' \subseteq Profiles /\ scopeLoading' \in BOOLEAN
    BY <1>1, <2>1, <2>2
  <2> QED BY <1>1, <2>1, <2>2, <2>3, ScopeMoves
<1>14. ASSUME NEW c \in changes, ChangeFailed(c) PROVE ScopeInv'
  <2>1. /\ Becomes(c, Onward(c)) /\ scopeLoading' = (scopeLoading /\ ~(c.op = "load" /\ c.active))
        /\ UNCHANGED <<permits, assigned, holder, scope, profiles, toggles, intents>>
    BY <1>14 DEF ChangeFailed, rights
  <2>2. scopeLoading' \in BOOLEAN
    BY <2>1, Zenon
  <2> QED BY <1>1, <1>9, <2>1, <2>2, ScopeMoves
<1>15. CASE UNCHANGED scopeVars
  BY <1>15 DEF ScopeInv, ScopeTypes, Clicked, AskedFor, Asked, scopeVars, rights, boxes
<1> QED
  BY <1>3, <1>4, <1>5, <1>6, <1>7, <1>8, <1>10, <1>11, <1>12, <1>13, <1>14, <1>15, Zenon
  DEF ScopeNext

(* An account gains or loses a resource or a profile only as a click on its *)
(* own tab asked for, for any accounts, resources, zones and profiles and   *)
(* any order of requests and answers (UsersAdmin.jsx AccessTab; routes.cc,  *)
(* the resources and access profiles of a user).                            *)
THEOREM OnlyAsClickedAlways == Spec => OnlyAsClicked
<1> DEFINE A == \A u \in Holders :
                  Follows(permits, permits', u) /\ Follows(assigned, assigned', u)
<1>1. Open => ScopeInv
  BY ScopeStart DEF Open
<1>2. ScopeInv /\ [Next]_windowVars => ScopeInv'
  BY ScopeStep, Parts
<1>3. ScopeInv /\ [Next]_windowVars => [A]_scopeVars
  <2> SUFFICES ASSUME ScopeInv, [ScopeNext]_scopeVars PROVE [A]_scopeVars
    BY Parts
  <2>1. CASE UNCHANGED rights
    BY <2>1 DEF rights, Follows
  <2>2. ASSUME NEW c \in changes, ServeBox(c) PROVE A
    BY <2>2, ServeFollows
  <2>3. CASE \E u \in Holders : SelectHolder(u)
    BY <2>1, <2>3, Zenon DEF SelectHolder
  <2>4. CASE \/ \E r \in Targets : toggleResource(r)
             \/ \E members \in Groups : toggleZone(members)
             \/ \E p \in Profiles : toggleProfile(p)
    BY <2>1, <2>4, Zenon DEF toggleResource, toggleZone, toggleProfile
  <2>5. CASE \E c \in changes : RefuseChange(c) \/ ToggleDone(c) \/ ProfileDone(c)
    BY <2>1, <2>5, Zenon DEF RefuseChange, ToggleDone, ProfileDone
  <2>6. CASE \E c \in changes : RefreshDone(c) \/ LoadDone(c) \/ ChangeFailed(c)
    BY <2>1, <2>6, Zenon DEF RefreshDone, LoadDone, ChangeFailed
  <2> HIDE DEF A
  <2> QED BY <2>2, <2>3, <2>4, <2>5, <2>6, Zenon DEF ScopeNext
<1> QED BY <1>1, <1>2, <1>3, PTL DEF Spec, OnlyAsClicked
-----------------------------------------------------------------------------
(***************************************************************************)
(* Types of every window.  The invariants above hold most of them; left    *)
(* are what the files dialog shows, what lies on the target and the bounds *)
(* of the window of an isolated browser.                                   *)
(***************************************************************************)
DialogTypes ==
  /\ progress \in BOOLEAN /\ loading \in BOOLEAN /\ sftp \in BOOLEAN
  /\ loads \in [Dirs -> 0 .. MaxLoads] /\ sweeps \in 0 .. MaxSweeps
BastionTypes ==
  /\ target \in [Dirs \X Docs -> Content] /\ staged \in [SendIds -> Seq(Nat)]
  /\ written \in [SendIds \X Docs -> Content]
WithinFile == \A s \in SendIds : sends[s].off <= Size[sends[s].doc]
TransferTyped == TransferInv /\ DialogTypes /\ BastionTypes /\ WithinFile

(* The types of the files dialog, by parts.                                 *)
LEMMA TransferParts == TransferTyped => TransferTypeOK
BY Zenon DEF TransferTyped, TransferInv, TransferTypes, DialogTypes, BastionTypes, WithinFile,
   TransferTypeOK

(* The dialog lists the home folder.                                        *)
LEMMA TransferTypesStart == TransferInit => TransferTyped
<1> SUFFICES ASSUME TransferInit PROVE TransferTyped
  OBVIOUS
<1>1. TransferInv
  BY TransferStart
<1>2. DialogTypes
  <2>1. /\ progress = FALSE /\ sftp = TRUE /\ loading = TRUE
        /\ loads = [d \in Dirs |-> IF d = Home THEN 1 ELSE 0] /\ sweeps = 0
    BY Zenon DEF TransferInit
  <2>2. 0 \in 0 .. MaxSweeps /\ 0 \in 0 .. MaxLoads /\ 1 \in 0 .. MaxLoads
    BY TransferAssumption DEF TransferAssumption
  <2>3. loads \in [Dirs -> 0 .. MaxLoads]
    BY <2>1, <2>2
  <2> QED BY <2>1, <2>2, <2>3, Zenon DEF DialogTypes
<1>3. <<>> \in Seq(Nat) /\ <<0>> \in Seq(Nat)
  OBVIOUS
<1>4. Absent \in Content /\ [has |-> TRUE, data |-> <<0>>] \in Content
  BY <1>3 DEF Absent, Content
<1>5. BastionTypes
  BY <1>3, <1>4 DEF TransferInit, BastionTypes
<1>6. Idle.off = 0 /\ Idle.doc \in Docs
  BY TransferAssumption DEF TransferAssumption, Idle
<1>7. WithinFile
  BY <1>6, TransferAssumption DEF TransferAssumption, TransferInit, WithinFile
<1> QED BY <1>1, <1>2, <1>5, <1>7 DEF TransferTyped

(* A folder is asked for.                                                   *)
LEMMA FolderAsked ==
  ASSUME DialogTypes, NEW d \in Dirs, MayLoad(d), Ask(d)
  PROVE  loads' \in [Dirs -> 0 .. MaxLoads] /\ loading' \in BOOLEAN
BY TransferAssumption DEF TransferAssumption, DialogTypes, MayLoad, Ask

(* What the loop shows when it ends or goes on with another file.           *)
LEMMA LoopShows ==
  ASSUME DialogTypes, NEW s \in SendIds, NEW r \in SendType,
         LoopEnds(s, r) \/ \E f \in Docs : sendFile(s, r, f)
  PROVE  /\ loads' \in [Dirs -> 0 .. MaxLoads] /\ loading' \in BOOLEAN /\ progress' \in BOOLEAN
         /\ staged' = staged \/ staged' = [staged EXCEPT ![s] = <<>>]
<1>1. /\ loads \in [Dirs -> 0 .. MaxLoads] /\ loading \in BOOLEAN /\ r.dir \in Dirs
  BY DEF DialogTypes, SendType
<1>2. CASE LoopEnds(s, r)
  <2>1. progress' = FALSE /\ staged' = staged
    BY <1>2 DEF LoopEnds
  <2>2. UNCHANGED <<loads, loading>> \/ (MayLoad(r.dir) /\ Ask(r.dir))
    BY <1>2 DEF LoopEnds
  <2>3. loads' \in [Dirs -> 0 .. MaxLoads] /\ loading' \in BOOLEAN
    BY <1>1, <2>2, FolderAsked
  <2> QED BY <2>1, <2>3
<1>3. ASSUME NEW f \in Docs, sendFile(s, r, f), ~LoopEnds(s, r)
      PROVE  /\ progress' = TRUE /\ staged' = [staged EXCEPT ![s] = <<>>]
             /\ UNCHANGED <<loads, loading>>
  BY <1>3, Zenon DEF sendFile
<1> QED BY <1>1, <1>2, <1>3

(* The answer to a chunk, and what the dialog shows of it.                  *)
LEMMA ResultShows ==
  ASSUME TransferInv, DialogTypes, NEW s \in SendIds, ChunkResult(s)
  PROVE  /\ loads' \in [Dirs -> 0 .. MaxLoads] /\ loading' \in BOOLEAN /\ progress' \in BOOLEAN
         /\ staged' = staged \/ staged' = [staged EXCEPT ![s] = <<>>]
<1> DEFINE r == sends[s]
<1>1. r \in SendType /\ r.rest \subseteq Docs
  BY DEF TransferInv, TransferTypes, SendType
<1>2. /\ loads \in [Dirs -> 0 .. MaxLoads] /\ loading \in BOOLEAN /\ progress \in BOOLEAN
  BY DEF DialogTypes
<1>3. \/ NextChunk(s, r) \/ Uploaded(s, r) \/ Exists(s, r) \/ Resync(s, r) \/ LoopEnds(s, r)
  BY Zenon DEF ChunkResult
<1> HIDE DEF r
<1>4. CASE NextChunk(s, r)
  <2>1. progress' = TRUE /\ UNCHANGED <<staged, loads, loading>>
    BY <1>4, Zenon DEF NextChunk
  <2> QED BY <1>2, <2>1
<1>5. CASE Resync(s, r)
  <2>1. UNCHANGED <<staged, progress, loads, loading>>
    BY <1>5, Zenon DEF Resync
  <2> QED BY <1>2, <2>1
<1>6. CASE LoopEnds(s, r) \/ \E f \in Docs : sendFile(s, r, f)
  BY <1>1, <1>6, LoopShows
<1>7. CASE Uploaded(s, r)
  <2>1. LoopEnds(s, r) \/ \E f \in Docs : sendFile(s, r, f)
    BY <1>1, <1>7, Zenon DEF Uploaded
  <2> QED BY <1>6, <2>1
<1>8. CASE Exists(s, r)
  <2>1. \/ LoopEnds(s, r)
        \/ progress' = FALSE /\ staged' = [staged EXCEPT ![s] = <<>>] /\ UNCHANGED <<loads, loading>>
    BY <1>8, Zenon DEF Exists
  <2> QED BY <1>2, <1>6, <2>1
<1> QED BY <1>3, <1>4, <1>5, <1>6, <1>7, <1>8

(* Every step keeps what the dialog shows.                                  *)
LEMMA DialogStep ==
  ASSUME TransferInv, DialogTypes, [TransferNext]_transferVars
  PROVE  DialogTypes'
<1>1. /\ progress \in BOOLEAN /\ loading \in BOOLEAN /\ sftp \in BOOLEAN
      /\ loads \in [Dirs -> 0 .. MaxLoads] /\ sweeps \in 0 .. MaxSweeps /\ MaxLoads \in Nat
      /\ MaxSweeps \in Nat
  BY TransferAssumption DEF TransferAssumption, DialogTypes
<1>2. ASSUME UNCHANGED <<progress, dialog, sweeps>> PROVE DialogTypes'
  BY <1>2 DEF DialogTypes, dialog
<1>3. CASE UNCHANGED transferVars
  <2>1. UNCHANGED <<progress, dialog, sweeps>>
    BY <1>3, Zenon DEF transferVars, bastion
  <2> QED BY <1>2, <2>1
<1>4. ASSUME NEW d \in Dirs, load(d) PROVE DialogTypes'
  <2>1. MayLoad(d) /\ Ask(d) /\ UNCHANGED <<progress, sftp, sweeps>>
    BY <1>4, Zenon DEF load, bastion
  <2>2. loads' \in [Dirs -> 0 .. MaxLoads] /\ loading' \in BOOLEAN
    BY <2>1, FolderAsked
  <2> QED BY <1>1, <2>1, <2>2 DEF DialogTypes
<1>5. ASSUME NEW d \in Dirs, LoadAnswer(d) PROVE DialogTypes'
  <2>1. /\ d \in Listed /\ loads' = [loads EXCEPT ![d] = @ - 1] /\ loading' = FALSE
        /\ sftp' = sftp \/ sftp' \in BOOLEAN
        /\ UNCHANGED <<progress, sweeps>>
    BY <1>5, Zenon DEF LoadAnswer, bastion
  <2>2. loads' \in [Dirs -> 0 .. MaxLoads]
    BY <1>1, <2>1 DEF Listed
  <2> QED BY <1>1, <2>1, <2>2 DEF DialogTypes
<1>6. ASSUME NEW s \in SendIds, NEW chosen \in SUBSET Docs, sendFiles(s, chosen)
      PROVE  DialogTypes'
  <2> DEFINE r == [Idle EXCEPT !.rest = chosen, !.dir = cwd.dir]
  <2>1. r \in SendType
    <3>1. sends[s] = Idle
      BY <1>6 DEF sendFiles
    <3>2. Idle \in SendType /\ cwd.dir \in Dirs
      BY <3>1 DEF TransferInv, TransferTypes
    <3> QED BY <3>2 DEF SendType
  <2>2. (\E f \in Docs : sendFile(s, r, f)) /\ UNCHANGED <<sweeps, sftp>>
    BY <1>6, Zenon DEF sendFiles
  <2> HIDE DEF r
  <2>3. loads' \in [Dirs -> 0 .. MaxLoads] /\ loading' \in BOOLEAN /\ progress' \in BOOLEAN
    BY <2>1, <2>2, LoopShows
  <2> QED BY <1>1, <2>2, <2>3 DEF DialogTypes
<1>7. ASSUME NEW s \in SendIds, ChunkResult(s) PROVE DialogTypes'
  <2>1. UNCHANGED <<sweeps, sftp>>
    BY <1>7, Zenon DEF ChunkResult
  <2>2. loads' \in [Dirs -> 0 .. MaxLoads] /\ loading' \in BOOLEAN /\ progress' \in BOOLEAN
    BY <1>7, ResultShows
  <2> QED BY <1>1, <2>1, <2>2 DEF DialogTypes
<1>8. ASSUME NEW s \in SendIds, upload_chunk(s) \/ ChunkFails(s) PROVE DialogTypes'
  <2>1. UNCHANGED <<progress, dialog, sweeps>>
    BY <1>8, Zenon DEF upload_chunk, ChunkFails
  <2> QED BY <1>2, <2>1
<1>9. ASSUME NEW s \in SendIds, sweep_staging(s) PROVE DialogTypes'
  <2>1. sweeps < MaxSweeps /\ sweeps' = sweeps + 1 /\ UNCHANGED <<progress, dialog>>
    BY <1>9, Zenon DEF sweep_staging
  <2>2. sweeps' \in 0 .. MaxSweeps
    BY <1>1, <2>1
  <2> QED BY <1>1, <2>1, <2>2 DEF DialogTypes, dialog
<1> QED BY <1>3, <1>4, <1>5, <1>6, <1>7, <1>8, <1>9, Zenon DEF TransferNext

(* Every step keeps what is staged and written a sequence of chunks.        *)
LEMMA BastionStep ==
  ASSUME TransferInv, DialogTypes, BastionTypes, [TransferNext]_transferVars
  PROVE  BastionTypes'
<1>1. /\ target \in [Dirs \X Docs -> Content] /\ staged \in [SendIds -> Seq(Nat)]
      /\ written \in [SendIds \X Docs -> Content] /\ sends \in [SendIds -> SendType]
      /\ <<>> \in Seq(Nat)
  BY DEF BastionTypes, TransferInv, TransferTypes
<1>2. ASSUME UNCHANGED <<target, written>>, NEW s \in SendIds, NEW data \in Seq(Nat),
             staged' = staged \/ staged' = [staged EXCEPT ![s] = data]
      PROVE  BastionTypes'
  <2>1. staged' \in [SendIds -> Seq(Nat)]
    BY <1>1, <1>2
  <2> QED BY <1>1, <1>2, <2>1 DEF BastionTypes
<1>3. ASSUME UNCHANGED bastion, UNCHANGED written PROVE BastionTypes'
  BY <1>1, <1>3 DEF BastionTypes, bastion
<1>4. CASE UNCHANGED transferVars
  BY <1>3, <1>4, Zenon DEF transferVars
<1>5. ASSUME NEW d \in Dirs, load(d) \/ LoadAnswer(d) PROVE BastionTypes'
  BY <1>3, <1>5, Zenon DEF load, LoadAnswer
<1>6. ASSUME NEW s \in SendIds, NEW chosen \in SUBSET Docs, sendFiles(s, chosen)
      PROVE  BastionTypes'
  <2> DEFINE r == [Idle EXCEPT !.rest = chosen, !.dir = cwd.dir]
  <2>1. PICK f \in Docs : sendFile(s, r, f)
    BY <1>6, Zenon DEF sendFiles
  <2>2. UNCHANGED <<target, written>>
    BY <1>6, Zenon DEF sendFiles
  <2> HIDE DEF r
  <2>3. staged' = staged \/ staged' = [staged EXCEPT ![s] = <<>>]
    BY <2>1, Zenon DEF sendFile, LoopEnds
  <2> QED BY <1>1, <1>2, <2>2, <2>3
<1>7. ASSUME NEW s \in SendIds, ChunkResult(s) PROVE BastionTypes'
  <2>1. UNCHANGED <<target, written>>
    BY <1>7, Zenon DEF ChunkResult
  <2>2. staged' = staged \/ staged' = [staged EXCEPT ![s] = <<>>]
    BY <1>7, ResultShows
  <2> QED BY <1>1, <1>2, <2>1, <2>2
<1>8. ASSUME NEW s \in SendIds, ChunkFails(s) \/ sweep_staging(s) PROVE BastionTypes'
  <2>1. UNCHANGED <<target, written>> /\ staged' = [staged EXCEPT ![s] = <<>>]
    BY <1>8, Zenon DEF ChunkFails, sweep_staging, Stage
  <2> QED BY <1>1, <1>2, <2>1
<1>9. ASSUME NEW s \in SendIds, upload_chunk(s) PROVE BastionTypes'
  <2> DEFINE r == sends[s]
             had == IF r.off = 0 THEN <<>> ELSE staged[s]
             add == Appended(s, had)
  <2>1. had \in Seq(Nat) /\ r.off \in Nat /\ r.off + 1 \in Nat
    BY <1>1 DEF SendType
  <2>2. add \in Seq(Nat)
    <3>1. Append(had, r.off + 1) \in Seq(Nat)
      BY <2>1
    <3> QED BY <2>1, <3>1 DEF Appended
  <2>3. Where(s) \in Dirs \X Docs /\ <<s, r.doc>> \in SendIds \X Docs
    BY <1>1 DEF Where, SendType
  <2>4. \/ Stage(s, <<>>) /\ UNCHANGED <<target, written>>
        \/ UNCHANGED <<target, staged, written>>
        \/ Stage(s, add) /\ UNCHANGED <<target, written>>
        \/ Stage(s, <<>>) /\ Push(s, add)
    BY <1>9, Zenon DEF upload_chunk
  <2> HIDE DEF r, had, add
  <2>5. CASE Stage(s, <<>>) /\ Push(s, add)
    <3>1. \A d \in Seq(Nat) : [has |-> TRUE, data |-> d] \in Content
      BY DEF Content
    <3>2. \/ UNCHANGED target
          \/ \E d \in Seq(Nat) : target' = [target EXCEPT ![Where(s)] = [has |-> TRUE, data |-> d]]
      BY <1>1, <2>2, <2>5 DEF Push
    <3>3. \/ UNCHANGED written
          \/ written' = [written EXCEPT ![<<s, r.doc>>] = [has |-> TRUE, data |-> add]]
      BY <2>5, Zenon DEF Push, r
    <3>4. target' \in [Dirs \X Docs -> Content]
      BY <1>1, <2>3, <3>1, <3>2
    <3>5. written' \in [SendIds \X Docs -> Content]
      BY <1>1, <2>2, <2>3, <3>1, <3>3
    <3>6. staged' \in [SendIds -> Seq(Nat)]
      BY <1>1, <2>5 DEF Stage
    <3> QED BY <3>4, <3>5, <3>6 DEF BastionTypes
  <2> QED BY <1>1, <1>2, <2>2, <2>4, <2>5 DEF Stage
<1> QED BY <1>4, <1>5, <1>6, <1>7, <1>8, <1>9, Zenon DEF TransferNext

(* Every step keeps a send within its file, also one that is over.          *)
LEMMA WithinStep ==
  ASSUME TransferInv, WithinFile, TransferInv', [TransferNext]_transferVars
  PROVE  WithinFile'
<1>1. /\ sends \in [SendIds -> SendType] /\ sends' \in [SendIds -> SendType]
      /\ \A f \in Docs : Size[f] \in Nat
  BY TransferAssumption DEF TransferAssumption, TransferInv, TransferTypes
<1>2. ASSUME NEW o \in SendIds, sends'[o].st \in {"sent", "got"}
      PROVE  sends'[o].off <= Size[sends'[o].doc]
  <2>1. SendHolds(sends'[o], staged'[o])
    BY DEF TransferInv
  <2>2. sends'[o].doc \in Docs /\ Short(sends'[o].off, sends'[o].doc)
    BY <1>2, <2>1 DEF SendHolds
  <2> QED BY <1>1, <2>2 DEF Short
<1>3. ASSUME NEW s \in SendIds, NEW r \in SendType, sends' = [sends EXCEPT ![s] = r],
             r.st \in {"sent", "got"} \/ r.off <= Size[r.doc]
      PROVE  WithinFile'
  <2> SUFFICES ASSUME NEW o \in SendIds PROVE sends'[o].off <= Size[sends'[o].doc]
    BY DEF WithinFile
  <2>1. CASE o = s
    <3>1. sends'[o] = r
      BY <1>1, <1>3, <2>1
    <3> QED BY <1>2, <1>3, <3>1
  <2>2. CASE o # s
    BY <1>1, <1>3, <2>2 DEF WithinFile
  <2> QED BY <2>1, <2>2
<1>4. ASSUME UNCHANGED sends PROVE WithinFile'
  BY <1>4 DEF WithinFile
<1>5. ASSUME NEW s \in SendIds, NEW r \in SendType, r.off <= Size[r.doc],
             LoopEnds(s, r) \/ \E f \in Docs : sendFile(s, r, f)
      PROVE  WithinFile'
  <2>1. CASE LoopEnds(s, r)
    <3> DEFINE q == [r EXCEPT !.st = "over", !.ans = "none"]
    <3>1. q \in SendType /\ q.off = r.off /\ q.doc = r.doc
      BY DEF SendType
    <3>2. sends' = [sends EXCEPT ![s] = q]
      BY <2>1, Zenon DEF LoopEnds
    <3> HIDE DEF q
    <3> QED BY <1>3, <1>5, <3>1, <3>2
  <2>2. ASSUME NEW f \in Docs, sendFile(s, r, f), ~LoopEnds(s, r) PROVE WithinFile'
    <3> DEFINE q == [r EXCEPT !.st = "sent", !.doc = f, !.rest = r.rest \ {f}, !.off = 0,
                              !.over = FALSE]
    <3>1. q \in SendType /\ q.st = "sent"
      BY DEF SendType
    <3>2. sends' = [sends EXCEPT ![s] = q]
      BY <2>2, Zenon DEF sendFile
    <3> HIDE DEF q
    <3> QED BY <1>3, <3>1, <3>2
  <2> QED BY <1>5, <2>1, <2>2
<1>6. CASE UNCHANGED transferVars
  BY <1>4, <1>6, Zenon DEF transferVars
<1>7. ASSUME NEW d \in Dirs, load(d) \/ LoadAnswer(d) PROVE WithinFile'
  BY <1>4, <1>7, Zenon DEF load, LoadAnswer
<1>8. ASSUME NEW s \in SendIds, NEW chosen \in SUBSET Docs, sendFiles(s, chosen)
      PROVE  WithinFile'
  <2> DEFINE r == [Idle EXCEPT !.rest = chosen, !.dir = cwd.dir]
  <2>1. r \in SendType /\ r.off <= Size[r.doc]
    <3>1. sends[s] = Idle
      BY <1>8 DEF sendFiles
    <3>2. Idle \in SendType /\ cwd.dir \in Dirs /\ Idle.off <= Size[Idle.doc]
      BY <3>1 DEF TransferInv, TransferTypes, WithinFile
    <3> QED BY <3>2 DEF SendType
  <2>2. \E f \in Docs : sendFile(s, r, f)
    BY <1>8, Zenon DEF sendFiles
  <2> HIDE DEF r
  <2> QED BY <1>5, <2>1, <2>2
<1>9. ASSUME NEW s \in SendIds, ChunkResult(s) PROVE WithinFile'
  <2> DEFINE r == sends[s]
  <2>1. /\ r \in SendType /\ r.off <= Size[r.doc] /\ r.rest \subseteq Docs /\ r.off + 1 \in Nat
    BY <1>1 DEF SendType, WithinFile
  <2>2. ASSUME NEW q \in {[r EXCEPT !.st = "sent", !.off = r.off + 1],
                          [r EXCEPT !.st = "sent", !.off = r.expected],
                          [r EXCEPT !.st = "sent", !.off = 0, !.over = TRUE]}
        PROVE  q \in SendType /\ q.st = "sent"
    <3>1. CASE q = [r EXCEPT !.st = "sent", !.off = r.off + 1]
      BY <2>1, <3>1 DEF SendType
    <3>2. CASE q = [r EXCEPT !.st = "sent", !.off = r.expected]
      BY <2>1, <3>2 DEF SendType
    <3>3. CASE q = [r EXCEPT !.st = "sent", !.off = 0, !.over = TRUE]
      BY <2>1, <3>3 DEF SendType
    <3> QED BY <2>2, <3>1, <3>2, <3>3, Zenon
  <2>3. \/ sends' = [sends EXCEPT ![s] = [r EXCEPT !.st = "sent", !.off = r.off + 1]]
        \/ sends' = [sends EXCEPT ![s] = [r EXCEPT !.st = "sent", !.off = r.expected]]
        \/ sends' = [sends EXCEPT ![s] = [r EXCEPT !.st = "sent", !.off = 0, !.over = TRUE]]
        \/ LoopEnds(s, r)
        \/ \E f \in Docs : sendFile(s, r, f)
    BY <1>9, <2>1, Zenon DEF ChunkResult, NextChunk, Uploaded, Exists, Resync
  <2> HIDE DEF r
  <2>4. CASE \E q \in SendType : q.st = "sent" /\ sends' = [sends EXCEPT ![s] = q]
    BY <1>3, <2>4
  <2>5. CASE LoopEnds(s, r) \/ \E f \in Docs : sendFile(s, r, f)
    BY <1>5, <2>1, <2>5
  <2> QED BY <2>2, <2>3, <2>4, <2>5, Zenon
<1>10. ASSUME NEW s \in SendIds, NEW a, NEW e, Answer(s, a, e) PROVE WithinFile'
  <2> SUFFICES ASSUME NEW o \in SendIds PROVE sends'[o].off <= Size[sends'[o].doc]
    BY DEF WithinFile
  <2>1. sends'[o].off = sends[o].off /\ sends'[o].doc = sends[o].doc
    <3>1. sends' = [sends EXCEPT ![s] = [sends[s] EXCEPT !.st = "got", !.ans = a, !.expected = e]]
      BY <1>1, <1>10 DEF Answer, SendType
    <3> QED BY <1>1, <3>1 DEF SendType
  <2> QED BY <2>1 DEF WithinFile
<1>11. ASSUME NEW s \in SendIds, upload_chunk(s) \/ ChunkFails(s) PROVE WithinFile'
  <2>1. \E a, e : Answer(s, a, e)
    BY <1>11, Zenon DEF upload_chunk, ChunkFails, Push
  <2> QED BY <1>10, <2>1
<1>12. ASSUME NEW s \in SendIds, sweep_staging(s) PROVE WithinFile'
  BY <1>4, <1>12, Zenon DEF sweep_staging
<1> QED BY <1>6, <1>7, <1>8, <1>9, <1>11, <1>12, Zenon DEF TransferNext

(* Every step of the files dialog keeps its types.                          *)
LEMMA TransferTypesStep ==
  ASSUME TransferTyped, [TransferNext]_transferVars
  PROVE  TransferTyped'
<1>1. TransferInv /\ DialogTypes /\ BastionTypes /\ WithinFile
  BY DEF TransferTyped
<1>2. TransferInv'
  BY <1>1, TransferStep
<1>3. DialogTypes'
  BY <1>1, DialogStep
<1>4. BastionTypes'
  BY <1>1, BastionStep
<1>5. WithinFile'
  BY <1>1, <1>2, WithinStep
<1> QED BY <1>2, <1>3, <1>4, <1>5 DEF TransferTyped

(* The window of an isolated browser: its flags, and its bounds.            *)
ViewerBounds ==
  /\ status \in {"connecting", "connected", "disconnected", "error"}
  /\ fileTransfer \in BOOLEAN /\ probed \in BOOLEAN /\ picker \in BOOLEAN
  /\ uploadId \in 1 .. MaxPapers + 1 /\ refused \subseteq Dialogs
  /\ failures \in [n : 0 .. MaxFailures, torn : BOOLEAN]
ViewerTyped == ViewerInv /\ ViewerBounds

(* The types of that window, by parts.                                      *)
LEMMA ViewerParts == ViewerTyped => ViewerTypeOK
<1> SUFFICES ASSUME ViewerTyped PROVE ViewerTypeOK
  OBVIOUS
<1>1. /\ incoming \in IncomingType /\ incoming.id < uploadId /\ uploadId \in 1 .. MaxPapers + 1
      /\ MaxPapers \in Nat
  BY ViewerAssumption
     DEF ViewerAssumption, ViewerTyped, ViewerInv, ViewerTypes, Receiving, ViewerBounds
<1>2. incoming.id \in 0 .. MaxPapers
  BY <1>1 DEF IncomingType
<1>3. incoming \in [active : BOOLEAN, open : BOOLEAN, id : 0 .. MaxPapers, paper : Papers,
                    dialog : Dialogs, written : Seq(Papers \X (Nat \ {0}))]
  BY <1>1, <1>2 DEF IncomingType
<1> QED
  BY <1>3, Zenon DEF ViewerTypeOK, ViewerTyped, ViewerBounds, ViewerInv, ViewerTypes, SendingType

(* The window connects.                                                     *)
LEMMA ViewerTypesStart == ViewerInit => ViewerTyped
<1> SUFFICES ASSUME ViewerInit PROVE ViewerTyped
  OBVIOUS
<1>1. ViewerInv
  BY ViewerStart
<1>2. ViewerBounds
  <2>1. /\ status = "connecting" /\ fileTransfer = TRUE /\ probed = FALSE /\ picker = FALSE
        /\ uploadId = 1 /\ refused = {} /\ failures = [n |-> 0, torn |-> FALSE]
    BY Zenon DEF ViewerInit
  <2>2. 1 \in 1 .. MaxPapers + 1 /\ 0 \in 0 .. MaxFailures
    BY ViewerAssumption DEF ViewerAssumption
  <2>3. failures \in [n : 0 .. MaxFailures, torn : BOOLEAN]
    BY <2>1, <2>2
  <2> QED BY <2>1, <2>2, <2>3 DEF ViewerBounds
<1> QED BY <1>1, <1>2 DEF ViewerTyped

(* uploadFile keeps the bounds on uploads and failures.                     *)
LEMMA UploadBounds ==
  ASSUME ViewerTyped, NEW p, NEW g, uploadFile(p, g)
  PROVE  /\ uploadId' \in 1 .. MaxPapers + 1
         /\ failures' \in [n : 0 .. MaxFailures, torn : BOOLEAN]
<1>1. /\ uploadId \in 1 .. MaxPapers + 1 /\ failures \in [n : 0 .. MaxFailures, torn : BOOLEAN]
      /\ MaxPapers \in Nat /\ MaxFailures \in Nat /\ incoming.active \in BOOLEAN
  BY ViewerAssumption
     DEF ViewerAssumption, ViewerTyped, ViewerBounds, ViewerInv, ViewerTypes, IncomingType
<1>2. \/ UNCHANGED uploadId
      \/ uploadId <= MaxPapers /\ uploadId' = uploadId + 1
  BY Zenon DEF uploadFile
<1>3. \/ UNCHANGED failures
      \/ /\ failures.n < MaxFailures
         /\ failures' = [n |-> failures.n + 1, torn |-> failures.torn \/ incoming.active]
  BY Zenon DEF uploadFile
<1>4. uploadId' \in 1 .. MaxPapers + 1
  BY <1>1, <1>2
<1>5. failures.n + 1 \in 0 .. MaxFailures \/ ~(failures.n < MaxFailures)
  BY <1>1
<1>6. failures' \in [n : 0 .. MaxFailures, torn : BOOLEAN]
  BY <1>1, <1>3, <1>5
<1> QED BY <1>4, <1>6

(* Every step of that window keeps its types.                               *)
LEMMA ViewerTypesStep ==
  ASSUME ViewerTyped, [ViewerNext]_viewerVars
  PROVE  ViewerTyped'
<1>1. ViewerInv'
  BY ViewerStep DEF ViewerTyped
<1>2. /\ status \in {"connecting", "connected", "disconnected", "error"}
      /\ fileTransfer \in BOOLEAN /\ probed \in BOOLEAN /\ picker \in BOOLEAN
      /\ uploadId \in 1 .. MaxPapers + 1 /\ refused \subseteq Dialogs
      /\ failures \in [n : 0 .. MaxFailures, torn : BOOLEAN]
      /\ pendingDialog \in Dialogs /\ incoming.dialog \in Dialogs
  BY DEF ViewerTyped, ViewerBounds, ViewerInv, ViewerTypes, IncomingType
<1>3. ViewerBounds'
  <2>1. CASE \/ SocketOpens \/ UNCHANGED viewerVars \/ \E u \in sending : SendPiece(u) \/ StopsSending(u)
    <3>1. UNCHANGED <<status, fileTransfer, probed, picker, uploadId, refused, failures>>
      BY <2>1, Zenon DEF SocketOpens, viewerVars, chooser, remote, SendPiece, StopsSending
    <3> QED BY <1>2, <3>1 DEF ViewerBounds
  <2>2. CASE ViewerMessage \/ ViewerCloses
    <3>1. /\ UNCHANGED <<fileTransfer, probed, picker, uploadId, refused, failures>>
          /\ status' \in {"connecting", "connected", "disconnected", "error"}
      <4>1. UNCHANGED <<fileTransfer, probed, picker, uploadId, refused, failures>>
        BY <2>2, Zenon DEF ViewerMessage, ViewerCloses, chooser, remote
      <4>2. status' \in {"connecting", "connected", "disconnected", "error"}
        BY <2>2 DEF ViewerMessage, ViewerCloses
      <4> QED BY <4>1, <4>2
    <3> QED BY <1>2, <3>1 DEF ViewerBounds
  <2>3. CASE ProbeAnswer
    <3>1. /\ probed' = TRUE /\ fileTransfer' \in BOOLEAN
          /\ UNCHANGED <<status, picker, uploadId, refused, failures>>
      BY <2>3, Zenon DEF ProbeAnswer, chooser, remote
    <3> QED BY <1>2, <3>1 DEF ViewerBounds
  <2>4. CASE triggerFilePicker
    <3>1. /\ picker' = TRUE
          /\ UNCHANGED <<status, fileTransfer, probed, uploadId, refused, failures>>
      BY <2>4, Zenon DEF triggerFilePicker, remote
    <3> QED BY <1>2, <3>1 DEF ViewerBounds
  <2>5. CASE onFileInputCancel
    <3>1. /\ picker' = FALSE
          /\ UNCHANGED <<status, fileTransfer, probed, uploadId, failures>>
          /\ refused' = refused \/ refused' = refused \cup {pendingDialog}
      BY <2>5, Zenon DEF onFileInputCancel
    <3>2. refused' \subseteq Dialogs
      BY <1>2, <3>1
    <3> QED BY <1>2, <3>1, <3>2 DEF ViewerBounds
  <2>6. ASSUME NEW p \in Papers, DropFile(p) PROVE ViewerBounds'
    <3>1. /\ uploadFile(p, 0) /\ UNCHANGED <<status, fileTransfer, probed, picker, refused>>
      BY <2>6, Zenon DEF DropFile, chooser
    <3>2. /\ uploadId' \in 1 .. MaxPapers + 1
          /\ failures' \in [n : 0 .. MaxFailures, torn : BOOLEAN]
      BY <3>1, UploadBounds
    <3> QED BY <1>2, <3>1, <3>2 DEF ViewerBounds
  <2>7. ASSUME NEW p \in Papers, onFileInputChange(p) PROVE ViewerBounds'
    <3>1. /\ uploadFile(p, pendingDialog) /\ picker' = FALSE
          /\ UNCHANGED <<status, fileTransfer, probed, refused>>
      BY <2>7, Zenon DEF onFileInputChange
    <3>2. /\ uploadId' \in 1 .. MaxPapers + 1
          /\ failures' \in [n : 0 .. MaxFailures, torn : BOOLEAN]
      BY <3>1, UploadBounds
    <3> QED BY <1>2, <3>1, <3>2 DEF ViewerBounds
  <2>8. ASSUME NEW u \in sending, SliceFails(u) PROVE ViewerBounds'
    <3>1. /\ failures.n < MaxFailures /\ failures' = [failures EXCEPT !.n = @ + 1]
          /\ UNCHANGED <<status, fileTransfer, probed, picker, uploadId>>
      BY <2>8, Zenon DEF SliceFails, chooser
    <3>2. failures' \in [n : 0 .. MaxFailures, torn : BOOLEAN]
      BY <1>2, <3>1, ViewerAssumption DEF ViewerAssumption
    <3>3. refused' = refused \/ refused' = refused \cup {incoming.dialog} \/ refused' = refused \cup {}
      BY <2>8, Zenon DEF SliceFails, Cancel
    <3>4. refused' \subseteq Dialogs
      BY <1>2, <3>3
    <3> QED BY <1>2, <3>1, <3>2, <3>4 DEF ViewerBounds
  <2> QED BY <2>1, <2>2, <2>3, <2>4, <2>5, <2>6, <2>7, <2>8, Zenon DEF ViewerNext
<1> QED BY <1>1, <1>3 DEF ViewerTyped

(* Access of an account: its types are among the parts of its invariant.    *)
LEMMA ScopeParts == ScopeInv => ScopeTypeOK
BY DEF ScopeInv, ScopeTypes, ScopeTypeOK, ChangeType

(* Whichever window of the console is open, its state keeps to the values   *)
(* its code gives it: WindowsTypeOK, for any sets of files, accounts, keys, *)
(* zones and queries.                                                       *)
THEOREM WindowsTypesAlways == Spec => []WindowsTypeOK
<1> DEFINE Types == /\ DriveInv /\ TransferTyped /\ ViewerTyped /\ Asking /\ UsersTypeOK
                    /\ ScopeInv /\ ZonesInv /\ FactorsTyped /\ window \in Windows
<1>1. Open => Types
  BY DriveStart, TransferTypesStart, ViewerTypesStart, ListsStart, UsersStart, ScopeStart,
     ZonesStart, FactorsStart, Zenon DEF Open, UsersInv, FactorsInv
<1>2. Types /\ [Next]_windowVars => Types'
  <2> SUFFICES ASSUME Types, [Next]_windowVars PROVE Types'
    OBVIOUS
  <2>1. DriveInv' /\ TransferTyped' /\ ViewerTyped'
    BY Parts, DriveStep, TransferTypesStep, ViewerTypesStep, Zenon
  <2>2. Asking' /\ UsersTypeOK'
    BY Parts, ListsStep, UsersTypes, Zenon
  <2>3. ScopeInv' /\ ZonesInv' /\ FactorsTyped'
    BY Parts, ScopeStep, ZonesStep, FactorsTypes, Zenon
  <2>4. window' = window
    BY Zenon DEF Next, windowVars
  <2> QED BY <2>1, <2>2, <2>3, <2>4
<1>3. Types => WindowsTypeOK
  <2> SUFFICES ASSUME Types PROVE WindowsTypeOK
    OBVIOUS
  <2>1. DriveTypeOK /\ TransferTypeOK /\ ViewerTypeOK
    BY DriveParts, TransferParts, ViewerParts
  <2>2. ListsTypeOK /\ UsersTypeOK /\ ScopeTypeOK /\ ZonesTypeOK /\ FactorsTypeOK
    BY ScopeParts DEF Asking, ZonesInv, FactorsTyped
  <2> QED BY <2>1, <2>2 DEF WindowsTypeOK, Windows
<1> HIDE DEF Types
<1> QED BY <1>1, <1>2, <1>3, PTL DEF Spec
=============================================================================
