# EndoriumFort: formal models

TLA+ models of the parts of EndoriumFort (Community Edition) in which threads,
asynchronous answers, restarts and failures meet, TLC configurations that check
them on small instances, and TLAPS proofs of what matters most for every
instance.

## The system

EndoriumFort is a privileged-access bastion: one C++17 process (Crow, many HTTP
and websocket threads, state in an `AppContext` guarded by about twenty
mutexes, rows in SQLite or PostgreSQL), a Go service for file shares, and a
React console whose state lives in one component (`App.jsx`), in the module
state of `api.js` and in the browser's storages.

| Component | State | Operations | What is hard |
|---|---|---|---|
| SSH terminals (`ssh.cc`) | `ctx.ws_connections`, `g_detached`, one `SshConnection` per websocket, timer threads, remembered identities | open, start, resume, close, grace timer, reader end, terminate | five kinds of threads hand the same shell to one another; handlers release a lock and go on with what they read |
| SSH output (`ssh.cc`, `session_recording.cc`) | backlog, attached client, recorder and its row, shadow watchers | read, record, deliver, broadcast, replay, close | replay against live output; a backlog at its limit; two shells on one session |
| Audit log (`app_context.cc`) | active file, archives, head of the hash chain | append, rotate, purge, restart, verify | failed and torn writes, restarts after a rotation, same-second archives, changes to the file |
| Console: sign-in and navigation (`App.jsx`, `api.js`) | the token three times (React, `api.js`, `localStorage`), path, first-login state, loaded lists | sign in with a password, code or passkey, sign out, expire, 401, reload, setup, load | answers in any order, also after the account has changed; a 1.5 s debounce of 401s; another tab |
| Console: terminal (`App.jsx`, `SessionsPage.jsx`) | session on screen, xterm, socket, password, auto-connect, resume | open, lease, connect, retry, resume, socket events, reload | answers and close events that belong to the session or socket before |
| Console: access and agent (`App.jsx`, `MapPage.jsx`, dialogs) | access dialog, playbooks, requests, viewers, agent dialog | connect, preview, submit, request, review, launch | what a dialog shows and what an answer was for may be two things; a tab opened in advance |
| Console: security feed (`App.jsx`) | cursor, counts, toasts, incident, case | poll, count, open and close a case, terminate suspects | the effect is restarted by what it stores |
| Console: windows (drive, files dialog, isolated browser, lists, accounts, access, zones, second factors) | each its own | see "Modules" | uploads, pages, checks and saves in several steps, any of which fails or comes late |
| Sessions and access decision (`routes.cc`, `app_context.cc`) | `ctx.sessions`, rows, grants | open, terminate, reload | memory and database updated in separate steps, each may fail |
| Tokens, login guard, API tokens, credential leases | `auth_sessions`, `rate_limit_map`, leases | login, check, invalidate, sweep, consume | a token is copied, then checked against an account that changes |
| SSH command guard, HTTP proxy, remote browser processes, license, settings, metrics, reporting | buffers, processes, files and rows | input, proxy, reap, load, query | reassembly of typed lines; caps; clock rollback |

Server components talk to each other by calls under locks: a terminal calls
`terminate_session`, the terminate route calls `close_ssh_for_session`, and
everything calls `append_audit`. The console talks to the server by requests
that are answered in any order, late or never, and to itself through React
state and effects. `PROJECT.json` lists every component, with the ones that are
not modelled and why, and the hazards of the code at their lines.

Correctness, per component: a shell is disconnected by exactly one thread,
never under its reader, only its own account takes it back, it does not wait
forever, and ending a session ends it and nothing else; no output is lost for a
terminal, a watcher or the recording; an untouched audit log verifies and a
changed one does not. The console acts with one token, shows data of the
account that is signed in, feeds the terminal from one socket, opens a session
with the details and the approval given for its resource, counts a security
event once, and changes what the user clicked on, whatever arrives meanwhile.

## Modules

### Server

**`SshSession`** is the life of SSH terminals. Its variables are the maps of the
code (`status`, `identity`, `ws_connections`, `g_detached`), the `SshConnection`
objects (`shell`), and one program counter per thread: `io` for the websocket
handlers, `shell[h].reader` for reader threads, `timers` for grace timers,
`admin` for terminate requests. An action is what one thread does in one
critical section together with the local work around it:

| Actions | Code |
|---|---|
| `OnOpen`, `Start` | `onaccept`, `onopen`, the checks of `"start"` |
| `TakeDetached`, `RefuseResume`, `NothingDetached` | the lookup in `g_detached` |
| `ResumeRegister`, `ResumeReplay` | attaching a terminal to a kept shell |
| `Connect`, `ConnectFail`, `Register`, `Attach`, `StartReader` | starting a new shell |
| `OnCloseUnknown`, `OnCloseKeep`, `OnCloseEnd`, `Detach`, `ArmTimer`, `CloseJoin` | `onclose` |
| `ReadEnd`, `ReaderStop`, `ReaderTerminate`, `TellClient` | the end of a reader thread |
| `TimerExpire`, `TimerReturn`, `TimerTerminate`, `TimerJoin` | the grace timer thread |
| `Terminate`, `Collect`, `CloseNext`, `CloseJoined`, `CloseNone`, `CloseDetached`, `JoinDetached` | the terminate route and `close_ssh_for_session` |

`ssh_disconnect` is two steps: clear `running`, then (once the reader thread has
ended) free the channel. `onclose` unregisters the websocket, clears `client`
and reads `running` in one step: once it has unregistered the websocket only the
shell's own reader can still act on the shell, and the reader never looks at the
registration. `shell[h].detachments` and `timers[..].nth` are history: they
count detachments and are read by no action's guard.

**`SshOutput`** is what happens to the bytes a shell prints. A byte is its
position in the output, so "nothing lost, repeated or reordered" is an
arithmetic fact about sequences. It is a separate module because none of it
changes who owns a shell.

**`AuditLog`** is the hash chain. A MAC is an injective operator (`Mac` appends
the event to the history it covers), so two lines have the same hash only if
they have the same history. A line is one step: everything runs under
`audit_mutex`. Writes can fail or be torn, a torn line swallows the next one, a
rename can fail, and a restart (also one in the middle of an append: a torn
write followed by a restart) seeds the head from the file. The actions `EditLine`,
`RemoveLine` and `Truncate` are somebody without the key who changes the active
file, once.

### Console

JavaScript runs one callback at a time, so an action of these modules is one
callback: an event handler up to its first `await`, or what follows an `await`
once the answer is there, together with the React state it sets and the effects
that follow from it. A request that is under way is a record in a set, and any
record of the set may be answered next, fail, or wait. Where the console
depends on what the server does between a request and its answer, the handler
of the server is part of the module, in as many steps as it takes locks.

**`ConsoleAuth`** is one tab: the token in `auth`, `authToken` and `saved`, the
path, the sign-in form, the first-login dialog, and the lists that effects of
the token load. `Unauthorized` and `notifyUnauthorized` are the 401 path with
its debounce; `onLogin`, `onLoginWithPasskey`, `onLogout`, `onChangePassword`
and `onAddFactor` are the second halves of the handlers of those names;
`OtherTab` is another tab of the same browser.

**`ConsoleTerminal`** is the SSH terminal: `openTerminal`, the effects that
build xterm (`TerminalEffect`, `ImportDone`), connect (`AutoConnect`) and resume
(`ResumeEffect`), `connectTerminal` with its 150 ms retry, leases, and the four
events of a socket, old sockets included.

**`ConsoleAccess`** follows a click on a resource: `accessNeeds`, the access
dialog and its playbooks, `connectToResource`, `POST /api/sessions` with its
checks, access requests and their review, the tab opened in advance, viewers
and the launch of the agent.

**`ConsoleAlerts`** is the live security feed: `Interval`, `Answer`, `Restart`
(the effect is cleaned up and run again), the incident and its case, toasts
with their caps, and the termination of suspects.

**`ConsoleWindows`** composes eight modules, each a window with its own state,
of which one is open at a time:

| Module | Window | With |
|---|---|---|
| `ConsoleDrive` | the drive of a file share (`FileShareApp.jsx`): tickets, cookie, renewal timer, folders, uploads and conflicts, dialogs, shares | the handlers of the Go service |
| `ConsoleTransfer` | files dialog of an SSH session | `upload_chunk`, `sweep_staging` |
| `ConsoleViewer` | uploads to an isolated browser | the websocket handler of `rbi.cc` |
| `ConsoleLists` | journal, reports, events of a session, rules of a resource | the audit log's pages |
| `ConsoleUsers` | accounts | the account routes in three steps: rights, memory, row |
| `ConsoleScope` | resources and profiles of an account | the permission routes |
| `ConsoleZones` | zones, their moves, policies and relays | one call per change, each may fail |
| `ConsoleFactors` | second factors, in two tabs | check and change of the factor routes |

**`Listing`** is the abstract specification of a list: it shows nothing, rows of
an earlier query until the first answer to the present one, or rows of the
present query, and more rows only continue the ones on screen. `ConsoleLists`
implements it with the mapping `query <- query, shown <- items`
(`ShowsWhatIsAsked`).

`MCSshSession`, `MCSshOutput` and the `MCConsole...` modules give constants
their values. The modules whose names end in `Proofs` hold the proofs about the
module before that word.

## Runs

| Run | Checks | Bounds |
|---|---|---|
| `ssh_safety` | `TypeOK`, `OneOwner`, `OrderlyEnd`, `RightShell`, `DetachedTable` | 1 session, 3 websockets (one of another account with the same user name), 1 terminate thread; 2.5 million states |
| `ssh_liveness` | `DetachedLeaves`, `TerminateReturns`, `EndedShellEndsSession` | 1 session, 2 websockets, 1 terminate thread |
| `ssh_output` | `TypeOK`, `Transcript`, `Recordings` | 2 shells (3 bytes and 1 byte), backlog of 2 bytes, chunks of 1 or 2, 3 pages, 1 watcher |
| `audit_log` | `TypeOK`, `VerdictIsRight`, `ChainIsKept` | 7 events, files of 3 lines, 1 legacy line, 3 seconds, retention of 1 second |
| `ssh_full_grace`, `ssh_no_orphan`, `audit_truncated` | one claim each, refuted | as above |
| `console_auth` | `TypeOK`, `TokensAgree`, `StaysSignedOut`, `FreshLists`, `RevokedLeaves` | 1 account that owes both first-login steps, 2 tokens, 2 pages, 1 list, 2 requests; 0.5 million states |
| `console_terminal` | `PasswordForItsSession`, `OneSocket`, `LiveIsOnScreen`, `AutoConnects` | 2 sessions, 2 sockets, 1 retry |
| `console_access` | `DetailsForResource`, `ApprovedAccess`, `NoBlankTab`, `LaunchSettles` | 2 resources, 3 kinds of account, 2 calls, 1 session, 1 request |
| `console_alerts` | `CountedOnce`, `QuietSignedOut`, `NothingSkipped`, `CriticalStays` | 3 events (2 critical), 2 polls, 2 profiles |
| `console_windows` | `WindowsTypeOK` and one property per window: `UploadsKeepFiles`, `UploadedIsWhole`, `GivenIsWhole`, `ShowsWhatIsAsked`, `AdminRemains`, `OnlyAsClicked`, `CleanSave`, `FactorRemains` | two of everything, and the bounds below; 2.6 million states |

Why these bounds are enough for the interesting cases. Three websockets are a
shell, its resumption, and a third party (a second shell of the session, or the
other account), so overwriting in `g_detached`, resuming twice and a stale timer
all happen; "another session" of `RightShell` is, with one session, a shell that
has none yet. A backlog of two bytes overflows, is cut with and without a line
feed, and is replayed twice; seven events fill two archives and a third file, so
that archives are overwritten and purged. Symmetry is used for websockets of the
same account and for pages, and only in runs without liveness properties. In
`SshSession` a websocket is opened at most once and a terminate thread may serve
any number of requests; there is no other bound.

Two tokens (`MaxTokens`) and two unanswered requests when a third is sent
(`MaxCalls`; polls and the loaders of a sign-in are not bounded) let every answer
of one sign-in arrive during the next, or after it. Two sessions, of which one
gets its secret by a lease and one by hand, and two sockets (`MaxSockets`) make
every answer and close event reach the wrong session or socket. Two resources,
two calls, one session and one request (`ConsoleAccess`) mix up dialogs,
approvals and tabs; the accounts are with and without the JIT licence and the
right to manage. Three events, two polls and a threshold of two (`ConsoleAlerts`)
count twice, overlap and overflow the caps.

In `ConsoleWindows`: one upload, two chains of calls, two clicks and two timers
in the drive (an upload, its renewal and a move to another folder); two loops of
two chunks in the files dialog, one swept; two of three files (one over the cap,
one empty), two dialogs and one failure in the viewer; four searches with three
calls unanswered over three events in pages of one row; three requests of two
administrators; three clicks on the boxes of two accounts; three edits, one save
and one change by somebody else in the zones; three requests of two tabs and two
secrets for the factors. `TooLarge` is empty: the branch of a file over
`maxUploadMb` in the files dialog is not exercised.

Deadlock is checked in all runs but `console_windows`, whose windows end (a drive
or a viewer is closed, a dialog has sent its files) and whose bounds run out.

Fairness. `Fairness` in `SshSession` is weak, per thread: a handler that is
running finishes, a websocket the server closed gets its `onclose`, a reader
that was told to stop or left its loop ends (the channel is non-blocking and
polled every 12 ms, so the loop looks at `running` again), a sleeping timer
wakes up, a terminate request goes on. Nothing is assumed of users, who may
never come back, nor of the remote host, which may never end a shell. In
`ConsoleAuth` the statistics are polled every 15 s (`setInterval`), 1.5 s pass,
and a request with the refused token that the tab keeps sending is answered
outside the debounce at some time: that is strong fairness, since the debounce
can disable it again and again. In `ConsoleTerminal` the import of xterm ends,
effects run and closed sockets say so; in `ConsoleAccess` the 1.6 s
timer of a launch fires. Users, leases and the target owe nothing.

## What the checks show

The ownership protocol of the shells holds. `ssh_disconnect` takes no lock, and
the reason that is sound is that whoever calls it has first taken the shell out
of `ws_connections` or `g_detached`; `OneOwner` states this and it is both
checked and proved. Output reaches terminals, watchers and recordings without
gaps. An untouched audit log verifies across restarts and rotations as long as
its lines could be written, and edits or removals inside it are reported for as
long as the file is active.

In the console the copies of the token never part, and stale answers are kept
out by the `active` flags and request numbers of the effects. Several properties
hold only because the server checks again what the console may get wrong: the
dialog may send the approval of another resource (`ApprovedAccess`), the list of
accounts may be old (`AdminRemains`). Some are stated with the exception the
code has, so that the rest can be checked:

- `CountedOnce` is about polls that do not overlap: two polls of one effect
  under way at once count an event twice.
- `AutoConnects` leaves out the terminal of an object that is already on screen
  (`Frozen`): `openTerminal` clears `terminalReady` and nothing sets it again.
- `AdminRemains` leaves out an account that is counted as an administrator while
  it is created and taken back because its row could not be written.
- `GivenIsWhole` leaves out the upload under way when the next one cannot be
  staged, and says nothing of a file that another one replaced: it is lost.
- `FactorRemains` is checked for handlers that do not overlap. With
  `Overlapping = TRUE` TLC finds an administrator without a factor (a key and
  the authenticator app removed at once, each check seeing the other).

Three statements of the repository do not hold (`findings` in `PROJECT.json`):

- *A detached shell waits its grace period.* The timer compares only the shell,
  so the timer of an earlier detachment ends a shell that was resumed and
  detached again (`FullGrace`).
- *Detached shells are kept so that they can be resumed.* A second terminal of
  the same session that is closed overwrites the first in `g_detached`; the first
  shell runs on out of reach of resume, timer and terminate (`NoOrphan`).
- *The audit chain detects truncation.* Nothing records where the log ends, so
  cutting off the last lines is not reported (`TruncationDetected`).

`IdentityOnlyWhileActive` in `SshSession` is a fourth one that TLC refutes (a
terminate request between the check of the session and
`remember_ssh_identity`); it has no run of its own. A behaviour no text of the
repository speaks of: a resume takes a running shell, its reader ends and finds
no browser to tell, and the resume then attaches the browser to the ended shell.
The session is terminated, but the page learns of it only when it closes.

## Proofs

Each theorem holds for arbitrary constants: any sets of sessions, websockets,
accounts and resources, any sizes, caps and bounds. What is assumed of the
constants is the named `ASSUME` of the module that declares them, which TLC
evaluates on its instance: that "no value" constants are not values, that counts
are natural numbers, that tables have the domains the code gives them. Two were
found missing by the proofs: the lists of `ConsoleAuth` are not named like its
requests, and there are zones, risks and files to choose (`ConsoleZones`,
`ConsoleTransfer`, `ConsoleViewer`), for otherwise the initial values are
undefined. No proof uses fairness.

Hardly any property is inductive: it says what must not happen at the end, and
what a handler relies on is what another one did several steps earlier. Below is
what each proof adds, and why.

`SshSessionProofs`:

- `TypesAlways` (`TypeOK`). A handler writes to the session or the shell it
  holds, so `Typing` adds what each thread holds at each point of its handler
  (`Holding`).
- `OneOwnerAlways` (`OneOwner`). One lemma per kind of step: every step only
  drops owners of a shell or hands it from one owner to another (`HandsOver`),
  which never turns one owner into two. The exception is `OnOpen`, which gives a
  new shell its first owner; `Ownership` adds that a shell nobody opened has no
  owner (`FreshUnowned`).
- `OrderlyEndAlways` (`OrderlyEnd`, that is `ReaderHasChannel` and
  `JoinedIsStopped`). The two go together: nobody frees a channel under a reader
  because whoever is about to free a shell has told it to stop. `Channels` adds
  that a running shell has its channel open and that a handler that may still
  start its shell is that shell's owner. The last needs `OneOwner`: without it
  another thread could be about to free the shell when `ssh_connect` sets
  `running` again. `JoinedIsStopped` is the safety half of `TerminateReturns`:
  with it, all that a join needs is that a reader told to stop takes its next
  steps.
- `RightShellAlways`, `DetachedTableAlways` (`RightShell`, `DetachedTable`).
  Handlers check who may have a shell and drop every lock before they attach the
  websocket. `Custody` says what is still true then: what was checked
  (`Checked`), that a shell's session is set once (`NewShells`), that a shell
  about to be attached cannot come into `g_detached` or other hands
  (`AboutToAttach`), and that a shell on its way from or to `g_detached` has no
  browser (`HandsEmpty`).

`SshOutputProofs`:

- `OutputTypesAlways`, `TranscriptAlways`, `RecordingsAlways` (`TypeOK`,
  `Transcript`, `Recordings`). The invariant `Story` says of every place a byte
  can be (chunk just read, backlog, page, watcher, recorder) which run of the
  output it holds and where the run ends, so that each hand-over joins two
  adjacent runs.

`AuditLogProofs`:

- `LogTypesAlways`, `VerdictAlways`, `ChainAlways` (`TypeOK`, `VerdictIsRight`,
  `ChainIsKept`). The invariant `Log` relates the head in memory to the last line
  that can be read back, and every line to the one before it, across a torn line,
  a failed rename and a restart; what the verifier says of the whole file then
  follows from its first broken link.

`ConsoleAuthProofs`:

- `AuthTypesAlways`, `TokensAgreeAlways`, `StaysSignedOutAlways`,
  `FreshListsAlways` (the last an action property). `Signed` adds which token
  every request under way was sent with, that tokens are given out once, and
  that a signed-out token is in no place from which it could be saved again.

`ConsoleTerminalProofs`:

- `PasswordForItsSessionAlways`, `OneSocketAlways`, `LiveIsOnScreenAlways`.
  `Terminal` adds that sockets have ids of their own (`Sockets`; below the bound
  there is a free one, by counting), that a password meets the automatic
  connection of the session on screen only when it is for that session
  (`PasswordKept`: true although neither `openTerminal` nor a lease looks at the
  other's session), and that a socket in use is of the session on screen unless
  the retry timer opened it (`OnScreen`).

`ConsoleAccessProofs`:

- `DetailsAlways`, `ApprovedAccessAlways`, `NoBlankTabAlways`. `Access` says of
  every call under way, of the dialog, the playbooks and the requests that what
  they hold is of their own resource (`Fits`, `PromptRight`, `BooksRight`,
  `RequestsRight`); a request keeps its resource once it is filed (`Kept`), which
  is what a preview relies on that is answered after the list was loaded again.
  The request a `create` call sends is not covered, and is in fact sometimes of
  another resource: `ApprovedAccess` holds by the server's check alone.

`ConsoleAlertsProofs`:

- `CountedOnceAlways`, `QuietSignedOutAlways`, `NothingSkippedAlways`. `Feed`
  adds that every poll starts where an answer was handled (`PollsKnown`), that
  without overlap there is one poll, which starts at the cursor, and only events
  up to the cursor are counted (`Alone`), and that a tab that is signed out has
  no poll (`NoPolls`).
- `CriticalStaysAlways` (an action property). Of at least *k* events the cap *k*
  keeps *k* (`TopIsFull`), and the caps keep the newest critical ones whatever
  the warnings (`CappedCritical`). The existence of a newest and of a last toast
  comes from the well-foundedness of `<` on the natural numbers (`Least`).

`ConsoleWindowsProofs`, one invariant per window; the lemma `Parts` says that a
step of the composition is a step of one window:

- `UploadsKeepFilesAlways` (action property of the drive). `DriveInv`: at most
  one chain carries an upload, and it knows the item, whether Replace was chosen
  and what the service met there (`Carriers`); uploaded content lies in its
  folder (`Landed`).
- `UploadedIsWholeAlways` (files dialog). `TransferInv`: what is staged is the
  first chunks of the file and never all of them, `done` is only answered after
  the whole was written, and nothing else writes that file of that send.
- `AdminRemainsAlways` (accounts). `UsersInv`: types, finitely many
  administrators, and the property itself, because the last check and the change
  are one step under the lock.
- `FactorRemainsAlways` (second factors), for `Overlapping = FALSE`: a request
  that was checked is still allowed when it is applied (`StillAllowed`). With
  overlapping handlers the statement is false, as TLC shows.
- `ListsImplementListing` (lists): `ConsoleLists` refines `Listing`. `Asking`:
  the only pending call with the present number asks the present query
  (`Current`), and rows, cursor and events that were purged stand in order
  (`Bottom`).
- `GivenIsWholeAlways` (isolated browser). `ViewerInv`: uploads under way have
  their own ids, and the one the bastion receives has exactly the pieces its
  sender has sent (`Receiving`).
- `CleanSaveAlways` (zones). `ZonesInv`: every change that was asked and is not
  stored has a call under way (`Wanted`), unless a call failed.
- `OnlyAsClickedAlways` (access of an account, action property). `ScopeInv`:
  what a chain of requests is still to do was clicked, for that account
  (`Clicked`).
- `WindowsTypesAlways` (`WindowsTypeOK`). The invariants above hold most of the
  types. `TransferTyped` adds what the files dialog shows, what lies on the target
  and that a send stays within its file, for which what `TransferInv` says of the
  staged chunks and offsets is needed; `ViewerTyped` adds the flags and bounds of
  the isolated browser.

The proofs changed the model in three places. `Piece` (`ConsoleViewer`) had a
`CASE` with overlapping guards, which left the outcome open where the code's
order decides it. A chain of changes in `ConsoleScope` holds its list and the
places still to do, as the code's loop does, instead of a filtered sequence. The
types of `ConsoleTransfer` bound an offset by the size of its own file, instead of
bounding everything by the largest file.

Every invariant and action property of the passing runs has a theorem. Only
model-checked: liveness (`DetachedLeaves`, `TerminateReturns`,
`EndedShellEndsSession`, `RevokedLeaves`, `AutoConnects`, `LaunchSettles`), because
fairness and `ENABLED` are out of the prover's reach.

## Not modelled

Server: typed input, resize and the command guard (`ssh.cc:690-786`), which touch
no state shared with other threads except the channel, which belongs to libssh2.
A page that sends `"start"` again on a websocket whose shell has already ended,
which the console never does: the model's `Start` requires that no reader was
started. The choice of credential in `"start"`, which only decides between
`Connect` and `ConnectFail`. Database rows of sessions and the rest of
`terminate_session` (grants, session events, behaviour statistics). Clocks that
run backwards in `AuditLog`.

Console: translations, texts, layout and drawing; forms that send one request
and show its answer (resources, settings, license, API tokens); pixels, input
and downloads of the isolated browser; the containment switch; shadow viewing
(`openShadow` uses `Terminal` and `FitAddon`, which `App.jsx` imports nowhere at
the top level, so its observer stays at "connecting"); sign-in through an
identity provider, which leaves the page. Wall-clock time: a timer may fire
whenever it is armed. Two windows of `ConsoleWindows` do not run side by side:
they share no state in the browser, and what they share on the server is in the
window's own module.

The components that `PROJECT.json` lists as `not_modelled`.

## Plan

In this order:

1. `SessionRecord`: opening and terminating a session step by step in memory, in
   the database and in the grants, with statements that fail, a crash between any
   two, and the reload; an abstract specification of a session (active, then
   terminated, never active again) for it to implement.
2. `CredentialLease`: issue and concurrent consume; the one-time reveal.
3. `AuthTokens`: `find_auth_by_token` against role changes, deletion and password
   changes; and API tokens.
4. `LoginGuard`: sliding window, backoff and sweep against an unswept reference.
5. Quota, purge and one-time tickets of the Go service.
6. `SshGuard`: reassembly of the typed line against a reference editor.

Every invariant and action property of the passing runs has a theorem, and so have
the safety facts that the liveness runs of the terminals rest on (`JoinedIsStopped`,
and `DetachedTable` for the timer that finds a detached shell). With each module of
the plan come its theorems, first that `SessionRecord` implements its abstract
specification.
