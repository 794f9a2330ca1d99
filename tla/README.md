# kubejump in TLA+

kubejump is an SSH bastion for Kubernetes: a user logs in over SSH, finds a pod
in a menu, and gets a shell in it. What the user types and sees passes through
goroutines joined by channels and through an *exchange room*, so that others
may watch. Beside that the server keeps a database of the pods and namespaces
of the configured clusters up to date from informers.

The modules here model the concurrent and stateful parts of that program, TLC
checks them on small instances, and TLAPS proves their safety for every
number of connections, users, managers, sessions and objects. All paths below
are under `src/`.

## 1. The system

| component | code | state | operations | modelled |
|---|---|---|---|---|
| exchange room | `pkg/exchange/room_message.go` | connections, ring of 5 recent messages, ZMODEM status, online users, channels `subscriber`, `unSubscriber`, `broadcastChan`, `exitSignal`, `done` | `run`, `Subscribe`, `UnSubscribe`, `Broadcast`, `stop`, `Receive` | `Room`, `Hub` |
| room registry | `pkg/exchange/local.go`, `initial.go` | map of rooms, owned by one goroutine | `Add`, `Delete`, `Get`; `Register`, `UnRegister`, `GetRoom` | `Exchange` |
| Redis rooms | `pkg/exchange/redis*.go` | pending requests, proxied rooms, connections by room | joins, leaves and exits over Redis channels | `RedisRooms` |
| terminal bridge | `pkg/proxy/switch.go` | four goroutines, six channels | `Bridge`, `Terminate`, `PauseOperation`, `ResumeOperation` | `Bridge` |
| proxy server | `pkg/proxy/server.go`, `pkg/session` | the session in the session manager, its connection | `Proxy`; `AddSession`, `RemoveSession` | `Bridge` |
| session wrapper | `pkg/handler/wrapper_session.go` | a pipe behind a lock | `readLoop`, `Read`, `Close`, `SetWin` | `SessionLoop`, and its `Close` in `Bridge` |
| container connection | `pkg/kubernetes/conn/conn_container.go` | stdin and stdout pipes, queue of window sizes | `Write`, `Read`, `SetWinSize`, `Next`, `Close`, the exec goroutine | `Container` |
| menu | `pkg/handler/interactive_handler.go`, `select_handler.go`, `page_info.go` | the result in hand, its page, the search | `Dispatch` and every command in it | `Menu` |
| idle checker | `pkg/handler/direct_handler.go:237` | ticker and status | `checkMaxIdleTime` | `SessionLoop` |
| line editor | `pkg/terminal/treminal.go` | line, cursor, what the screen shows, history ring, paste flags | `ReadLine` with `handleKey`, `Write`, `SetSize` | `LineEditor` |
| cluster synchronisation | `internal/service/kube_event.go`, `internal/repo/kube_*.go` | bounded queue, semaphore, rows | `OnAdd/Update/Delete`, `LoopHandler`, `handlePod`, `handleNamespace` | `KubeSync` |
| informers, client cache | `pkg/kubernetes/informer.go`, `factory.go` | map of informers, LRU of clients | `AddInformer`, `DelInformer`, `GetOrCreateClient` | environment of `KubeSync`; rest no |
| users, entities, configuration, servers | `internal/auth`, `internal/entity`, `config`, `cmd`, ... | rows, files | checks and I/O | no |

How they interact: `SessionHandler` (SSH) creates a menu per login; the menu's
`SearchOrProxy` calls `Proxy`, which opens a container connection and calls
`Bridge`. `Bridge` creates a room, registers it, subscribes the user's
connection, and starts `srvReader`, `userReader` and `parser`; on its way out it
unsubscribes, unregisters and closes both connections. The registry starts the
goroutine of a room on `Add` and stops it on `Delete`, inside its own loop. The
synchronisation shares nothing with the sessions but the database, which the
menu queries page by page.

Hard behaviours, and what should hold of them:

* *Room*: calls hand over on unbuffered channels while `run` may be busy or
  gone. Members must keep it alive; replay and live messages must join without
  gap or repetition; late joiners must agree with the others; a stopped room
  must close also those who come late, and end.
* *Registry*: one loop answers and stops rooms; answers must reach their
  askers, and stopping one room must not hold up the others for ever.
* *Bridge*: four goroutines close down in any order; nothing may be lost,
  repeated or swapped before, and everything must be closed after.
* *Container*: pipes block; two parties close; the end of the shell must be seen.
* *Session*: the pipe of a session is broken and renewed under a lock that
  readers and the writer hold while they block; the idle checker decides beside
  `Dispatch`. Locks must be had, input read once, and nobody at work cut off.
* *Synchronisation*: events overflow, are overtaken, fail and are given up;
  rows must nevertheless follow the cluster.
* *Menu*: the first load races with commands, between any two steps of a line; pages
  are computed from offsets into an order that is none within a cluster, while window,
  search and store change; queries fail.
* *Redis rooms*: a guest on another server joins a session by messages that may
  be lost, late or answered after the time-out; the owner counts joins and leaves
  of all servers. Nobody who watches may be cut off, nobody may wait for ever,
  and no room may be left behind.
* *Line editor*: it draws by what it believes of the cursor, at row ends, over
  several rows, while messages and new window sizes come from other goroutines.

## 2. Modules and their correspondence to the code

`PROJECT.json` maps each definition to the lines it stands for.

**Room** (composed with its callers). `at` is where `run` stands: its select,
or inside a case, writing to (`to`) the connections left. Each write to a
connection is a step, because it may block and others move meanwhile. Calls are
split into the step that starts them and the one in which `run`'s select takes
them (`Subscribe`/`AcceptSubscribe`, ...). `TickExit`, `TickReap`, `AcceptExit`,
`AcceptSubscribe`, `AcceptUnSubscribe`, `AcceptBroadcast` are the cases of the
select; `Stop`, `StopDone`, `StopClose` are the registry's `stop`. `got`,
`shown`, `since` and `log` record what the peers were told. A Data message is a
number; messages that are only passed on are one kind.

**Hub** is what a room promises: one log, each member fed consecutive messages
from at most `RingSize` before its join. `Room` implements it with
`members <- Live, fed <- got` (`HubSpec`).

**Exchange** composes the registry's loop with the life of all rooms, the
sessions that own them and guests that look them up. A room is reduced to
`select`, `busy`, `end` and its members. `Get` is two handovers (`check`,
`result`).

**Bridge** begins with `Proxy`: `AddSession`, the connection (`ConnectFails`), and
`Bridge` up to its loop (`BridgeStart`, `BridgeJoin`), and ends with `RemoveSession`,
part of the step in which `Bridge` returns; tasks come whenever the session is `Listed`.
It has one program counter per goroutine (`b`, `s`, `u`, `p`), the
channels with their capacities, and the pieces each goroutine holds. The
deferred calls of `Bridge` are the values of `Deferred`, in the reverse order
of their `defer`. `UserSteal` is the read of a `userReader` whose session is
over from the pipe that `WrapperSession.Close` renewed. The server connection may be
*deaf* (`srv`): exec never ran, or a key that came when the shell had just ended was the
last one its copy of stdin took. Then `Write`, `Close`, and in time `SetWinSize`, never
return (`BridgeStuck`, the guard of `BridgeCloseSrv`); module `Container` says how a
connection comes to be so.

**Container** has the callers of `Close` (Bridge and the goroutine of exec) as
`Actors`; client-go's copies of stdin and stdout and its loop of sizes are external
actions written from how `remotecommand` uses the reader, writer and queue it is given.
`copier` is the copy of stdin, `printer` that of stdout, which hands each piece to a
`Read` of Bridge's srvReader; a stream whose shell has ended (`ended`) is `over` when
that copy is done.

**KubeSync** keeps for each object its version in the cluster, in the informer's
cache and in its row; `Report`, `Relist`, `Resync` are the informer, `Pop`,
`Start`, `Write`, `WriteFails` the loop and its goroutines. A `Write` is of an insert
or update: a delete always takes `WriteFails`, for the store refuses it
(`kube_pod.go:95`, `kube_namespace.go:45`: no condition, and no primary key in the
value). `disturbed` is the history of objects an event of which was dropped, given up
or overtaken.

**Menu** has the command loop (`Enter`, `PageDown`, `PageUp`, `Slash`, `Number`,
`Name`, ...), `Retrieve` with the arithmetic of `pageInfo`, and the goroutine of
the first load (`Load`). A line that searches or turns the page is two steps, the
query, and `Display` or `Choose`, which look at the result in hand again; the loader may
come between. The query orders pods by `cluster_ref` alone, so `RowsOf` is any list of
rows in which each pod is at a place of its cluster, and another list the next time;
`Display` sorts what is in hand, ties in any order (`Arranged`). The synchronisation
adds rows to the store at any moment (`Sync`), also between the count and the query of
rows in `Retrieve`. That rows only come is what `KubeSync` shows of the code, and what
is searched in a row and its status are taken not to change. A query that fails makes
the menu panic on the response it does not have (`RetrieveFails`, mode `panic`).
`found` is `SearchOrProxy`'s own copy of the result, from which it takes the pod,
while it counts the rows of the one in hand. `MenuInit`, `MenuNext`, `MenuSpec` carry
the module's name because its proofs stand beside those of `LineEditor`.

**SessionLoop** has the SSH channel, `readLoop`, the pipe with its lock, the
readers (`menu` is `Dispatch`, the others the `userReader`s of the sessions it
proxies), `Dispatch` and `checkMaxIdleTime`. The lock is not a variable: who
holds it follows from where the goroutines are, and `dispatch = "renew"` is the
writer that keeps new ones out. A chunk is read whole. `LoopReadFails` is a read with
an error other than `io.EOF`: `readLoop` passes on what it read, breaks, closes the pipe
for good (`LoopBreak`, `LoopClose`), and from then on reads fail and `Close` does nothing.

**RedisRooms** has the session's manager `Owner`, other managers, and guests who
call `Get` there. The loop of a manager (`redisRoomManager.run`) is one action
per case (`RequestExit`, `EventJoin`, `EventLeave`, `EventExit`, `GetJoin`,
`Cancel`, `ResultSuccess`, `RemoveProxyRoom`), and `addSubscribeCount`, in which
it waits, is `adding` with `CountTaken` and `CountDone`. `proxyUserCon` is `con`
with its count `number`, `proxyRoom` is `proxy[g]`. What is under way in redis to
a manager is its `queue`; `Lose` and the failing variants of commands are the
faults. A PUBLISH that returns an error may have been executed all the same
(`PublishErr`), so that an answer arrives that its sender takes for failed. A request is
`asked` between the SISMEMBER of `Get` (`GetAsks`) and the loop (`GetJoin`).
There is no clock: a request's id, which holds the second, is its manager
and who first asked in that second.

**LineEditor** composes the editor with the user's terminal. Its part of the
state is `line`, `pos`, the fields `cursorX`, `cursorY`, `maxLine` and `width` of
`term`, the paste flags and the history; the other fields of `term` are the
screen, which `Queue`, `CrLf`, `Move`, `ClearRows` and `Resized` change as the
characters and escapes sent do. `AdvanceCursor`, `MoveCursorToPos`, `WriteLine`,
`SetLine`, `EraseNPreviousChars`, `AddKeyToLine` and the two word counts are the
methods of those names, the `Key...` actions the cases of `handleKey`, and
`Return` is `readLine`'s end. The screen is that of an xterm, which cuts rows
when it narrows (a terminal that reflows them may be left with remains of a row,
because `SetSize` clears `maxLine * 2` rows below the first where twice `maxLine + 1`
rows may be in use); it is high enough for the line. `Write` comes in `ReadLine` and
between lines, where a proxied shell and the menu itself write too, and its last row may
be left open, as "The pod is inactive" (`select_handler.go:451`) leaves it. The editor
takes the cursor to be at the start of a row then, and its next prompt stands behind the
message: the rest of the screen is not followed (`term.known`) until it is cleared, for a
list (`DisplayList`) or by the key for it. The same goes for a control character that is
pasted (`Control`): it enters the line and moves the cursor on its own. What the editor
tracks is followed throughout. Rows above the prompt are left out, with them the remains
that `Write` of several rows leaves in a message that overwrites the lower rows of
the line, which it does not clear.

`MC*` modules extend a module for TLC (`MCRoom` gives its symmetry set); values
are in the configurations.

## 3. What the runs check

| run | properties | shows |
|---|---|---|
| `room` | `TypeOK`, `MembersKeepRoomAlive`, `NoGapNoRepeat`, `PeersAgree`, `HubSpec`, `NoWriteAfterLeave` | two connections, two senders, three messages, a ring of two: safety, and refinement of the hub |
| `exchange` | `TypeOK`, `AnswerGoesToAsker`, `RoomOutlivesMembers`, `FinishedIsStopped`, `FinishedRoomEnds`, `RegistryAnswers` | two sessions, two guests; no room goroutine is left behind |
| `redis` | `TypeOK`, `RequestsMatchAskers`, `CountedRoomsAreFed`, `CallsReturn`, `ProxiedRoomsEnd` | three managers, two guests, one message lost or command failing anywhere, executed or not |
| `bridge` | `TypeOK`, `StreamsInOrder`, `EndTakesBridgeDown` | three pieces of data in both directions, every way of ending, a connection that goes deaf |
| `session` | `TypeOK`, `NoCutAtWork`, `InputOnceInOrder`, `CloseReturns`, `IdleIsCut` | two proxied sessions in one login, four chunks of input, a connection that breaks |
| `container` | `TypeOK`, `InputThenExit`, `OutputThenEnd`, `EndIsNoticed`, `WaitersWake` | input in order, `exit` once and last; output before the end; nobody waits for a closed connection |
| `sync` | `TypeOK`, `UndisturbedIsCurrent`, `LivingObjectsConverge` | two objects, two versions, a queue of two, two slots; resync repairs what was lost or overtaken |
| `menu` | `MenuTypeOK`, `PageIsOfSearch`, `FlagsTellTheEnds`, `NumbersMeanRows` | six pods of two clusters, one of them new, page sizes 1, 2 and "all", a window that may change, the loader and failing queries |
| `editor` | `TypeOK`, `ScreenShowsLine`, `LinesAreAsEntered` | two characters typed or pasted, windows of two, three and four columns, messages with and without an end, every key in every order |

Bounds. Two connections are enough for a replay to one while another leaves,
hangs up or is written to; a ring of two overflows with three messages. Two
sessions and two guests give two rooms in every relation and two askers at
once. Two pieces one way fill each of Bridge's channels of capacity one and leave
one in a goroutine's hands, while a third comes the other way. A queue of two
overflows when two objects are created, changed, deleted and synchronised again; two
slots let one goroutine overtake another, and two failing writes use up its tries; two
versions let an older update be written over a newer one. Two
pieces of output fill the hands of the copy of stdout and leave one behind it.
Five pods of two clusters at first, searches that find three, one and none of them, and
pages of one, two or all give a last page that is full, half full or single, pages that
begin within a cluster, and a page of one pod of a search that finds more.
Two proxied sessions let the `userReader` of the first live on into the second,
and four chunks are enough for a line to start each, and one for each reader.
Of the two guests on redis one may ask where the other does or elsewhere, so
that joins meet at one manager, in one second or two, and at the owner; they ask
once each, and one fault may hit any message or command between. A prompt of three
characters and two more make a line of one to three rows on windows of two, three and four
columns, with the cursor before, at and behind a row's end; a history of two wraps at the
third line, which may be an empty one.
`MaxMsgs`, `MaxTyped`, `MaxPrinted`, `MaxOutput`, `MaxPieces`, `MaxSizes`, `MaxVersion`,
`MaxErrors`, `MaxFaults`, `MaxKeys` and `Rows` are bounds of the models; `RingSize`,
`WinCap`, `QueueCap`, `BatchSize`, `Retries`, `DefaultLimit`, `MaxLineLength` and
`HistorySize` stand for constants of the code, made small. Deadlock is not
checked: sessions, rooms and menus end.

Symmetry is used in `room` only, over connections and senders, whose
members no action distinguishes; its two temporal properties are safety
properties.

### Where the code differs from what it says

| run | property | what happens |
|---|---|---|
| `bridge_terminate` | `TerminateEnds` | `Bridge` sends on `done` (`switch.go:91`) when both receivers may have ended, and never returns |
| `sync_delete` | `DeletesAreWritten` | a deletion that nothing disturbs is refused by the store (`kube_pod.go:95`, `kube_namespace.go:45`) and given up: the row stays, and the menu offers the pod |
| `session_gone` | `GoneUserIsLetGo` | `readLoop` goes on after `io.EOF` (`wrapper_session.go:61`), so `Dispatch` waits for ever for a user who is gone |

The models contain more steps that do not do what one would hope, which are not
runs of their own. They are there because they are in the code, and the
properties above say what holds beside them:

* `Proxy` reads `terminalConf`, which nothing sets (`server.go:65`, `:84`), and
  `NewKubernetesConnection` applies its options to a nil pointer
  (`conn_container.go:115`): at this commit choosing a pod panics. `Bridge`,
  `Container` and the proxied sessions of `Menu` and `SessionLoop` are what the code
  does once these two are set.
* `Bridge.UserReadPlain`: a chunk without carriage return is cut at index -1 and
  panics (`switch.go:203`; the guard at :197 is commented out).
* `Container`: `Close` writes `exit` into a pipe nobody reads when exec never
  started, or when a late key used up the copy of stdin (`conn_container.go:185`);
  these are the two exceptions in `EndIsNoticed`. Bridge meets them as a connection that
  is deaf: it hangs in `Write`, `SetWinSize` or `Close`, the exception in
  `EndTakesBridgeDown`.
* `KubeSync`: no row is ever deleted, so only `DeletesAreWritten` speaks of what
  becomes of a deleted object's row. `Tombstone`: deletions found by listing again
  are dropped before they get that far (`kube_event.go:206`).
* `Menu`: a failed query panics (`select_handler.go:140`); pages may repeat or skip pods
  of a cluster, so `PageIsOfSearch` claims the cluster of each row and not the pod. After
  a resize, or with new pods, `n` may stop before the last pods, hence `resized` and
  `AtFirst` in `FlagsTellTheEnds`; `b` from a short last page skips pods; the nil assets
  of the first load panic in `n`, `b` and numbers (`Load`, `Display`). The list on the
  screen is not that of the numbers after a search that finds nothing, and after a name
  whose *page* is a single pod (`select_handler.go:427`), be it one of many for a page size
  of one, that is not running or is left again: the exceptions in `NumbersMeanRows`, with
  the first load. `r`, "refresh" in the banner, leaves.
* `LineEditor`: behind output that leaves its row open the prompt is not where the editor
  takes it to be, the exception in `ScreenShowsLine`.
* `SessionLoop.UserReads`: the `userReader` of a session that is over may take what
  is typed to the menu. A tick that fell due during work may cut a fresh prompt
  (`direct_handler.go:259`, `TakeTick` after `ReportWait`).
* `RedisRooms`: `Initial` never builds this manager, so all of it lies idle at this
  commit. `redisUserCons` is never cleaned: once the owner's connection has ended,
  later guests are answered and not fed. An answer whose PUBLISH was executed and returned
  an error (`redis.go:444`) makes a room that is not counted either; when its guest
  leaves, the count may reach nought under another guest who watches. `uncounted` in
  `CountedRoomsAreFed` stands for both. Two
  joins of one second and manager share an id (`redis.go:526`), the exception in
  `RequestsMatchAskers`; two that overlap at a manager make two rooms of which
  `remoteRoomCache` keeps one, and the other may stay for ever, the exception in
  `ProxiedRoomsEnd`; a connection that subscribes when the room's `run` has returned
  holds the owner's loop for ever, the exception in `CallsReturn`.
* `LineEditor`: what is pasted passes `maxLineLength`, which is compared with `==`
  after typed keys only (`treminal.go:583`).

### Fairness

* Goroutines that can run do (weak fairness of their steps).
* Go's `select` chooses at random among the ready cases, so a case that is ready
  again and again is taken in the end: strong fairness, for single cases.
* Tickers tick. Peers of a room read or are gone; a user whose connection the
  room closed unsubscribes. The informer reports what it sees, and its five
  minute resync finds room in the queue again and again. A write to the store
  fails a bounded number of times.
* Nobody has to type, send output, end a shell or call a task.

* In `RedisRooms` nothing can happen twice, so that no behaviour has infinitely many
  steps and one weak fairness condition over all the steps of goroutines, tickers
  and time-outs is enough; guests of a session that is over type nothing for half an
  hour in the end.
* Work on a line of the menu returns, and a proxied session ends when its user's
  connection has. A client need not type nor end anything, so `GoneUserIsLetGo`
  fails although everything else runs.

## 4. What is proved

With TLAPS, for every value of a module's constants that its named assumption
allows (`RingSizeAssumption`, `MaxMsgsAssumption`, `UsersAssumption`,
`ReachAssumption`, `ReplyAssumption`, `FaultsAssumption`, `BoundsAssumption`,
`ContainerAssumption`, `SessionAssumption`, `SyncAssumption`, `EditorAssumption`,
`MenuAssumption`: sizes and bounds are naturals, widths, rings and limits not zero, and
values that stand for nobody or nothing are no others). Sets of connections, users,
managers, guests, sessions, objects and slots may be of any size, numbers of pieces,
keys, pods and faults any number:

| module | theorem | says |
|---|---|---|
| `RoomProofs` | `TypeCorrect` | `Spec => []TypeOK` |
| | `RoomStaysForItsMembers` | `Spec => [](MembersKeepRoomAlive /\ RunShape)` |
| | `LeaversAreLeftAlone` | `Spec => NoWriteAfterLeave`, an action property |
| | `PeersAgreeAlways` | `Spec => []PeersAgree` |
| | `FedWithoutGaps` | `Spec => []NoGapNoRepeat` |
| | `RoomImplementsHub` | `Spec => HubSpec` |
| | `EveryoneIsFedARun` | `Spec => []EverFedARun` |
| `ExchangeProofs` | `ExchangeTypeCorrect` | `Spec => []TypeOK` |
| | `RoomsOutliveMembers` | `Spec => []RoomOutlivesMembers` |
| | `AnswersGoToAskers` | `Spec => []AnswerGoesToAsker` |
| | `FinishedAreStopped` | `Spec => []FinishedIsStopped` |
| `RedisRoomsProofs` | `RedisTypeCorrect` | `Spec => []TypeOK` |
| | `AskersAreAnsweredOnce` | `Spec => []RequestsMatchAskers` |
| | `CountedRoomsStayFed` | `Spec => []CountedRoomsAreFed` |
| `BridgeProofs` | `BridgeTypeCorrect` | `Spec => []TypeOK` |
| | `StreamsStayInOrder` | `Spec => []StreamsInOrder` |
| `ContainerProofs` | `ContainerTypeCorrect` | `Spec => []TypeOK` |
| | `InputComesBeforeExit` | `Spec => []InputThenExit` |
| | `OutputComesBeforeEnd` | `Spec => []OutputThenEnd` |
| `SessionProofs` | `SessionTypeCorrect` | `Spec => []TypeOK` |
| | `WorkIsNotCut` | `Spec => []NoCutAtWork` |
| | `InputIsReadOnceInOrder` | `Spec => []InputOnceInOrder` |
| `KubeSyncProofs` | `SyncTypeCorrect` | `Spec => []TypeOK` |
| | `UndisturbedStayCurrent` | `Spec => []UndisturbedIsCurrent` |
| `MenuProofs` (editor) | `EditorTypeCorrect` | `Spec => []TypeOK` |
| | `HistoryIsWhatWasRead` | `Spec => []LinesAreAsEntered` |
| | `ScreenKeepsUp` | `Spec => []ScreenShowsLine` |
| `MenuProofs` (menu) | `MenuTypeCorrect` | `MenuSpec => []MenuTypeOK` |
| | `PagesFollowTheSearch` | `MenuSpec => []PageIsOfSearch` |
| | `FlagsTellWhereTheListEnds` | `MenuSpec => []FlagsTellTheEnds` |
| | `NumbersKeepTheirPods` | `MenuSpec => NumbersMeanRows`, an action property |

These are all the safety properties of the runs, and `EverFedARun`, which no run checks:
it follows from the refinement of `Hub`.

**Room.** The argument is a chain of inductive invariants. `ConnInv` adds to `TypeOK` the
shape of `run` (`RunShape`: what it works on are connections it knows, and it
works exactly outside its select) and `MembersKeepRoomAlive`; without the shape
a step of `run` could end the room under a member. `PeersInv` adds `PeersShown`:
`PeersAgree` speaks of `run` at its select, so in the middle of a broadcast it
has to be said what the peers not yet reached will agree on once reached.
`FeedInv` adds `RecentIsSuffix`, that the ring is the end of the log, which makes
the replay of a newcomer consecutive, and `NoGapNoRepeat`, which counts what
`run` holds for a connection as on its way. Under `FeedInv` each step of the
room is a step of `Hub` or a stutter: a write of a message feeds, an accepted
Data message publishes (all members being caught up at the select), joins and
leaves change the members, the rest stutters.

**Exchange.** Types need `RoomsAreKnown`: who is joining a room got it from the
registry, so it is a session's. With the types `RoomOutlivesMembers` is inductive
(`MembersInv`). `RegistryInv` says that the guest that waits for a
result is the only one, and that the loop answers it (`AskersInv`), and of a
finished session, whatever it waits for, that its room is stopped or the loop is at
that very stop (`FinishedInv`); the property alone, which excepts the room being
stopped, does not survive the loop's next case.

**RedisRooms.** `AskInv` splits `RequestsMatchAskers` in its two halves, an entry
has its asker and an asker has its entry, and adds that who asked has an id, and
who did not has none (`AskersHaveIds`), and that nobody is answered before asking
(`UnaskedIsUnanswered`). The interesting steps are a second `Get` in the same
second, which takes the first one's entry, and its time-out, which removes an entry
under that id.
`FedInv` is the argument for `CountedRoomsAreFed`. What the owner's connection counts
is spread over the system: a join it answered is first a message to the guest's
manager, then a room there, then a message that the guest left. `CountInv` calls
these the claims and says that there are never more of them than `number` and what
waits in `addSubscribeCount` (`Due`) make, as long as the session lasts and no answered
join was left out (`CountMatters`). An answer is a claim from its publication on, whether
the PUBLISH returned an error or not, so that each step that publishes has two outcomes
to count. The number has two ways to be wrong about
the last join, which the invariant has to name: while it waits, and once the
connection has ended (`NoneCounted`). `RoomsInv` supplies that a room is of an id that
was asked for and that a success goes to the manager of its id, so that no claim is
counted twice; the claims are finite sets, and the lemmas on their cardinality say what
each kind of step (publish, take, lose, make or end a room) does to them.

**Bridge.** `BridgeInv` follows the pieces. `HandsFit` says how many pieces each
goroutine holds at each of its places. `InputInv` and `OutputInv` say of each direction
that what has been taken out, what the goroutines hold and what is in the channels make,
put together in the order of the way, all that was put in, as long as nothing was thrown
away; and where a goroutine has ended and dropped what it held, that what lies *behind*
it is still the beginning of it all (`PastReader`, `PastParser`, `FirstOf`). So the
ends may close in any order: each cuts the stream, and none reorders it. What a `Write`
that never returns has in hand is on its way for good (`InWrite`, `StuckStays`). That Bridge has
left its select once its room is done ties the userReader's early end to the parser's.

**Container.** `ContainerInv` has `ClosingFits`, where the two callers of `Close` may be
(one of them in the body of `once`, and `exec` there only after the stream is over),
and `GotInv`: as long as the copy of stdin may read, the shell has got exactly what was
written, less the piece that a `Write` still hands over; `exit` can only be carried once
Bridge's `Close`, behind all its `Write`s, has begun. `OutputFits` is the other way: what
closes the connection is Bridge, or the goroutine of exec behind a stream that is over,
which is behind a copy of stdout that has handed over all.

**SessionLoop.** `WorkInv` strengthens `NoCutAtWork` by the flag: while the menu is
at work `checkStatus` is off, so no tick decides to cut. `InputInv` splits the typed
chunks into those read, in increasing order, those lost in a `Close`, and the one in
`readLoop`'s hands, and adds that a loss needs a session that was proxied. `TypeInv` says
when the pipe may be broken: in a `Close`, or for good when `readLoop` has broken off.

**KubeSync.** `UndisturbedIsCurrent` with the types is inductive as it stands
(`SyncInv`), for it speaks of the newest of an object's events wherever it is, in
the queue, in the batch or in a goroutine. The lemmas `SamePending` and
`NewPending` say what a step does to the events pending: `Pop` and a full queue do
not reorder them, a report puts one behind all; `StartStep`, `WriteStep` and `FailStep`
hand one on, which must be the only one of its object in a goroutine, or else the object
is disturbed from then on.

**LineEditor.** `HistoryInv` adds to `LinesAreAsEntered` the types of the line, the
ring and the cursor and `PastedSoFar`, that a line whose paste flag is still up
holds no typed character. `HeadMoves` and `EntryIsIn` are the ring's arithmetic for
any size; the places of words are shown to lie in the line by the least element of
a set of naturals.
`ScreenInv` is `ScreenShowsLine` with what the editor tracks: the cursor is at place
`p` of the prompt and line laid end to end, so its row and column, tracked and real,
are `p \div width` and `p % width` (`At`), and `maxLine` is no less than the last row in
use. Where the screen is not followed only the tracked half is claimed; `LostShows`
and `MessageShows` carry it across a message that leaves its row open, `ClearScreenShows`
and `ListIsFresh` get the other half back. Between lines the rows of the editor are empty
(`Fresh`). The proof has one
lemma per primitive of the editor (`WriteLine`, `MoveCursorToPos`,
`ClearRows`, `SetLine`, `EraseNPreviousChars`, `AddKeyToLine`) that says what page it
leaves (`Paint`, `Put`, `Over`), and one per key that puts them together; the row ends,
where `AdvanceCursor` sends an extra line feed, are the division lemmas (`DivMod`,
`DivUnique`, `DivAdd`, `DivLast`). Proving `SetSize` showed that the model had chosen
between two branches whose conditions overlap; the code's `switch` takes the first that
holds, and so does the model now.

**Menu.** `MenuInv` says that the rows in hand, whether retrieved or displayed, are
distinct pods of the search, as many as lie between the page's offsets, and that while no
pod is added each is at a place of its cluster (`PageIsPiece`): `RowsOfAre` has it from
the query, whatever order that chose, and sorting keeps the pods (`ArrangedHasAll`). Of a
window that kept its size and a store without new pods it says that an offset is a whole
number of pages away from the start *or from the end* (`Aligned` in `FlagsAreRight`):
`b` from a short last page goes on with pages that are aligned with the end. It is for
these two kinds of offsets, and not for all, that rounding up tells an earlier page
from the last (`PagesBefore`, `OnePage`). `ListInv` is what makes `NumbersMeanRows` go
through: wherever the user reads the list, and while a session is proxied, list and rows
agree, or the rows are in one of the three states the property excepts. The menu and the
editor it reads its lines with share one module of proofs, for the lemmas on division.

Only model-checked: the liveness properties (`FinishedRoomEnds`, `RegistryAnswers`,
`CallsReturn`, `ProxiedRoomsEnd`, `EndTakesBridgeDown`, `CloseReturns`, `IdleIsCut`,
`EndIsNoticed`, `WaitersWake`, `LivingObjectsConverge`), because fairness and `ENABLED`
are outside the provers' reach.

## 5. What is not modelled

Recording, wording, table layout, UTF-8 boundaries of output, the password
check, MFA, configuration and start-up, HTTP, database access beyond rows
written and queried, and Go's memory model (unlocked fields are taken to be
read and written whole). A connection whose writes block for ever, which would
hold its room, is taken to be gone instead. Writes of the store may fail; of
what the database library accepts only the refused deletes are modelled. In the menu what
a pod's row says of it, its status and what is searched, does not change under a user, and
rows are not removed, since no delete succeeds.

Of the redis manager the set-up of its clients is left out; of the line editor
how bytes become keys (`bytesToKey`, and a partial sequence that fills `inBuf`, after
which `Read` is given no room), wide characters and escapes in the prompt, terminals
that reflow rows, errors of the connection, and `ReadLines`, `ReadPassword` and
`SetEcho`, which nothing calls. The map of informers is looked up by one key and
filled under another (`informer.go:69`), but filled once, at start-up, since
`DelSync` and `ReloadSync` have no callers. The cache of clients is one locked map;
that a task removes the client of an old configuration beside its readers
(`factory.go:71`) costs at most one more client, and the LRU bounds them.
Of `Proxy` the options of the connection and `OnSessionInfo`, which nothing sets, are
left out.

## 6. What could follow

1. `SessionLoop`: window sizes that `SetWin` drops, and a clock for the ticks that
   are due too early.
2. `LineEditor`: `bytesToKey` and its partial sequences; a terminal that reflows.
3. `Room`'s life as an abstract specification that `Exchange` uses, with a
   refinement between them.
4. The safety halves of the liveness properties as invariants to prove: that somebody
   is there to take what is sent on (`Exchange`, `RedisRooms`).
