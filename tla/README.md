# DHC harness: TLA+ models, checks and proofs

This directory specifies the parts of the harness that keep state between two callbacks: the
server's chat sessions and chat turns (`src/src/dhc`), and the web client's chat view, API-keys
dialog, session tools and Modules tab (`src/apps/web/src`). The modules are written from the code.
Paths below are relative to `src/` of the repository; `C1` is
`src/dhc/modules/c1_gui_web_core/service.py`, `C7` is
`src/dhc/modules/c7_llm_stream_adapter/service.py`, `SM` is `src/dhc/services/session_manager.py`,
and a bare `*.tsx` is below `apps/web/src/`. `PROJECT.json` maps each definition to its lines.

## 1. Inventory

The server is one process with one asyncio event loop (aiohttp): coroutines interleave at awaits
only. The client is one page: callbacks of React, of `fetch` and of two WebSockets interleave, each
runs to its end, and a state update runs the effects that depend on it. Between the two, requests go
over connections of their own, so that they are handled and answered in any order; frames of one
socket keep theirs.

| part | state | operations | what is hard | what makes it correct |
|---|---|---|---|---|
| **session manager** (SM) | a JSON file per session, an index file, a cache of sessions, two sets of flags | create, get, list/search, update, delete, append, fork, switch, stream and cancel flags | a save is two files and follows the change in memory; the cap; files of v1.4 | ledger ordered, tip resolves, nothing lost, memory = disk = index, no resurrection |
| **chat turns** (C1 `/ws/chat`, `POST .../messages`) | local variables of each coroutine, sockets | a turn: append, stream, append, totals; cancel | overlapping turns of a session, cancel, disconnects, timeouts, saves that raise, deletes | one last frame per turn, flags up exactly while streaming, reply on its branch, totals right |
| **LLM adapter** (C7) and **provider clients** | none between calls | stream chunks, time limit, retry | time limit inside a generator, retry in mid-stream | every stream ends; nothing twice |
| **agent turn** (C6 driver, C9 policy, C5 registry, C2 log, rate limiter, event bus, `/ws`) | step counter, listeners, grants, buckets | emit events in order, run tools | listeners that raise, listeners added in mid-emit, circuit breaker | every start has its end, no tool without a grant, the breaker stops the turn |
| **plugins** (loader, `@plugin`, Context, PluginMemory, routes) | loaded set, disposables, auto-load file | load, unload, dispose | await of `apply` between check and write | set up once while loaded, torn down once |
| **webhooks** (C8) | nonce store | accept | eviction by count against a window in time | no delivery accepted twice in its window |
| **secrets, attachments** (cordis) | append-only log, pairs of files | put, get, delete, replay | two-step writes, replay after a crash | last write wins, no half attachment |
| **provider state, health probe** | cache | probe, read | stale results | newest probe wins |
| **eval harness** | files replaced and restored | run, restore | failure between | reference files restored |
| **chat view** (ChatPanel, SessionList, WelcomeView, SearchOverlay) | selected session, copy on screen, streaming bubble, socket, the creation in flight | select, search, new chat, pick a card, send, stop, archive, delete | an effect reopens the socket in mid-turn; answers of the session before; texts that wait for a session | one creation at a time, a text reaches its session, a bubble ends |
| **API-keys dialog** (SettingsModal) | rows, drafts, saved flags, requests | probe, type, save, delete, add | a probe that crosses saves; lost answers; closing with requests in flight | what a row says is so, a draft is never taken away |
| **session tools** (ModelConfigMenu, AttachmentsPanel, PathReconstruction, BranchButton, LeafSwitcher) | what each shows, its requests | open, edit, save, upload, delete, fork, switch | the session changes with requests in flight | nothing of another session is shown as this one's |
| **Modules tab** (ModulesPanel, ModuleCard) | what is loaded, one `busy` string | poll, load, unload, score | clicks while requests run; answers out of order | one instance per plugin, buttons come back, the view converges |
| **App, Events, Prompts, overlays, rendering** | a socket, a ring of events, focus | show | focus traps, `onClose` made anew at each render | - |

The rest (prompt assembler, tool guard, gates, scrubber, scoring, model registry, entry point,
fixtures) is pure text processing, tables or wiring.

The parts meet as follows: C1 handlers call the session manager synchronously (each call is atomic:
no await inside, one lock around); a chat handler pulls chunks from C7, which pulls them from a
provider client; plugins and `/ws` sockets listen on the event bus to which C6 emits. The chat view
talks to the chat turns over its socket; the dialog, the tools and the Modules tab each talk to
routes of C1 by requests, and share with the chat view only the selected session.

## 2. Modules

| module | what it is |
|---|---|
| `SessionLedger` | the data of one session and the pure functions of SM on it: append with the cap, path walk, branch list, loading and back-filling an old file. No variables. |
| `SessionStore` | the manager: `cache`, `disk`, `index` and the two flag sets; one action per method |
| `DurableStore` | the abstract promise of the manager to its callers: a map from sessions to contents, with a copy that survives |
| `ChatStream` | the two chat handlers, await by await, with `chat.cancel`, fork, switch, hard delete; extends `SessionLedger` |
| `TurnProtocol` | the abstract promise to one client about one turn at a time |
| `ChatPanel` | the chat view with its socket, against a server that serves the frames of that socket in order |
| `KeySettings` | the dialog's rows for one provider, against the secrets routes |
| `SessionTools` | the tools, each with the session that what it shows and asks for is of |
| `PluginConsole` | the Modules tab, against the plugin routes, `/healthz` and the loader |
| `MC*` | the instances TLC checks: symmetry, scripts, key names |
| `*Proofs` | theorems and lemmas of the module named |

### SessionLedger

A session is a record of its messages (id, role, parent, truncated), its active tip, the kind of its
title, `archived` and its token totals. Ids are random in the code and taken to be fresh: they are
numbers handed out in order. Contents, timestamps, tags and the model name are left out. The loop
that applies the cap is a single drop, because the ledger never is more than one droppable message
over the cap; `CapRespected` states that, and is proved.

### SessionStore

| code | model |
|---|---|
| `_save` (two atomic writes), `_ensure_index` | `SaveFiles(sid, s, outcome)`, `EnsureIndex`; `outcome` says which write raised |
| a method that changes the cached object and saves | `MutateAndSave`: the cache has the change whatever the outcome |
| `create` | `Create`: saved before it is cached |
| `get` / `from_dict` | `Fetch`, `Get`: reading a file fills the cache and back-fills old files |
| `hard_delete` | `HardDelete`: unlink, forget, rewrite the index |
| process death | `Crash`: memory and flags are lost, files stay. Death in the middle of a save is a failing save followed by `Crash` |
| the index removed by hand | `LoseIndex` |

Four kinds of outcome are distinguished because a save that heals a stale index writes it twice.
`gone`, `unsaved` and `indexDirty` are ghosts used by the properties only.

`ImplementsDurableStore` is the refinement of `DurableStore`: `shown` is what `get` would answer
(the cache, else the file, back-filled), `safe` what it would answer after a restart, `raised` the
sessions whose last save raised. Each method is then one step on one session, `get` and listing are
stutters, and so are the loss of the index and a `create` or `hard_delete` whose first file
operation raises.

### ChatStream

A step runs from one await to the next, and everything between is atomic. The awaits of the socket
handler are: receive; send the notice; a chunk; `sleep(0)`; send a chunk's frames; send the last
frame (`pc` = idle, start, next, yield, sending, closing). The HTTP handler awaits chunks only.
Disk writes block the loop, and appear as saves that may raise (`DiskFaults`); the cache is then
ahead of the file, as `SessionStore` shows, and only the cache matters here.

What the provider streams is a script, chosen when the turn begins; an exception may come instead of
any chunk. The time limit of C7 strikes in two ways: while the adapter reads (`WsProviderFails`,
`HttpProviderFails`), or while its generator is suspended and the handler is at an await of its own
(`WsTimerKills`).

Assumptions about aiohttp: a handler is not cancelled when its client disconnects; a send to a peer
that is gone raises (`send_frame` only skips a socket it knows to be closed, which it learns by
receiving); a send to a peer that is there completes.

`Fork` and `Switch` are requests of their own, between any two steps of the handlers. Neither the
fork's route nor `branch_create` looks the parent up or restricts the role beyond the four there are:
`Fork` takes any number handed out so far, be it of a message of the session, of one that was dropped
or of one of another session, and `nextMsg` itself for an id of no message at all (which is spent on
it). `ForkRoles` says which roles a run looks at.

Three ghosts serve the properties: `spent`, what the finished turns of each session used; `answered`,
the pairs of a question and its reply; `astray`, the forks made from an id that was no message of
their session.

`KeepsTurnProtocol` is the refinement of `TurnProtocol`, per socket: `frames` is what was sent since
the last `chat.send`, `busy` is "in a turn", `lost` is "the connection is lost at either end".
The answers to `chat.cancel` are not frames of a turn and are left out.

### ChatPanel

| code | model |
|---|---|
| `activeId`, `active`, `streaming`, `newSessionInFlight` | variables of these names; `active` is the session of the copy, `streaming` the texts and sockets of the deltas it shows |
| the WebSocket effect and its dependencies | `Reopen`, part of each step that changes the selected session or the search text |
| `onmessage` | `OnDelta`, `OnDone`, `OnError`, `OnOther`, on the frame that arrives first |
| `newSession` | `NewSession` (the click), `Created` or `NotCreated` (the answer), `Resolved` (the rail was refreshed, and the promise runs what was chained to it) |
| `send`, `dispatchSend`, `stopStreaming` | `TypeAndSend`, `PickSuggestion`, `DispatchSend`, `StopStreaming` |
| `loadSession` and its callers | `LoadSession`, `LoadAnswered`: the answer is taken whichever session is selected |
| the server's side of the socket | `BeginTurn`, `Chunk`, `EndTurn`, `FailTurn`, `ReadCancel`: one turn at a time, as in `ChatStream`, whose `KeepsTurnProtocol` is what this side is allowed to assume |

A closed socket takes its frames and its queue with it: the turn that runs on in the server is heard
no more. `dest` and `meant` are ghosts: where a text went, and which session it was meant for when
the user sent it.

### KeySettings

A row is stored (the server listed its name), saved (an answer said so), has a draft or not, and is
quiet, saving or in error. `Probed`, `SaveDone`, `DeleteDone` and `RequestFailed` are the
continuations after each `await`; `SecretsList`, `SecretsPut` and `SecretsDelete` are the server's
handlers. A request may be refused, or be handled and its answer lost. Which rows share a name is a
parameter (`keyName`): the default row of a provider and the row of its first model do.

### SessionTools

Each tool keeps requests in flight when another session is selected. An effect that is cleaned up
marks its requests (`live`); those without a flag (`refreshBranches`, uploads, forks, switches) do
not. The tools share nothing but the session, so that a behaviour uses one of them. The list of tips
and its refreshes, the forks and the edits of the menu are there because they decide what may be
clicked and which effects run; no property speaks of them, as the code promises nothing that could be
asked: the tips of the session before may be listed, and edits may be overwritten (section 3).

### PluginConsole

`ClickLoad`, `ClickUnload`, `ClickScore` set the one `busy`; a request goes from sent, maybe over
suspended, to done, and its `/healthz` is read, before `Answered` or `Failed` runs the `finally`
block. `PluginsLoad` and `Applied` are `load_async` before and after `await apply`, `PluginsUnload`
and `Disposed` are `unload` before and after the await of `dispose`; `live` counts the instances that
are set up. `Restart` loads any set of plugins, which is what the auto-load list may hold.

## 3. Runs

Passing runs:

| run | instance | what it shows |
|---|---|---|
| `SessionStore_crash` | 2 sessions, 2 messages, all failures | `MemoryIsDurable`, `IndexMatchesFiles`, `DeletedStaysDeleted`; refinement of `DurableStore` (`ImplementsDurableStore`) |
| `SessionStore_ledger` | 1 session, cap 2, up to 4 message ids, a v1.4 file of 1 message, system messages, forks from messages of no session | order, tip, cap, truncation mark; `HistoryKept`, `TipPinnedWhileStreaming` |
| `ChatStream_single` | one sending socket, one cancelling socket, three script shapes, forks from any id | totals, flags, stored reply, usage; `ReplyOnItsBranch`, `BranchesRecoverable` |
| `ChatStream_shared` | a socket and a request in one session, a chunk with everything in it, disk faults, no adapter, a cap of 2, forks of system messages | `NeverOvercounts`, `LedgerSound`; refinement of `TurnProtocol` (`KeepsTurnProtocol`) |
| `ChatStream_live` | a socket and a request, tool calls, forks with the other two roles, fairness | `FlagHasOwner`, `FlagFalls`, `EveryTurnEnds` |
| `ChatPanel_view` | two sessions (one made on the way), two texts, two creations, two loads, three sockets, one Stop unanswered | `SingleFlight`, `IntendedSession`, `StreamHasEnd` |
| `KeySettings_dialog` | a model's row and an extra, two requests, a probe | `SavingIsReal`, `StoredKeyIsShown`, `DraftKept` |
| `SessionTools_all` | two sessions, each tool | `ShownIsOfSession`, `TreeSettles` |
| `PluginConsole_buttons` | a plain plugin and one that suspends and raises, two requests, one poll, restarts | `OneInstance`, `BusyFalls`, `ViewConverges` |

One run of each module checks its `TypeOK`: `SessionStore_ledger`, `ChatStream_single`, and the run
of each of the client's modules.

Runs that find what a comment or document says and the code does not do (each with an entry under
`findings`):

| run | finding |
|---|---|
| `ChatStream_v_totals` | overlapping turns lose an update of `usage_totals` |
| `ChatStream_v_leak` | a save that raises at the end of a POST turn leaves the flag up |
| `ChatStream_v_timeout` | the time limit can kill the handler of a live socket without a frame |

Two more findings come from a passing run, `ChatStream_single`, whose property says what the code
does where a document says something else:

| property | finding |
|---|---|
| `ReplyOnItsBranch` | a reply is appended under the parent of its question (C1:1831), as its sibling, so that the path to a reply does not hold the question. ADR-0019:92 wants it "appended as a child of the *original* user message", and line 67 says that "its `parent_id` is the user message"; the rule at line 99 of the same document is what the code does |
| `BranchesRecoverable` | a fork from an id that is no message of the session is stored (SM:618); its branch, and all that hangs from it, has an empty path, so that no branch shows it. The docstring at SM:605 promises `None` for an unknown parent, and ADR-0019:73 says that "a fork must point at an existing message". The chat view gives the messages on screen ids of its own (`panels/ChatPanel.tsx`:215, 445), so that its fork button can send one |

Several properties hold only under a condition on the instance. The passing runs meet it, the
theorems of section 4 name it as their hypothesis, and the violation runs above and the lists below
say what happens without it:

| property | condition | in the proofs |
|---|---|---|
| `TotalsAreAdditive`, `FlagGuardsStream` | one client sends: one socket, or one POST | `OneClient` |
| `CancelDiesWithStream` | no POST turns, which never clear a cancel request | `Posts = {}` |
| `FlagHasOwner` | no save raises, or no POST turns, which have no `finally` block | `~DiskFaults \/ Posts = {}` |
| `StoredIsStreamed` | no chunk has text and tool calls at once | `PlainScripts` |
| `ReportedUsageWins` | usage comes with the last chunk, and no chunk before it finishes | `UsageInTime` |

`BranchesRecoverable` carries its condition in its statement: the session is below the cap, which
would have cut it, and none of its paths meets the depth guard. Its exception is exact: what hangs
from a fork made from an unknown id is on no branch, everything else is on one. `LedgerSound` and
`TipResolves` have the tip among the messages, unless system messages fill the cap, which forks with
that role can bring about: the next message is then the one dropped, and the tip with it.

Further differences between the code and its documents, read while modelling. The model has the
behaviour of the code in each of them, but for the context sent to the model, whose text is left out;
none has a run of its own:

* the first of two overlapping turns to finish drops the stream flag of the other (C1:1853), and
  branch switches are let in; ADR-0019:107 refuses them "while a stream is active on a session";
* the tool-call block is there twice: each chunk with tool calls is sent as two `chat.tool_call`
  frames (C1:1799, `src/docs/chat-architecture.md`:77), and a text in the same chunk is stored
  twice (C1:1797), so that what is stored is not "the full reply"
  (`src/docs/chat-architecture.md`:110); with a script of one such chunk TLC violates
  `StoredIsStreamed`;
* usage that follows the finishing chunk, as in an OpenAI stream (`openai_client.py`:163), is not
  read, as the loop breaks first (C1:1812, against the comment at C1:1805); with a script of a
  piece, a finishing chunk and a usage chunk TLC violates `ReportedUsageWins`;
* the reply to a question that has no parent, the first of a session, is not pinned: the parent
  handed over is None (C1:1728), which stands for the tip at the end of the stream (SM:458). It
  becomes the child of its question, or of whatever message came last in between (why
  `ReplyOnItsBranch` is about questions with a parent);
* the context of a turn is every message of the session, those of all its branches (C1:1735), and not
  the path to the active tip;
* the depth guard lets a path of `BRANCH_MAX_DEPTH + 1` messages pass (SM:530, ADR-0019:83);
* once the cap has dropped the root, paths in the branch view are empty (SM:537, docstring at
  SM:548);
* a cancel aimed at a POST turn is never read by it (C1:1678, SM:268): it waits for the next socket
  turn of the session, and ends that one;
* a client's own `chat.cancel` is read when its turn has ended (C1:1779, against the comment at
  C1:1775): it is answered as a no-op, and the turn was not shortened.

On the client's side:

* a text sent while the chat's socket is not open is dropped: the input is enabled by the state of
  another socket, App's `/ws` (`panels/ChatPanel.tsx`:739);
* selecting a session, or typing a search, in mid-stream closes the socket; the bubble stays, with no
  frame to end it;
* an answer of `loadSession` that is late is taken although another session is selected, so that the
  copy on screen and `activeId` differ; forks, switches and archives answered late act likewise on the
  session at the click;
* a row of the dialog that was deleted stays stored for the page (`components/SettingsModal.tsx`:39
  says that a stored key shows as one); a probe answered after a save puts its older view over it; an
  extra row deleted while its save is in flight leaves its key on the server, where no row shows it
  after a reload; a provider's default row and its first model's share one key;
* the model menu posts what it shows, also before it was loaded, and the answer of the load takes
  edits away; a save that ends closes the menu of whichever session is open;
* the attachments panel keeps the file of the session before, and a second upload orphans the first;
  the tree keeps an error it once showed; `refreshBranches` can show the tips of the session before,
  until the next refresh (why `ShownIsOfSession` leaves it out);
* one `busy` string serves all plugins (`panels/ModulesPanel.tsx`): a click on a second plugin frees
  the buttons of the first, whose load may still run. A plugin whose `apply` suspends is then set up
  twice (`src/dhc/plugins/loader.py`:275), and one whose `dispose` raises stays set up although it is
  forgotten (:301). `OneInstance` holds for the plugins that do neither.

**Bounds.** `MaxMsgId`, `MaxTotals` (SessionStore) and `MaxRequests` (ChatStream: frames, POSTs,
forks, reconnects) bound what would run for ever; `Edits`, `MsgRoles` and `ForeignParents` choose
which inputs a run looks at, as `ForkRoles` does in `ChatStream`, and between the runs each is used. `SessionStore_crash` stores totals of 0
only: there a change is told by `archived`, the messages and the tip. A cap of 2 with 4 ids makes the cap
bite twice, drop the tip and the root, and meet system messages; the cap of 2 in `ChatStream_shared`
lets two system forks fill it and the next message be dropped, under turns that overlap. The other runs
of `ChatStream` stay below their cap. Two or three requests are two
overlapping turns and one more event, which is what every race in `findings` takes. One session is
enough in `ChatStream`: turns of different sessions share only their socket, which serves one at a
time.

On the client's side the constants are what a user may do. `ChatPanel`: three sockets, so that a turn
can be left behind twice and still another begin; two texts, each sent once; two creations and two
loads that cross; one Stop unanswered; one `removing` at a time. `KeySettings`: a save and a delete
that overlap, a model's row and an extra (that rows share a name is covered by the proofs, which hold
for any `keyName`). `SessionTools`: two sessions, as what is shown is of the session on screen or of
another. `PluginConsole`: two requests and one poll; the second instance of a plugin (`MaxLive` 2) is
where a double set-up shows, and `ClickLoad` stops there.

`CHECK_DEADLOCK FALSE` is set for `ChatStream` and for the client's modules: when the requests, the
clicks or the sockets of a run are used up and all that is in flight has been answered, the system
may rest. Symmetry is used only in runs without a liveness property.

**Fairness.** Nothing is asked of the user or of the provider's clients.

* `ChatStream`: weak fairness of each handler's steps. The event loop runs whatever can run, sends
  complete or raise, and C7 yields, ends, or is ended by its time limit.
* `SessionTools`: weak fairness of the reads of the tree (`fetch` resolves or rejects).
* `PluginConsole`: weak fairness of each request's handler, of its being answered or lost, and of the
  polls, which an interval starts again for as long as the tab is shown.

## 4. Proofs

tlapm proves the following for all values of the constants: any number of sessions, sockets,
requests, rows, plugins and texts, any scripts, cap and depth.

| module | theorems | argument |
|---|---|---|
| `SessionStoreProofs` | `StoreTypeOK`, `StoreLedgerOrdered`, `StoreCapRespected`, `StoreTipResolves`, `StoreTruncationMarksTheCut`, `StoreMemoryIsDurable`, `StoreIndexMatchesFiles`, `StoreDeletedStaysDeleted`; `StoreTipPinnedWhileStreaming`, `StoreHistoryKept`; `StoreImplementsDurable` | The inductive `IInv` is type correctness, durability, the index and the ghosts, with `SessionsSound`: every session, cached or (once loaded) on disk, is ordered, within the cap, older than the next id, has a tip that resolves, and a truncation mark at the cut only. This makes reading a saved file back the identity (`SoundLoad`), without which memory and disk could differ by a back-fill; `WithinCap` makes one drop enough. For `StoreHistoryKept`, `Grown` says of two versions of a session that each message of the older one remains, or was dropped as the oldest that could be, by a session at its cap; one append is such a step (`AppendGrows`), and such steps compose (`GrownFurther`). `DiskBehind`: what is in memory has `Grown` from what is on disk, so that a step that goes back to the file, or catches up with it, is still one. `StoreImplementsDurable` is the step refinement of `DurableStore`, by `SoundLoad` and by the cache being a part of the files (`WhatIsShown`). |
| `ChatStreamProofs` | `ChatTypeOK`, `ChatNeverOvercounts`, `ChatLedgerSound`, `ChatReplyOnItsBranch`, `ChatBranchesRecoverable`; under the conditions of section 3 `ChatFlagHasOwner`, `ChatCancelDiesWithStream`, `ChatFlagGuardsStream`, `ChatTotalsAreAdditive` | `SnapshotsBehind`: the totals a turn has read are at most what finished turns spent; `spent` only grows, so a stale snapshot stays behind. With one client, `SnapshotFresh`: they are still the totals of the session. `ChunkInHand`: a handler that comes out of `sleep(0)` has a chunk. `LedgerInv`: each session is chained, within the cap, and has a tip that is there or was crowded out by system messages, and the message a turn has pinned is older than the next id. The flags (`FlagStep`): a step raises the flag of the session whose turn it begins and drops that of the turn it ends, so that a flag falls with the turn that ends first, unless a raising save leaves it. The branches: every change of a ledger is one append. Below the cap nothing was ever dropped (`StepBelowCap`), so the parent of a message is there or the message is astray (`ParentsThere`), and the id an astray message names never becomes a message (`AstrayLost`). The messages that do not hang from an astray one are hence those whose ancestry is all there (`RootedIsWhole`), which are those on the paths of the tips (`BranchesCover`). |
| `TurnProtocolProofs` | `ChatKeepsTurnProtocol`; under the conditions of section 3 `ChatStoredIsStreamed`, `ChatReportedUsageWins` | The step refinement of `TurnProtocol`: `Agrees` ties the place of a socket's handler to the frames it has sent (no last frame before it closes the turn, one when it does, unless the client is gone), and under it each step of `ChatStream` is a step of `TurnProtocol` or a stutter, for every socket. `Streamed`: as long as a turn is served, the pieces it has kept are as many as its delta frames. `Billed`: usage is only on the last chunk, and when that has been read it is what the turn is billed. |
| `ChatPanelProofs` | `PanelTypeOK`, `PanelSingleFlight`, `PanelIntendedSession`; `PanelStreamHasEnd` | `PanelInv` adds `ChainedMeant`: the text chained to a creation is meant for the session that creation makes. `FlowInv`: a delta on its way has its last frame behind it, or its turn is still served. |
| `KeySettingsProofs` | `KeyTypeOK`, `KeySavingIsReal`; `KeyStoredKeyIsShown`; `KeyDraftKept` | `SavingInv`: a row that is gone is quiet (`GoneIsQuiet`). `KnownInv`: for each name the last list and the requests since tell of, the rows say what the vault holds. |
| `SessionToolsProofs` | `ToolsTypeOK`, `ToolsShownIsOfSession` | `ToolsInv` says of each tool what its state may be, and that a request whose effect was not cleaned up is of the session on screen. |
| `PluginConsoleProofs` | `ConsoleTypeOK`, `ConsoleOneInstance` | `RequestsMakeSense`: only plugins that suspend have a request half done. `EnoughInstances`: requests that tear a plugin down find as many instances set up. |
| `SessionLedgerProofs` | lemmas | What dropping, marking and capping return; an append keeps type, order and cap, moves the tip to a message that is there, leaves the mark at the cut, and changes nothing of what it keeps. The path walk, for a path of any length: the set it returns is the least that holds the leaf and is closed under parents (`AncestryLeast`, `AncestryClosed`), and the tips' paths cover exactly the messages whose ancestry is there (`BranchesCover`). |

The proofs rest on the named assumptions on the constants, which TLC evaluates in every run: bounds
are naturals and the cap is positive; sockets and requests are different; scripts are finite
sequences of chunks; the roles of forks are roles; null is none of the values; extra rows hang from rows that are not extra; the
requests of `PluginConsole` are finitely many.

Every safety invariant and every action property of the passing runs has its theorem. The library's
induction theorems take a predicate as a parameter and cannot be used here; where a proof needs an
induction over data, as for the recursive path walk, it uses `SetInduction` of `SessionLedgerProofs`,
which speaks of a set of naturals and rests on its least element.

Model-checked only: liveness under fairness, which is out of this prover's reach (`FlagFalls`,
`EveryTurnEnds`, `TreeSettles`, `BusyFalls`, `ViewConverges`).

## 5. Not modelled

* Authentication and origin checks, frame parsing, contents of messages and keys, scrubbing (only
  whether it happened), sorting and timestamps. A raising write of the index in `list_summaries`
  changes nothing and is left out.
* On the client: rendering, focus and overlays; the list of sessions in the rail beyond its refresh;
  the default model of a new session; "Test connection"; the App shell and the Events and Prompts
  tabs, which show what a socket or one request brings.
* On the server, without a module so far though they keep state: the agent turn (C6, C5, C9, C2, the
  event bus, the rate limiter), webhooks (C8), retry in the provider clients, the secrets log and
  attachments, provider state, the eval harness's backup. Section 6 plans them.
* On the server, without state worth a module: prompt assembly (C3), the tool guard (C4), the gates,
  the scrubber, scoring, the model tables, the log sink (C10). They are text rules or tables; a test
  of a few inputs reaches what a model would.
* Encryption of the secrets, and hashing of plugins and webhooks: cryptography is taken at its word.

## 6. Plan

In this order:

1. `AgentTurn`: C6's step loop over the event bus (sequential emit, listeners that raise), with C9,
   the rate limiter, `/ws` observers and the C2 log; abstract `TurnLog` (each start has its end,
   steps at most `max_steps`, no tool without a grant). Theorem: the breaker's bound.
2. `ProviderRetry`: attempts and back-off of the clients, retry after chunks were yielded; C7's
   choice of provider and its SSE buffer cap; a theorem on the number of attempts.
3. `WebhookDispatch`: nonce store against the time window.
4. `SecretLog`: the append-only secrets log and its replay, attachments as pairs of files;
   `ProviderState`; `ReferenceBackup` of the eval harness.
5. `ChatPanel` composed with `ChatStream`'s socket: what the client shows against what was stored.
   `PluginConsole` with the disposables of `@plugin` and Context, and the auto-load file.
6. Proofs: the main invariants of the modules above; what `ChatPanel` shows as an implementation of
   `TurnProtocol`'s other end.
