# toqui: a verification project

toqui is a travel planner: a Go backend with a chat companion that calls tools,
stores its conversations, imports booking confirmations from text and mail, and
deletes what it has promised to delete; and a React client. This directory holds
TLA+ specifications of the parts whose correctness depends on the order of
things (goroutines, background jobs, failing statements, crashes, concurrent
requests), TLC runs that check them on small instances, and proofs, checked by
TLAPS, of the properties that matter most for every value of the constants.

Paths below are relative to `src/`; `internal/` is `backend/internal/`.

## 1. The system

| Component | State | Operations | Hard behaviour | Model |
|---|---|---|---|---|
| chat turn (`internal/chat/service.go`) | per request: iteration, retry guards, texts, tool calls, persona channel | `SendMessage`, `processEventsWithToolLoop`, `processOneTurn` | a goroutine that outlives its request; store writes that fail and are only logged; text of one iteration against text of the turn | `ChatTurn` |
| chat store (`internal/chatstore`, `db/queries/chat.sql`) | `chat_sessions`, `chat_messages` | `CreateSession`, `AddMessage` (upsert), `GetHistory`, `DeleteSession` | a write brings a deleted session back; concurrent turns share one session | `ChatTurn` |
| chat stream (`internal/handlers/chat.go`) | the events one client receives; slots the tools fill behind a mutex; the session's trip | forwards events until the channel closes, announces trips and experts, moves the session | several ways to end a stream; a client that leaves; tools that run ahead of the handler | `StreamContract`, `ChatTurnRefines`, `ChatRelay` |
| conversation summary (`internal/chat/summarize.go`) | summary per session | refresh every 20 messages | what the summary covers, concurrent refreshes | `ChatSummary` |
| trips (`internal/trip`, `handlers/trip.go`) | status, completion and archival stamps | `UpdateTrip`, `DeleteTrip`, itinerary editing | check and write in separate statements; rewrites at once | `TripRetention`, `ItineraryEdit` |
| data lifecycle (`internal/lifecycle`) | deadlines, deletion requests and their retry counts | hourly and daily jobs, `RequestDeletion`, `RetryFailedDeletions` | jobs against requests, several servers, crashes between steps | `TripRetention`, `AccountDeletion` |
| bookings (`internal/booking`, `handlers/booking.go`) | `bookings` with a unique index | ingest (find, fuzzy find, create, merge), update, link, delete | concurrent imports, stale finds, edits against merges; lists in any order | `BookingIngest`, `ItineraryEdit` (the item of an import), `BookingAnalysis` |
| mail import (`internal/emailimport`) | the mailbox's seen flags, attempts in memory | `PollOnce`, `fetchAndProcess`, `finish` | at-least-once delivery, poison messages, restarts | `EmailPoller`, `ImportedMail` |
| token rotation (`internal/auth`, `handlers/auth*.go`, `handlers/oauth.go`, `lib/auth.tsx`, `lib/transport.tsx`) | refresh-token families | login, refresh, logout; the client's single flight | rotation under concurrency, lost responses, tabs that share a storage | `RefreshTokens` |
| AI providers (`internal/ai/claude.go`, `gemini.go`, `openai.go`, `retry.go`, `fallback.go`) | attempt, calls accumulated, a bounded channel | retry, fallback, parsing of a stream | three ways to end an answer, a reader that leaves | `ProviderStream`; in `ChatTurn` a provider is the events it may send |
| AI budget and cache (`internal/ai/budget.go`, `cache.go`) | tokens used today, LRU of responses | `Check`, `Record` | day change against concurrent records | `TokenBudget`; the cache is not modelled |
| limits (`internal/ratelimit`) | buckets and windows | allow, fail, sweep | windows at their edge, clean-up of what still counts | `RateLimits` |
| chat tools (`internal/handlers/tool_*.go`) | effects on trips and itineraries | one call each | concurrent edits | `ChatTurn` (calls, answers, the fabrication guard), `ItineraryEdit` (create and delete items), `ChatRelay` (create and select a trip, suggest an expert) |
| collaboration (`handlers/collaborate.go`, `shared.go`) | collaborators, roles, links | invite, accept, revoke | rights that change during an edit | `Collaborators`, `ItineraryEdit` |
| location (`internal/location`, `lib/hooks/useLocation.ts`) | positions and places in memory; the tracking of a screen | set, get, look up; start and stop | caches at their limit, awaits against a screen that closes | `LocationCaches`, `LocationHook` |
| exports and the bundle (`handlers/bundle.go`, `export_*.go`) | none | assemble, answer 304 | one date for all that a bundle holds | `OfflineCopy` (the bundle) |
| server (`cmd/server/main.go`) | the process | start, end | main, the signal and the work end independently | `ServerShutdown` |
| personas, themes, lookups, configuration | tables | lookups and formatting | no order that matters | no |
| client (`app/`, `lib/`) | tokens in the browser's storage, the chat shown, an offline copy | refresh, logout, stream, synchronise | several tabs, several streams, screens that come and go | `RefreshTokens` (tokens), `ChatHook`, `OfflineCopy`, `LocationHook` |

How they interact. The handler of a chat request calls `SendMessage`, which
stores the question, starts a goroutine and returns a channel; the handler
forwards events until the channel is closed. The goroutine calls the provider,
the tools (which write trips and itineraries, and leave in the handler's slots
what it has to announce) and the store. A provider's answer is parsed in a goroutine of its
own and read through a second channel. The collaborators of a trip write its itinerary
through the screens and through turns of their own, and imports add items to it. Sessions are keyed
by trip without a foreign key: `DeleteTrip`, account deletion and the hourly
purge delete them while turns may be running. Completing a trip stamps deadlines
on its sessions, from the request, from a goroutine and again from the hourly job.
The mail poller calls the handler of `IngestEmail` in its own process,
and the same service serves the user's pastes. Every server instance runs the
background jobs. The client's chat hook reads the handler's stream, and the history
of the same session when a screen opens; its offline copy is fetched from the
server by every screen of a trip.

What makes each part correct:

- a turn tells its client how it ended, and one way only: a complete answer, or
  an error, which it may tell twice; the answer it announces is wherever its
  question still is, the rows of a turn keep their order, what the assistant stored
  loses its question in one way only (section 6), and every turn ends;
- the archival clock and the chat's deadlines start for the end of a trip and
  nothing else, the clock starts once, and what has ended is purged and archived
  in the end;
- a deletion request is tried the promised number of times and no more, and it
  is settled in the end;
- a client that stays is told of every trip a turn made and of the expert who
  answers, once each, and finds the conversation under the trip it created;
- whichever provider answers, a call is executed once, with all its arguments,
  and the loop goes on exactly when there are results to send back; no
  goroutine waits for ever, but for the one case that `ProviderEnds` names;
- what a model is not told of a long session is bounded;
- a family of refresh tokens has one that the server would exchange, a user
  who is not disturbed stays signed in until a logout, and that is final;
- who has lost the right to edit begins no change any more, a rewrite of the
  itinerary is all or nothing, and what is reported as deleted is gone;
- the daily budget, the invitations and the rates are exceeded by no more than
  what was in progress, and forgetting a record lets nobody in;
- what an import tells of the bookings does not depend on their order;
- one confirmation is one booking, an import never overwrites what the user
  wrote, a message of the mailbox is neither given up early nor tried for
  ever, and each time it is imported for a trip it ends at its booking there;
- a screen shows what came of each message once, keeps the history before it and
  stops waiting; the copy for offline use catches up with the trip;
- a server that is told to end leaves no statement of the database half done;
  one whose listener fails may.

`PROJECT.json` lists the hazards behind these line by line.

## 2. The modules

A step of a model is one statement on the database, one event of a provider, or
one decision between two of them; what the code does between two such points
belongs to the step. "Faults" constants switch on statements that fail and
processes that stop. Operators called `Mut...` are variants with a plausible
mistake; no specification uses them, and they show that the properties can fail.

### ChatTurn, StreamContract, ChatTurnRefines

`ChatTurn` is one `SendMessage` from the budget check to the closed channel, for
several turns at once. Every exit of the loop is an action: `FailStart`,
`FailStream`, `ProviderError`, `StopForClient`, `RetrySilence`/`SuppressSilence`,
`RetryFabrication`, `RetryExpert`, `AcceptAnswer`, `HitLimit`, then `StoreAnswer`,
`EmitComplete` and the goroutine's `CleanUp`. Two texts are kept apart as the
code does: `full` (`fullResponse`, one iteration) and `complete`
(`completeResponse`, all of them); `ret` is whether the loop returned a text.
Every access under the request's context goes through `TryStore`: it cannot
succeed once the client is `gone`, and may fail on its own if `StoreFaults`.
`AddMessage` is an upsert, so it may bring back a session that `DeleteElsewhere`
or another turn's clean-up has removed. `errors` counts the error events: an error of the
provider is told where it is read (`ProviderError`) and again where the loop gives up
(`ReportError`). `Panic` is the recover path, from any step of the goroutine up to
its clean-up, also after an answer; `Crash` ends every turn.

Text is a set of fragments: iteration *i* writes fragment *i*, so the model tells
which text is streamed, stored and announced, not what it says. The triggers
that look at the wording are choices. An answer of nothing but removed
placeholders is left out, and so are usage logging and prompts.

`StreamContract` says what a client may rely on: a stream opens, speaks, and is
answered once, with everything it said, or fails, or is cut. A failed stream is never
answered, and tells at most three errors; an answered one at most one (`MaxErrors`), by a
panic after its answer. `ChatTurnRefines` maps a turn to it (`PhaseOf`); `KeepsContract` is the
contract under that mapping.

### TripRetention

One trip, its sessions, the `UpdateTrip` handlers (`CheckTransition`,
`WriteStatus`, `CompleteTrip`, `SetChatTTL`: four statements without a lock), the
hourly job (`StampMissing`, then `PurgeExpired` or `FailPurge`), the daily archive
job (`ListForArchive`, `ArchiveTrip`), `DeleteTrip` in its two statements, and
chat turns reduced to `WriteChat` and `DropChat`. `ValidTransition` keeps the
default branch of `isValidStatusTransition`, which lets any unknown status
change; "archived" is one. A deadline is "none", "set" or "due": its length is
not told apart. An `UpdateTrip` that carries no status changes nothing here.

### AccountDeletion

The requests of one user, the goroutine of each (`SetProcessing`, `DeleteUser`,
`CompleteRequest`) and the hourly job of every server (`ListStale`, then per
request `GiveUp`, `Retry` or `Skip`). A job works through the counts it has
`seen` with its list, which may be old when it comes to a request. `DeleteUser`
cascades to the requests, so that later updates find no row. The goroutine's
timeout of five minutes is shorter than the hour after which a request is
stale; `HourPasses` therefore waits for the goroutine. The chats
that are deleted trip by trip before the user are left out.

### BookingIngest, EmailPoller, ImportedMail

`BookingIngest` follows one `ingest` call statement by statement: `Lookup` by
code, `FindFuzzy`, `Create` or `Conflict` (the unique index refuses), `Refetch`,
and `Merge`, `MergeConflict` or `Preserve`; any statement may fail. The guard of
`MergeBooking` (`updated_at <= created_at + 1s`) is `Mergeable`, over two facts
of a row: `fresh` (created within the last second) and `touched`. The user
updates, links and deletes bookings at any time. A booking's data is its trip,
its code and a slot, the class of start times and providers that the fuzzy
search takes for the same; the nearest row may be of another slot, so the search
may also miss. The bookings are of one type. The itinerary item that an import
adds afterwards is in `ItineraryEdit`. `shed` is a history for the properties: the
trips, codes and times a booking has had and given up, whoever wrote it.

`EmailPoller` is the mailbox and the poller's goroutine. `Retry` counts in
memory, `Mark` sets the flag, `MarkFails` clears the count without it, and
`Restart` forgets all counts. How often a mark fails or the server stops is
bounded by `MaxLosses`. One poller reads the mailbox, as in the code's
deployment guide.

`ImportedMail` joins the two: a message is submitted by starting an import, for
the trip that `ResolveTrip` finds at that attempt, which may be any of the user's or none
(`SubmitMail`, `Addressed`), with the code and the slot that its text always gives
(`ContentOf`); and `AnswerMail` settles or retries it by the import's end, as `processMessage`
does. `FailParse` is a parser, or a lookup before it, that fails; `Crash` stops
the poller (`Restart`) and all imports (`StopImports`) between any two statements.
`SpecMail` and `SpecBookings` are the two parts on their own, with imports that
end and texts that come as they please; the joint specification implements both
(`ImplementsParts`).

### RefreshTokens

The server's transaction (`Validate`, `Deny`, `Take` behind the row lock,
`Rotate`, `RotateLegacy`, `RevokeFamily`, `Aborted` for the deadlock of two reuse
detections), the logout with and without cookies, expiry and the hourly
`Purge`; and the browser: tabs that share `stored`, each with one refresh in
flight, answers that are lost (`Lose`) or arrive late (`Receive`). `Fail` is a statement that
fails: the read of the token's row is answered like a token that is not known, any
later one as an error that keeps the browser's token. A token is the
number of its issue. Three histories name the conditions of the promises:
`session` (what the user wanted last), `faulted` (an answer lost, an error, a
token run out) and `overlapped` (two requests of the browser at once).

### Collaborators, ItineraryEdit

`Collaborators` is the invitation handlers in two statements each and `CanEdit`.
`ItineraryEdit` extends it with the calls that write the itinerary: the rewrite
(`BeginReplace` .. `Commit`, one READ COMMITTED transaction, with the rows its
DELETE sees in `seen` and those it waits for in `Locked`), `create_itinerary_items`
(`Peek`, then `Create` item by item), `delete_itinerary_items` (one DELETE each: `FindItem` is its snapshot, with the
row and the user's right, and `RemoveItem` its effect once it has the row's lock) and the import's `BeginLink` and `Link`. Titles stand for what the code's
similarity takes for the same.

### TokenBudget, ChatSummary, RateLimits, BookingAnalysis

`TokenBudget` is `Check` and `Record` split into their atomic operations, with
midnights between any two. `ChatSummary` counts the rows of one session: those in
the window, those the summary is made of, and those neither knows.
`RateLimits` holds four limiters beside copies of themselves that forget nothing, so that
`ForgettingIsInvisible` compares the two. `BookingAnalysis` has the checks of
`DetectConflicts` and `AnalyzeCoverage` as operators: loops over pairs are sets of pairs of
places, running minima and maxima are recursive functions, and `OfType` is `Sublist` of `Lists`.
Its assumption asks for numbers, and for an airport's absence to be none of the airports.

### ChatRelay

`SendMessage` of the handler in selection mode against the goroutine of the turn:
tools fill `pendingTrips`, `createdTripID` and `pendingSwitch`, results pass through a
bounded channel, `Forward` empties the slot of the tool whose result comes by, and
`MoveSession` runs at the end. The name a provider gives a tool may not be `exact`:
`lookupExtraTool` forgives that and runs the tool, the handler's comparison does not and
announces nothing; `spoilt` remembers it, and results dropped at the deadline.

### ProviderStream

One call of `ChatStream` with its attempts and its fallback, one of three parsers, and
the reader. A step is a line of the answer or an event that goes into the
channel; `begun` and `whole` are the upstream server's side (which calls it has
begun, which it has sent entirely), so that `ProviderContract` can compare what was
emitted with what was meant. The server is one that finishes with the reason for
tools exactly if it has made calls; what happens to calls when the token limit cuts an
answer is in section 6.

### ChatHook

`useChat` for a user whose screens open, close and change trip: the two effects of a
new trip (`HydrateRead`/`Hydrate` read the stored session, `LoadAnswer`/`LoadApply`/`LoadFail`
the history), `sendMessage` from `Send` to `Finish`, and what may come between.
The streams are those of `StreamContract`, and the rows of the store come with them, so
that a history can be loaded while an answer is on its way. `TextDelta` and
`MessageComplete` act on the `bubble`; `EndStream`, `Caught` and `Fail` are the three ways
out of the read, each leaving the screen in a state of its own; an error event is none, the
loop reads on and each brings an apology. Callbacks of a closed screen
change nothing (`Alive`), but for the storage. `early` and `disturbed` remember that a
message was sent before the effects had ended, or that the trip of a screen changed
while a stream ran: the properties that assume neither do not hold without (section 6).
Lists are filtered with `Sublist` of `Lists`, and rows merged one by one (`Merged`,
`Deduped`): recursive functions, which proofs can unfold where `SelectSeq` and a fold
with an operator as a parameter cannot be.

### OfflineCopy

Time is the number of changes of the trip, a copy the time of its data, so that an old
answer that is stored last is visible. A sync is `BeginSync`, the handler in two
statements (`LoadTrip`, then `Assemble`, or `AssemblePart` where the bookings, the
messages or the places could not be read and are left out of the answer), and two writes of the storage (`StoreBundle`,
`StoreMeta`), with `FailSync` at any point and `Close`, which ends the app between them.
Syncs are not tied to the screens that started them. `IfModifiedSince` is what the
handler reads; the app names its time elsewhere, so that every answer is a whole
bundle, and that is why the copy catches up: the mutant that sends the time is
answered 304 although an item was added.

### LocationHook, LocationCaches

`LocationHook` is `useLocation` with the companion screen around it. On a phone,
`startNativeTracking` awaits twice (`NativePermission`, `NativePosition`), and the screen may be
left or closed meanwhile; on the web the browser's answers come when they come. A
permission that was granted earlier hides the banner on the web, and tracking cannot be
started there: that is the code's guard. `LocationCaches` is the server's cache of positions
(`Evicted`: the stale, then the older half) and its cache of nearby places with the
look-ups that fill it. `LosesOldest` says what a write may lose.

### ServerShutdown

`main`, the goroutine of the signal, and the work they interrupt, requests and jobs,
as sequences of statements. `ListenAndServe` returns when the listener is closed, so
`main` runs its deferred calls while `Shutdown` waits; `ClosePool` refuses new statements and
`PoolCloses` when the last has ended. `ServeFails` is a listener that fails: `os.Exit` runs no
deferred call, so that the pool stays open and whatever runs is killed where it is.

### MCServices, MCClient, MCLifecycle

`Collaborators`, `TokenBudget`, `ChatSummary`, `RateLimits`, `BookingAnalysis`, `ChatRelay`,
`ProviderStream`, `ServerShutdown` and `LocationCaches` share no state. `MCServices` puts them side by side: the
first state chooses a `focus`, and only that module moves, so that one run checks all of
them and adds their states. `BoundsHold` is the conjunction of their bounds
and types, `ForgettingIsSafe` what the two that throw things away to stay small may lose. `MCClient` does the same for `ChatHook`,
`OfflineCopy` and `LocationHook`, with two foci for the chat: `messages` stays in one trip and has
answers with text, `trips` moves between two and has answers without. `MCLifecycle` does it for
`TripRetention` and `AccountDeletion`, whose jobs one package starts. A screen is opened
a second time only after something was sent, for one that was left before leaves
nothing behind; and in `messages` nobody sends on the first screen before its (empty)
history is there.

## 3. The runs

| Run | Instance | Properties | What it shows |
|---|---|---|---|
| `chatturn_loop` | 1 turn, 1 session, 2 iterations, both special tools, failing writes, deletions, crash; 196,000 states | `TurnOrder`, `ShownIsStored`, `EveryTurnEnds`, `KeepsContract` | the loop ends on every path, tells its client how in one way only, keeps its rows in order and implements the contract |
| `chatturn_shared` | 2 turns in 1 session, 1 iteration, disconnects and crash; 1,044,000 states, turns symmetric | `AnswerKept`, `AnswersHaveQuestions` | of turns that overlap in a session, an announced answer is wherever its question is, and rows lose their question only to the turn that made the session and gives it up (`chatturn_question` shows that they do) |
| `lifecycle` | two foci. Trips: 1 trip, 2 sessions, 2 handlers, 3 requests; accounts: 2 requests, 2 servers, 2 retries; everything may fail; 138,000 states in all | `ArchivalClockNotReset`, `NewDeadlinesNeedEnd`, `JobsGetThere`, `FailedAfterAllRetries`, `RetriesBounded`, `EveryDeletionSettles` | no interleaving resets the clock or puts a deadline on the chat of a trip nobody ended, and both jobs get there; overlapping jobs neither fail a deletion early nor retry it beyond the limit by more than one attempt per further server |
| `mail` | 1 message, 1 pasting user, 2 bookings, 3 texts, 2 attempts, 1 loss; 2,239,000 states, bookings symmetric | `TriesBounded`, `SeenIsSettled`, `OneBookingPerConfirmation`, `EditsSurvive`, `RedeliveryFindsBooking` | concurrent imports end at one booking, and so does a message each time it is imported for one trip, whatever it was imported for in between; edits survive, tries are bounded |
| `tokens` | 2 tabs, 2 requests, 3 tokens, RPC and cookies, everything may fail; 290,000 states | `FamiliesAreSessions`, `SessionKept`, `LogoutIsFinal`, `EveryRefreshEnds` | rotation keeps one token per family and none in a revoked one, an undisturbed user stays signed in until a logout that is final, no tab waits for ever |
| `itinerary` | 2 calls, the owner and an editor, lists of 0 and 2 items, 3 items; 411,000 states | `DeletedOnce`, `OneItemPerBooking`, `RemovedEditorIsOut`, `AllOrNothing`, `EveryEditEnds` | rights hold to the last statement, a rewrite is all or nothing, reports are true, nobody waits for ever |
| `services` | eleven foci; 368,000 states in all | `BoundsHold`, `AcceptsOwnInvite`, `ForgettingIsSafe`, `OrderIndependent`, `ClientIsTold`, `ConversationFollowsTrip`, `ProviderContract`, `GoroutinesEnd`, `StatementsEndFirst` | each service keeps the bound or the promise named for it |
| `client` | 2 messages, 2 trips, 2 moves, 1 fragment; 1 screen, 2 syncs at once, 2 changes, 1 fault; 2 visits of the companion screen; 524,000 states in all | `OutcomeShown`, `ShownInOrder`, `IndicatorIsTrue`, `SendsEnd`, `CopyCatchesUp` | whatever ends a stream and whenever the history comes, the chat shows each outcome once and in order and waits for none for ever; overlapping syncs may store an old copy, or an incomplete one, and the next ones correct it; the button of the tracking tells the truth |

Four more runs each refute a sentence of the repository (section 6). The type
invariants of `ChatTurn`, `TripRetention`, `AccountDeletion`, `BookingIngest` and
`EmailPoller`, `RefreshTokens`, `ItineraryEdit` and `LocationHook`, and `OneEnding` of `ChatTurn`, are
proved (section 5) and not run again, nor are those of `ChatHook` and `OfflineCopy`.

Why the bounds are enough. Two iterations give the loop a first, a last and a
limit: every guard compares with the limit or with "retried before". Two turns
are the least that share a session; one iteration is enough there because rows
of tool calls are written like answers, by `TryStore`. Two fabrication retries is
the code's own number. Three requests are one to complete a trip, one to reopen
it and one to complete it again. Two retries instead of five have a first, a
last and a limit; two servers are the least whose jobs overlap. In `mail` two
bookings are the least that can be confused, and the texts are a confirmation, a
similar one with another code, and one without a trip, which linking can attach
later. The message always has the same text, and is for the trip or for none at each attempt;
the pasted text varies. Three
tokens are one that is rotated, its successor and a login after it. A list of two
items with one title and one item that was there are the least in which a rewrite
can be seen half done. In `services` three invitees against one permitted, two
streams, two turns, two procedures and two requests in progress are the least that
can pass a limit together; limits of two have a first, a last and one beyond, a bucket of one
is empty after a request, and
time runs long enough for two windows; nine rows are three refresh intervals;
lists of three bookings have every order of a pair with something before and after; two
tool calls let the second fill a slot before the first is announced, and a channel of one
event and one of two let it run full; two calls of a provider can be doubled
or swapped; two requests and a job are the least of which one is inside a statement and
one between two when the server ends; three travellers
fill a cache of two, with and without stale entries. In `client` two messages are the least of which one can be in the history
while the other is sent, and two moves are a return to a screen or a change of trip
during a stream; a fragment tells an answer that was cut from a whole one. Two changes and
two syncs let the older answer be stored last, and a fault is a lost connection, a failed
fetch or a closed app between two steps. Two visits of the companion screen are one that is left during an await and the
next, which must not be taken for it.

Deadlock is not checked, as the system may stop: turns, messages and requests
are finite in number, and a trip that is deleted stays so.

What some properties exempt, and why. `OneBookingPerConfirmation` and
`RedeliveryFindsBooking` leave out confirmations with a rival, a similar booking
with another code: the code falls back to similarity when a code is not found,
on purpose, and of two concurrent imports one may then end at the rival. They also leave out
bookings from which somebody has since taken the trip, the code or the time of the
confirmation (`Keeping`, by the history `shed`): not the user alone does so, for the merge of a
similar confirmation writes its own code over the booking's. What the booking has now is not
enough to tell, as a rival may come, take the code and leave again. `RedeliveryFindsBooking`
speaks of each trip apart, as the trip of a message is decided anew at each attempt:
across trips it does not hold (section 6).
`AnswersHaveQuestions` leaves out a turn whose session was made by another turn and dropped
by it (`DroppedUnder`), for there the question is lost (`chatturn_question`): it says that
nothing else loses one. `AnswerKept` has no such exemption: it speaks of the questions that
are still there, and assumes that no write fails.
`StatementsEndFirst` leaves out the `os.Exit` of a failing listener, which cuts statements off.
`RemovedEditorIsOut` lets a DELETE take what it saw while its user might edit, also if the
right is lost while it waits for the row. `SessionKept` and `LogoutIsFinal` leave out requests of
the browser that overlap and answers that are lost, `ConversationFollowsTrip` failed sends and
moves, `SpendBounded` (in `BoundsHold`) a day whose reset another call overlapped.
`EveryDeletionSettles` starts at "processing": a request that stays "pending",
because its update failed and its goroutine did not finish, is found by no job.

## 4. Fairness

- `EveryTurnEnds`: `WF(TurnStep(t))` for each turn. The goroutine runs until it
  returns, and the provider's stream ends by `EventDone`, by an error or by the
  per-turn timeout. Disconnects, crashes, panics and deletions are not fair.
- `JobsGetThere` (`EndedChatIsPurged` and `CompletedTripIsArchived`): strong fairness of the second
  half of each job (`PurgeExpired`, `ArchiveTrip`), weak fairness of the first and of time.
  Tickers start the jobs for ever, and a statement that is repeated for ever does not fail
  for ever; weak fairness would not do for the second half, as a crash or a failure disables
  it again and again. These conditions and the next stand in `MCLifecycle`, each for its focus.
- `EveryDeletionSettles`: strong fairness of giving up or retrying (on some
  server), weak fairness of listing, of an attempt's end, either way, and of hours. A
  deletion itself is not assumed to succeed.
- `EveryRefreshEnds`: strong fairness of the server's steps and weak fairness of an
  answer's arrival, or its loss; `EveryEditEnds`: strong fairness of an edit's steps. A
  step that waits for a row is enabled again and again and not always, and PostgreSQL
  serves those who wait for a row in turn. Nobody owes a request.
- `GoroutinesEnd`: weak fairness of the goroutine's steps and of the handler's, of the
  provider's goroutine and of its reader. A tool, a read from the network and
  a send to a client end, at the latest at their time limits; that clients leave, that
  time runs out and that other requests come is not fair.
- `SendsEnd`: weak fairness of each message's time-out, and of nothing else: neither the
  server nor the connection owes an event.
- `CopyCatchesUp`: weak fairness of each sync's steps. Timers fire every five minutes,
  and a fetch ends, well or not; how often it fails is bounded. The property assumes that a
  screen of the trip stays open with a connection.
- The other properties are safety properties and use no fairness.

## 5. What is proved

All for every value of the constants, from the named assumptions below and nothing else.
Most only say what kind of thing a constant is, and that markers such as `NoRow` are none
of the values they stand beside. These say more:

| Assumption | What it asks | In the code |
|---|---|---|
| `ChatTurnAssumption` | one iteration at least | seven (`chat/service.go:395`) |
| `ChatSummaryAssumption` | `SummaryThreshold` from `RecentWindow` to less than one interval above it | 50, 50 and 20 (`chat/summarize.go:14`) |
| `CollaboratorsAssumption` | one invitation at least, finitely many people and calls | ten (`handlers/collaborate.go:26`) |
| `TokenBudgetAssumption` | a limit and a turn above zero, finitely many streams | a limit of zero switches the budget off (`ai/budget.go:33`) |
| `RateLimitsAssumption` | two failed logins at least; a block as long as the window of failures; a bucket is full again before it is forgotten | five, and the server's constants (`cmd/server/main.go:345`) |
| `CachesAssumption`, `RelayAssumption`, `ProviderAssumption` | caches and channels with room for one | constants above zero |
| `EmailPollerAssumption` | one attempt at least | five (`emailimport/poller.go:64`) |
| `ImportedMailAssumption` | a message parses to the same code and time at each attempt, for whatever trip | what "the same confirmation" means |
| `AccountDeletionAssumption` | finitely many servers, one at least | each instance runs the job (`lifecycle/service.go`) |

Each row below names an inductive invariant, why the property needs it, and what is proved from it.

| Module | Invariant | Theorems |
|---|---|---|
| `ChatTurnProofs` | `TypeInv` = `TypeOK` and `ControlInv`: a turn that streams is within its iterations, and one past `ask` has a session | `TypeCorrect` |
| | `OrderInv`: every row lies in the session of its turn, whose program counter is past the question and, for an answer, past the loop | `TurnOrderHolds` |
| | `HistoryInv`: a turn past its question has that row in its session, an announcing one its answer, unless a turn that made the session has dropped it | `AnswersHaveQuestionsHolds`, `AnswerKeptHolds` |
| | `StreamInv`: what has been streamed, announced and told of errors at each point of the loop | `OneEndingHolds`, `KeepsContractHolds` |
| | `ShownInv`: the number of call rows of a turn against its iterations, and the texts they hold, at each point of the loop | `ShownIsStoredHolds` |
| `RefreshTokensProofs` | `RotationInv`: what is held or sent was issued, locks of a row exclude one another, and whoever is about to rotate a row holds it live | `TokensAreTyped`, `FamiliesAreSessionsHolds` |
| | `QuietInv`: while nothing was lost and no requests overlapped, where the live token is at each step of the one request | `SessionKeptHolds`, `LogoutIsFinalHolds` |
| `ItineraryEditProofs` | `EditInv`: the numbers a call is to insert under are nobody else's (`NumbersAreOwn`), and what it holds at each step (`StepsHold`) | `ItineraryIsTyped`, `DeletedOnceHolds`, `RemovedEditorIsOutHolds`, `AllOrNothingHolds` |
| | `LinksBounded`: the items linked and the imports that will link are no more than the calls, unless a lookup has failed | `OneItemPerBookingHolds` |
| `TripRetentionProofs` | `RetentionInv`: a running clock means a stamped completion, a listed trip a clock that has run out, a stamping handler a wish to complete | `TypeCorrect`, `ArchivalClockNotResetHolds`, `NewDeadlinesNeedEndHolds` |
| `AccountDeletionProofs` | `DeletionInv`: counts that jobs have read are no higher than the rows' (`SeenInv`), and at the limit only jobs that have read an older count can still try (`BudgetInv`) | `TypeCorrect`, `FailedAfterAllRetriesHolds`, `RetriesBoundedHolds` |
| `ImportedMailProofs` | every step of the whole is a step of a part or leaves it alone | `ImplementsParts` |
| | `PollerInv`: a message that is worked on is unseen (`BatchInv`), and its count is behind its tries by what lost counts account for (`CountInv`) | `MailTypeCorrect`, `TriesBoundedHolds`, `SeenIsSettledHolds` |
| | `BookingTypeOK`, which holds the unique index and is inductive | `BookingTypeCorrect`, `EditsSurviveHolds` |
| | `OwnInv`: the booking an import has found, or a message's last import for each trip named, is of its text and that trip, or has shed the trip, the code or the time of it, or is gone for good | `OneBookingHolds`, `RedeliveryFindsHolds` |
| `ServicesProofs` | `RelayInv`: of each trip and expert, whether it is in its slot with the result that will announce it on its way, or announced | `ClientIsToldHolds`, `ConversationFollowsTripHolds` |
| | `SummaryInv`: a summary covers all but the newest rows of the count it was made at, and what a turn has read is at most an interval behind | `BoundsHoldHolds` |
| | `BudgetInv`: while no call has overlapped a reset, counter and dates fit together, and those admitted are charged in advance | `BoundsHoldHolds` |
| | `SharingInv`: an invitation counts from its check on | `BoundsHoldHolds`, `AcceptsOwnInviteHolds` |
| | `BurstInv`: what was admitted since any moment, against the window or the tokens left | `BoundsHoldHolds` |
| | `LimitsInv`: a limiter and its copy that forgets nothing differ only where both admit | `ForgettingIsSafeHolds` |
| | `CachesInv`: no more positions than the maximum, none from the future | `ForgettingIsSafeHolds`, `BoundsHoldHolds` |
| | `AnalysisInv`: the list holds what was imported, under its numbers | `BoundsHoldHolds`, `OrderIndependentHolds` |
| | `ProviderInv`: the calls sent and in the parser's hands are those the upstream has sent, in order, and how a stream may end follows from the reason read | `ProviderContractHolds` |
| | `DrainInv`: a pool that has closed has no statement under way, as it refuses new ones from the moment it begins to close, so that `Exit` kills none | `StatementsEndFirstHolds` |
| `ClientProofs` | `LocationInv`: only mounted screens wait for an answer or have a timer, and the interval is that of the open one | `IndicatorIsTrueHolds` |
| | `HookInv`: the steps of a send follow those of its stream (`StepsHold`), stored rows of a turn grow (`RowsHold`), the guards and the bubble belong to the stream that runs (`GuardsHold`), each entry the hook made is of this visit and has the text its stream allows (`HookFits`), none that is due is missing (`HookShows`), entries stand in order (`AllOrdered`), and loaded ones are of other messages (`HistoryHolds`) | `OutcomeShownHolds`, `ShownInOrderHolds`, `ChatHookTypeHolds` |
| | `OfflineInv`: what a sync holds at each step; one that has stored its bundle leaves a copy behind | `OfflineTypeHolds` |

`KeepsContractHolds` is the refinement: the initial states of `ChatTurn` are
initial states of the contract, and each action is a step of it or a stutter.
`AnswerKept` is not inductive because a session can be dropped and made again by
an upsert; `HistoryInv` follows the row from the moment it is stored and shows
that only the turn that made the session can drop it while others run.
`ShownIsStored` speaks of turns that stored as many calls as they made iterations. Before
the end the rows may be behind by a failed write or a deletion, and must then never catch up:
`ShownInv` therefore bounds the count by the iteration at every point, and says what the
rows hold only where the count is reached.
`RetriesBounded` is a counting argument: at the limit each further attempt
uses up one job that still holds an old count, and a job gets a new list only
when it has none left, so attempts and such jobs together never exceed the limit
and the number of servers. The invitations, the budget and the links of a booking are bounded in the same
way: the set of calls that have checked and not yet written is added to what is written.

`ImplementsParts` lets the mailbox and the bookings be reasoned about apart:
`TriesBounded` and `SeenIsSettled` are proved of `SpecMail`, `EditsSurvive` of
`SpecBookings`, and all three carry over to the whole. `OneBookingPerConfirmation` and
`RedeliveryFindsBooking` need both parts. Their first form spoke of what a booking has now
and held on the instance of the run; the proof failed at a rival that takes the code and goes, which
more bookings and codes allow. They are now stated over what a booking has given up.

`OutcomeShown` and `ShownInOrder` are about one list that streams, the history and the user all
change. `HookInv` looks at it twice: as a set of the hook's own entries, which says what is
shown of each message and does not care where it stands, and as pairs `i < j`, which say in
which order and do not care how often. A delta changes texts, a history puts rows in front, an
event adds an entry at the end, and a send that fails takes one away; each of the four keeps the
two views for reasons of its own (`OwnReplaced`, `OwnLoaded`, `OwnAppended`,
`OwnWithout`, and `ListsFrom` for the order). A user who changes trip under a stream breaks the
guards, and one who sends early breaks the order, so that the parts are stated for `~disturbed`
and `~early` as far as they need it, and no further. `HookInvHolds` proves it for every step of
`HookNext`, also for those that the run's two foci leave out.

`OrderIndependent` compares the analyses of a list and of its reorderings. What the detectors
see of a list is its members and how often they occur; each import has its own number, so
`OfType` of two orders has the same members and, as nothing occurs twice, the same length
(`ServicesProofs`, its section on lists). The running minimum and maximum are shown to be that
of the set of times.

Both need facts about every list, which are proved by induction on numbers, not by the library's
induction theorems: a set of numbers at which something fails has a least member, by `Nat` being
well founded, and that member is neither 0 nor a successor (`LeastIn`, `AllOf`). From it come
the recursion that a function of `0 .. Len(list)` obeys (`Recursion`), what `Sublist` picks
(`SublistIsPicked`: the entries in the set, by an increasing map of places) and what `Deduped`
leaves (`DedupedReads`). All but the last stand in both
modules.

In `MCServices` and `MCClient` one part moves at a time, so that each part's invariant is kept by the
others' steps (`OneServiceSteps`, `OnePartSteps`); nothing but the parts' own steps is used of the whole.

Only model-checked:

- `EveryTurnEnds`, `JobsGetThere`, `EveryDeletionSettles`, `EveryRefreshEnds`,
  `EveryEditEnds`, `GoroutinesEnd`, `SendsEnd` and `CopyCatchesUp`: fairness and ENABLED are out of
  the prover's reach. They are all that the passing runs check and no theorem states.
- The properties of section 6, which do not hold.

## 6. Where code and words disagree

| Run | Property | What the code does |
|---|---|---|
| `chatturn_announced` | `AnnouncedSessionKept` | a turn whose last iteration only called tools announces its text and deletes its new session (`chat/service.go:365`) |
| `chatturn_question` | `QuestionKept` | a turn that got no text deletes the session it made with the question of another turn, whose answer then stands alone (`chat/service.go:365`) |
| `tokens_tabs` | `StaysLoggedIn` | two tabs that refresh at once sign the user out: the refresh in flight is known per tab, the token is stored per browser (`lib/transport.tsx:46`) |
| `shutdown_request` | `RequestsEndFirst` | `main` returns while `Shutdown` waits, so that requests do not have their ten seconds (`cmd/server/main.go:635`) |

Each is a property that states the sentence, and TLC's shortest behaviour
that breaks it; `PROJECT.json` quotes the lines.

Disagreements that no run shows, met while modelling:

- chat turn: an error of the provider reaches the client twice, as two error events
  (`chat/service.go:1025` and `:489`, both forwarded by `handlers/chat.go:609`), and the screen
  apologises twice (`lib/hooks/useChat.ts:533`); a panic after the answer adds an error to it;
  a call of `create_itinerary_items` in an iteration that stopped for
  tools is forgotten by the fabrication guard (`chat/service.go:669`); a client that
  leaves between two writes leaves a tool call without a result
  (`chat/service.go:596`); the audit row of an account deletion goes with the user
  (`lifecycle/service.go:258`).
- life cycle: an archived trip can be reopened, as "archived" falls to the default branch
  of the transition check (`trip/service.go:388`), and its chat is still purged at the
  old deadline, where `app/privacy.tsx:217` excepts only "chat history for a completed
  trip".
- bookings: a merge moves `updated_at` itself (`db/queries/bookings.sql:168`), so that the
  next confirmation is refused as if the user had edited the booking, against
  `booking/service.go:322`; a message that is processed again, because its mark failed, has its
  trip resolved anew (`handlers/booking.go:134`), and resolved to another one it makes a second
  booking there, where `DEPLOYMENT.md:186` calls it "a no-op".
- chat hook: a message sent before the stored session is read starts a second session of
  the trip (`lib/hooks/useChat.ts:378`, against `:109`); a change of trip does not end the old stream, whose
  events go to the new trip's screen (`:172`); a message sent while the history is
  loaded is shown twice, under two ids (`:271`).
- offline copy: a bundle whose bookings, messages or places could not be read is sent
  without them as if there were none, and the app stores it over a complete one
  (`handlers/bundle.go:194`, `:207`, `:266`); the app sends its date as a parameter the server does not read, and an
  unchanged trip is downloaded at every sync (`lib/offline/useOfflineSync.ts:70`, against `:5`); the date
  the handler compares is that of the trip's row, which no item, booking or message moves
  (`handlers/bundle.go:164`, against `:133`); a screen that opened before the first sync has nothing to
  show when the connection goes (`lib/offline/useOfflineTrip.ts:37`, against `:2`).
- positions: a tab that is left stays mounted, and its tracking runs on
  (`app/(tabs)/companion.tsx:64`); a phone that answers after the screen was closed starts a timer
  that nothing stops (`lib/hooks/useLocation.ts:208`); the cache of places grows past its maximum
  while nothing in it expires (`location/service.go:235`).
- server: when the listener fails, `os.Exit` skips the deferred `pool.Close` and
  `jobsCancel` and cuts off jobs and requests within a statement (`cmd/server/main.go:637`).
- summary: the threshold counts visible messages (`chatstore/chatstore.go:233`), the window
  and the rows the summary is made of count all rows (`chat/summarize.go:15`,
  `:31`), and the label "messages 1-N" therefore says more than it covers (`:222`);
  `chatstore.go:48` writes `>` where the code uses `>=`.
- budget: the comment at `ai/budget.go:60` says that one goroutine resets the counter;
  one that read the date before midnight resets it again.
- cache: `ai/cache.go:154` reads an entry after it has released the lock.
- lists of bookings: the check for a sparse itinerary also fires for an empty one.
- bundle: the header is of whole seconds and the row's date is not, and the
  names in the bundle are not those of the client's type.
- selection turn: a tool under a name that is not exact is run
  (`chat/service.go:980`) and not announced (`handlers/chat.go:489`); an itinerary
  update is never sent in selection mode, where the request has no trip; after the move,
  writes of another turn of the session and messages sent under the old scope find no
  session; of two trips created in a turn the session goes to the first, and the client
  shows the last.
- providers: a goroutine whose reader has left sends into a full channel for ever
  (`ai/claude.go:71`, the exception in `ProviderEnds`); at the token limit Claude and
  OpenAI end with a reason other than "tool_use", so that calls of that answer are
  executed and their results never sent back, and OpenAI's last call may have half its
  arguments, while Gemini reports an error; an answer whose body ends early without an
  error counts as complete.
- itinerary: two rewrites at once leave the union of both lists; an empty list of an editor
  who was removed is answered as done; one who was removed at the DELETE and
  invited again before the inserts appends to the list; a batch that ends in "forbidden"
  does not report what it inserted before; reordering by the chat is the
  owner's only, by the screens also the editors'; a removal by e-mail does not lower its
  case and is answered as done when it removed nothing; an import links an item again
  when its lookup fails.

## 7. What is not modelled

Prompts, formatting, exports to PDF and calendars, and calls to external services have no
order of their own. Signing of tokens and the identity providers' protocols are
cryptography and external. Geocoding, weather and search read only. The response
cache takes requests without tools only, and the server registers tools for every
request. Of the client, the screens and forms, which show what the hooks hand them. More than a
third of the implementation's lines is generated from protobuf definitions
and SQL queries; of these, the queries' functions are modelled where a statement's
condition matters, and the messages hold no behaviour. Of the trips, reordering, moving and cloning
are one statement or one transaction of their owner; public links are one statement each.

What may follow:

1. What holds of the chat's list after a change of trip under a stream, beyond the order of
   history and new messages.
2. The safety half of `CopyCatchesUp`: what a copy may be behind while no sync fails.
3. The ways of signing in that end at one account (`handlers/auth_email.go`,
   `auth_oidc.go`).
