# Formal models of deepseaport

deepseaport is an OpenAI-compatible HTTP proxy in front of DeepSeek's web chat. It multiplexes
requests over a pool of accounts, allows one stream per account, drives a browser to renew tokens
and WAF cookies, and retries and fails over when the upstream refuses. This directory holds TLA+
models of that program, the TLC configurations that check them, and proofs checked by TLAPS.
Paths below are relative to the repository; `cs` stands for
`src/deepseaport/completion_service.py`.

    tlc -workers 2 -config pool_slots.cfg MCFailover     # model-check a run
    tlapm FailoverProofs.tla                             # check proofs

`PROJECT.json` maps every definition to the lines it models, lists the runs, a mutant for each
property (a plausible bug that violates it), the findings, the hazards and the theorems.

## 1. Inventory

| Component | Code | State | Operations |
|---|---|---|---|
| Account pool | `accounts.py` | `_items`, `_cursor`, `_current`; per object a lock, `bad_until`, `banned`, `banned_until` | `acquire`, `aacquire`, `release`, `mark_bad`, `mark_banned`, `clear_cooldown`, `add`, `remove`, `set_current`, `status` |
| Request admission | `server_concurrency.py`, `server_routes.py` | a cancel event per request | `_acquire_slot_or_499`, `_watch_disconnect`, `_await_cancelable`; the endpoints that change accounts |
| Failover loop | `cs` | tries, first error, `failed_item` | `_complete_with_failover_sync`, `_switch_current_after_ban_failover`, `_refresh_waf_without_account_lock` |
| Token refresh | `cs` | `_TOKEN_REFRESH_INFLIGHT`, `_TOKEN_REFRESH_BAN_HINT`, `_LOGIN_FAIL_UNTIL` | `_refresh_token_via_obscura`, `clear_login_backoff` |
| Completion engine | `cs` | session id, token, headers, payload, retry counters | `_run_completion_core` with setup, `_attempt`, five retry loops and clean-up |
| Upstream client | `client.py`, `transport_http.py`, `protocol.py` | a connection | `create_session`, `fetch_pow`, `stream_completion`, `delete_session`; errors to events |
| SSE parser | `sse_parser.py` | last path, last fragment | `feed` |
| Stream bridge | `server.py` | a queue per response, a bounded executor, a cancel event | `_stream_completion`: producer thread and consumer generator |
| Tool calls | `tools_support.py` | none | parsing and streaming of tool-call markup |
| Configuration store | `config.py` | the `Settings` object, `config.json` | `Settings.save`, `load` |
| CURRENT selection | `accounts.py`, `server_routes.py` | `active_account` and `_current` | select, add, delete, `sync_current_from_settings` |
| Ban labels | `accounts.py` | a cache with a background filler | label refresh |
| WAF bridge | `obscura_bridge.py` | cookies, in-flight warmup | `warmup` |
| MCP client | `mcp_client.py` | a child process, pending requests | request, notify, close |
| Server runner | `server_runner.py` | running servers and ports | port scan, start, stop |
| Browser login | `auth.py`, `login_policy.py` | a page | polling loop and verdict |
| Token normalisation, PoW, browser control, CLI, chat client, TUI, dry run | other files | — | pure I/O, rendering, or helpers |

**How they interact.** An endpoint on the event loop waits for a slot (`aacquire`, in chunks), then
hands the request to a worker thread that runs the failover loop. That loop runs the completion
engine on the account's slot, reads what the engine did to the account, releases the slot, and may
take another account's with the blocking `acquire`. The engine calls the upstream client, the token
refresh (shared between requests through two module-level dictionaries) and the WAF bridge (for
which it gives the slot away and later takes it back). Streaming answers cross from the worker
thread to the event loop through a queue. The operator's endpoints change the same pool, settings
and backoff while all this goes on.

**What is hard.** A pool object is guarded by a `threading.Lock` that has no owner and that is
released by several code paths; scans test an object before they lock it; two kinds of callers (loop
and threads) scan at the same time. Errors are classified by signs in free text, and each sign has a
retry loop of its own that works on what the loops before it left. Clients leave at any await.
Waits have deadlines (90 s for a slot, 10 s in failover, 180 s for a shared login).

**What makes each part correct.** Pool and failover: slots are exclusive and never lost, a banned
account is not handed out, a request does not come back to an account that refused it, CURRENT stays
valid, every request is answered. Token refresh: one login at a time, its verdict reaches those who
waited, the backoff is kept, every call returns. Completion: text goes out once, an attempt is
consistent with the token and session in use, sessions are not deleted under an attempt and not
left behind, the run ends, with one login at most. Stream bridge: every response and every
producer ends, a slot comes back in every ending, a reply that ends well was shown in full and in
order. Settings and selection: nobody reads half a configuration, the pool and the settings agree
once the calls are over, and the newest file holds everything. Browser profile and MCP client: one
browser at a time, every caller returns, with the answer to its own request. Login: a verdict rests
on what the page showed. Upstream, parser and tool calls: the text comes out as it was meant, a ban
is recognised in every form, calls are recovered whole and a cut reply does not pass for an answer.

## 2. Modules

| Module | Models |
|---|---|
| `AccountPool` | the pool's state and one operator per method or step of a method |
| `Failover` | requests and the operator on the pool (EXTENDS `AccountPool`) |
| `AccountSlots` | abstract: each object has a holder or nobody |
| `TokenRefresh` | the shared browser login and its backoff |
| `CompletionCore` | one request inside `_run_completion_core`, with failover's next run |
| `CompletionOutcome` | abstract: what the failover loop relies on of a completion |
| `StreamBridge` | streamed responses: generator, producer, queue, timeout, bounded executor |
| `ConfigStore` | the settings, `Settings.save` step by step, `load_settings` after a crash |
| `OperatorApi` | endpoints and workers that change accounts, selection and bans (EXTENDS `ConfigStore`) |
| `BrowserProfile` | warmups and logins that share a browser profile |
| `McpClient` | requests to a child process and their answers |
| `LoginPage` | the two polling loops of the login page, and their verdict |
| `BanEnvelopes` | JSON envelopes and the code that finds a ban in one |
| `SseParser` | `StreamParser.feed`: the events of a line (EXTENDS `BanEnvelopes`) |
| `UpstreamEvents` | answers of the upstream and the parser that reads them (EXTENDS `SseParser`) |
| `JsonRepair` | the balanced scan and the four repairs of JSON, on characters |
| `ToolCalls` | replies as tokens, and the six formats of tool calls |
| `MCComponents` | the last six machines side by side, and their small instance |
| `MCFailover`, `MCTokenRefresh`, `MCCompletion`, `MCStreamBridge`, `MCOperatorApi` | small instances |
| `FailoverProofs`, `TokenRefreshProofs`, `CompletionProofs`, `StreamBridgeProofs` | theorems about the module of that name (`CompletionCore` for the third) |
| `OperatorProofs` | theorems about `OperatorApi` with its `ConfigStore` |
| `BrowserProofs`, `ReplyProofs` | theorems about `McpClient`, `BrowserProfile` and `LoginPage`, and about `UpstreamEvents` with its parser |
| `ComponentProofs` | theorems about `JsonRepair`, about the cut replies of `ToolCalls`, and about `MCComponents` as a whole |

`CompletionOutcome` is the joint between the two larger models. In `Failover` a request at `run` may
succeed, mark its account banned and fail, fail with a 401 or otherwise, stop because its client
left, or give its slot away a bounded number of times; `CompletionCore` is shown to do nothing else
(`ContractSpec`). So what `Failover` takes for granted of a completion is checked where the
completion is modelled in full.

### Account pool and failover

A *step* of the model is what the code does between two points at which another thread can get in:
`acquire()` is a snapshot under the guard (`Snapshot`), then per candidate the membership and cooldown
tests (`Consider`), the ban (`CheckBan`), the non-blocking lock (`TryLock`) and the re-check (`KeepLock`,
`PutLockBack`), then `Exhausted`. `aacquire()` runs on the event loop and only yields between two
scans, so in it a scan excludes everything else that is on the loop (`LoopFree`) but no worker
thread. `pc` values name the place: `snap scan flag end unflag unend uncool try check` (acquiring),
`granted start run`, `reacquire` (slot given away for WAF), `marking marked` (inside `mark_banned`),
`failing decide` (error), `won switch finish` (success), `orphan` (left while the slot was given away).

The three marks of an object (`bad_until`, `banned`, `banned_until`) are guarded by no lock, and every
read and write of them is a step: `ReadBan` is `PooledAccount.banned`, in scans (`CheckBan`) and in the
thread that lists accounts (`ReadStatus`, `StatusStep`); `RaiseBan`, `SetFlag` and `SetCooldown` are the
writes of `mark_banned`; `Unblock` enters `clear_cooldown`, under the pool's guard, and `ClearStep` is one
of its writes. Two history variables let properties speak of what such threads did: `wiped` has the
objects whose running cooldown went when a lapsed ban was cleared, and `refused[r]` is the object that
answered `r` a 401, until somebody cuts the cooldown short that it got for it.

Abstractions: timestamps are countdowns and a tick is some tens of seconds, so none falls between the
moment a candidate is found free of a ban and its lock, or between two writes of `mark_banned`
(`Hurried`), and no `acquire()` outlives its deadline by a tick. The scan's `now` is therefore the
current time. One object is listed, and one call of `clear_cooldown` runs, at a time; the latter is the
guard's doing, the former a bound. `_cursor` is kept modulo a common multiple of the pool's sizes. A
PooledAccount is an object `i \in Item` and stands for an account `AccountOf[i]`; `add` makes a fresh
one, and the object of a removed account lives on in the hands of whoever uses it. `Unblock` is both
the unblock endpoint and the clearing at the end of `PUT token`. Left out: use counters, logging,
the saving of settings and `settings.active_account`, which are `OperatorApi`'s.

### Token refresh

`Lead`/`Follow` is the election under `_TOKEN_REFRESH_LOCK`; then the leader's backoff test (`SkipLogin`,
`StartLogin`), the browser (`LoginEnds`), the ban hint, the outcome (`StoreOutcome`) and the `finally`
(`CleanUp`) are separate steps, and so are a follower's reading of the token and of the hint. `TypeOK`
includes `EntriesOpen`: no account keeps an entry whose event is already set. `PUT
token` is two steps, as the handler awaits between them. Refreshes are bounded by `MaxEvents`, and
so the runs switch the deadlock check off: after the last one nothing more may happen. Accounts
without credentials return at once and are left out.

### Completion engine

An upstream error is the set of signs the code looks for in its text ("waf", "token", ...), which is
all that the control depends on. The five retry loops are one action, `Retry(s)`: loops run in the
order of `Position`, so the loop that goes round is the first one, from the present stage on, whose
condition holds (`Due`). Sessions are numbered; `owner` remembers which token created each, and
`asked` which deletions were asked for. `LeaveCreate` is the client that leaves while a session is
created by a pool job that nobody stops. `Textless` names the signs that only an error before any
text carries. The code takes that for granted for bans (`server.py:144`); the run
`completion` assumes it for every sign but "overload" and "other"; without it for bans `TextOnce` is
false (section 4). The HTTP status of a failure is `UpstreamEvents`' and the message `ToolCalls`';
usage counts are left out. A finished request does nothing more, so deadlock is not checked.

### Stream bridge

`gen` is the response generator of `_stream_completion`: `ready` when the handler has returned it,
`open` from its first step, which submits the producer (`StartStream`), `closed` after its `finally`,
which sets the cancel event (`Close`). `job` is the producer: `queued` in the executor (`backlog`), then
on a worker. It reads an event and puts its text in two steps (`ReadEvent`, `PutText`), since the
cancel event is looked at only before the first; `EndCompletion` is the end of `_run_completion_core`,
`ReleaseSlot` what the failover loop does with the slot, `Report` the last item of the queue. In
buffered mode (`live` false) no text goes out piecewise, and `out` carries the last item alone.

The job is `CompletionOutcome`'s, on the one account of its request: going on with another account is
`Failover`'s. `NeverStarted` stands for the server library, which drops the body of a response without
having started it when the client is already gone; Python then does not run the generator's
`finally`. Attempts are not timed: a consumer may time out at any point of a job whose queue is
empty, as the code's may for a job that waits for a worker, for a slot or for a login. Left out: the
framing of chunks and the raw thread used when the
executor is shut down.

### Settings, selection and the operator's endpoints

`ConfigStore` has the settings in memory, the file and `save()`: its payload is read field by field and
without the lock (`ReadAccounts`, `ReadActive`), then the temporary file is written under the lock, renamed,
or, when the rename is refused, the file is truncated and filled in place, unless opening it is refused too. A `poor` disk refuses
renames and fails writes. `begun` and `fileNo` number the saves, so that a property can tell a file that
is old from one that is wrong. A crash (`Reload`) may come between any two steps.

`OperatorApi` has one task per call. What a handler does between two awaits is one step on the event
loop, held while a save runs on the loop itself (`loop`), and what it hands to a thread interleaves with
everything. The pool is made by the first request; each later one first runs
`sync_current_from_settings` (`Receive`). `add` and `delete` change the pool's list and then the settings',
in steps; `kept` is the list `remove_account` has built, if there was anything to drop (`NothingToDrop`). The workers mark bans, and move CURRENT after a
failover. `overlap` and `crossed` record that two edits, or two changes of the selection, were under way at
once: the code promises nothing then, and the properties say so.

### Browser profile, MCP client and login

`BrowserProfile`: `Warmup` is the fast skip and the election under `_warm_lock`; a leader then takes the
profile's lock and starts up to three processes one after another, a login takes the same lock with a
deadline and starts one. `browsers` are the live processes that somebody refers to, `orphans` those that
hung while `McpClient`'s constructor initialised them or that outlived the kill of its `close()`. `McpClient`: `_send` is cut where another thread can get in (checks,
registration, write, wait, `finally`), the reader's lookup and `put` are two steps, and a request has a
number of its own besides its id, so that a late answer is told from the right one. `LoginPage` runs
either driver on readings of the page chosen at will.

### Upstream, parser and tool calls

An envelope is a record of what the code looks for. `UpstreamEvents` writes a text of numbered pieces in
any encoding the parser reads (single chunks, continuations, batches with or without a path of their
own, nested lists), with lines of noise between them, and ends it by an end, an error or a cut
connection; other answers are JSON bodies, drained streams, error statuses and answers to the calls
before a completion. `meant` is what the upstream said and `events` what came out.

`JsonRepair` grows a text character by character and compares the four repairs, run in a row, with what
the place of each character calls for. `ToolCalls` writes wanted calls in one of eleven formats between
prose, thoughts and stray braces, cuts the reply at any token or inside a value, and reads it with
`Parsed` and `LooksTruncated`. Recursive scans are functions on positions. Both operators were compared
with the functions of `tools_support.py` on everything the runs reach, 55 926 texts and 13 848 replies:
the repaired texts, calls and finish reasons are the same, and the rest of a reply differs in the
rendering of separators only. Left out: rendering tools into the prompt, the coercion of values, the
quoting and entities of attributes.

## 3. Runs

| Run | Expect | Shows | States |
|---|---|---|---|
| `pool_slots` | pass | slots exclusive and never lost, no return after a 401, refinement of `AccountSlots`, every request is answered, also one that leaves during its WAF refresh | 300 k |
| `pool_operator` | pass | no banned hand-out, with marks read and written one by one while the account is removed, added again, selected, unblocked and listed, from a saved ban | 1.27 M |
| `unknown_ban` | violation | a lapsed ban that is cleared late takes a fresh one along | |
| `foreign_release` | violation | a request that left during the WAF refresh opens another's lock | |
| `refresh` | pass | one login at a time, backoff kept, verdict delivered, calls return | 281 k |
| `refresh_leak` | violation | a login skipped in backoff leaves its in-flight entry | |
| `completion` | pass | text once, consistent attempts, sessions accounted for, one login, contract, every run ends | 439 k |
| `bridge` | pass | streams and producers end, also at the executor's limit, replies complete, slots accounted for | 186 k |
| `unstarted` | violation | a response that is never started keeps its slot | |
| `operator_api` | pass | no half-written file, both selections and both lists agree, the newest file is complete | 1.37 M |
| `components` | pass | one browser, own answers, earned verdicts, replies reassembled, bans recognised, repairs safe, calls recovered, cuts noticed, callers return | 209 k |
| `truncated_call` | violation | a block that was cut off is executed | |

**Bounds.** Two requests on two accounts are enough for every pairwise race of the pool: a race is
between two holders of one object, a scan and a mark, or a scan and a removal. Three requests are
needed only for `foreign_release` (one that left, one that took the lock, one that gets in). One of the two requests of
`pool_slots` may meet a WAF block and leave during the refresh. What that breaks needs the third, so
`OneStreamPerSlot` and `SlotsSpec` say nothing about it there; `NoLeakedSlot` and `EveryRequestEnds` do.
`pool_operator` has one account, as two objects of which one follows the other: marks are kept by
object, and at stake are four threads on the marks of one, two requests, an unblock and a listing, one
more than a race of a reader, a clearer and a marker needs. Bans end in one tick or two or have no known
end. `unknown_ban` has one request and a listing thread. Timers keep the code's order: failover wait
(10 s) shorter than the 401 cooldown (60 s), which is no longer than a ban's (120 s). With one account
there is no failover, and in `pool_operator` nobody waits for a slot. `MaxRetries` is 1, its default, where
something is retried.
`CursorCycle` covers every size of the pool. `refresh` has one account, since
accounts share nothing but the dictionaries, which are keyed by account; three refreshes let a
follower of one meet the next, and two lengths of backoff tell "longer" from "shorter". `completion` has all
signs alone and three pairs that make two loops due. `bridge` has two requests, one account and one
worker, the smallest system in which the worker waits for a slot whose holder is queued behind it:
the first request gives its slot up for a WAF refresh, the second is admitted and queued, the first
wants its slot back. Two pieces of text let the end of a reply come behind one that is shown and one
that is not.

`operator_api` has three tasks with one call each on two accounts, and one crash: an addition or a
selection (or a failover's switch) meets a removal or another change of what is saved, while a third
request synchronises. The calls of the second task include what a worker does (`ban`). That is every
pair of a change to the lists, the selection or the bans with a request between them; a task does not
make a second call, since after the first it holds nothing. From an empty file two tasks start: an
account is deleted that another call has just put into the pool and not yet into the settings. `components` picks one machine per
behaviour. Profile: two warmers and two logins, so that a leader has a follower and a lock has two
waiters. MCP: two callers and three requests, so that one is registered while the answer to an earlier
one is late. Login: three readings, of which the last two decide. Upstream: three pieces of text, one or
two to a line, so that a continuation follows a batch. JSON: six characters, enough for a string, an
escape, a comma and both braces. Tools: up to two calls in each format, each of them wanted, unknown,
misspelt or over the limit.

**Fairness.** `Failover` has weak fairness of each request's steps (threads run, upstream calls carry
timeouts) and strong fairness of `Tick`, which is disabled while some request is `Hurried` and
comes round between such moments, as wall-clock time does: each of them takes a few instructions, so
that time passes however many of them there are. `TokenRefresh`: weak fairness of each call's
steps and of `Tick`. `CompletionCore`: weak fairness of the one thread. `StreamBridge`: weak fairness of each
response (its client reads what it is sent, or leaves), of each producer (upstream calls and warmups
carry timeouts) and of `Tick`. No fairness is assumed of
clients, of the operator, or of any lock being free: `EveryRequestEnds` shows that a slot comes free because
its holder ends. `components`: weak fairness of each warmup and each
login (processes answer or run into their timeouts), of each MCP caller (its wait has a timeout) and of
the reader; none of the child, of `close()`, or of anyone's calling. `operator_api` has safety properties
only. A client of `_await_cancelable` and the poll of `Reacquire` get through because only finitely many requests compete. With three requests, or with
marks that others clear, `EveryRequestEnds` would need strong fairness of `Snapshot` too: the loop
serves its tasks in turn, and the model's scans could pass one of them over for ever.

## 4. Findings

1. **`foreign_release`** (`cs:544`). After a cancel during the WAF refresh the request no longer holds
   its lock, but the failover loop releases it all the same; the comment at `cs:465-466` takes the
   release for a no-op, which it is only while nobody else has taken the lock. `README.md:37` promises
   one stream per account.
2. **`refresh_leak`** (`cs:267`). The early return in backoff comes before the `try` whose `finally`
   removes the in-flight entry; from then on every refresh of that account waits 180 s for nobody, even after
   the backoff was cleared, which `cs:56` says a manual token or unblock does.
3. **`unstarted`** (`server_routes.py:124`). The handler hands its slot to a generator whose producer
   gives it back. If the client leaves before the generator's first step, neither runs, and the account
   stays locked until the program is restarted; `server.py:303-304` says that when the generator is
   closed the producer stops "so the account lock frees".
4. **`truncated_call`** (`tools_support.py:850`). The DSML scanner lets a parameter without its closing
   tag reach to the end of the text and an `invoke` block end anywhere, so that a reply cut off inside a
   block gives a call with half a value, or without a required parameter, and `finish_reason`
   "tool_calls"; `looks_truncated_tool_attempt` is asked only when no call was found. `tools_support.py:1188`
   says "truncated calls never executed". The JSON formats do not do this (`CutNoticed`).
5. **`unknown_ban`** (`accounts.py:118`). `PooledAccount.banned` tests a ban's end and then clears flag, end
   and cooldown in three writes, in scans and in the thread that lists accounts, without a lock. A ban
   that `mark_banned` writes after the test goes with the old one. `accounts.py:109` says that bans
   without a known end stay until the user clears them. The last write alone, delayed, leaves a ban
   with its mark and without its cooldown, which a scan past its ban test does not notice: it tests
   only the cooldown again under the lock. `NoBannedHandout` therefore leaves out bans whose cooldown was
   lost this way (`wiped`). The other clearing, `clear_cooldown`, is harmless in this respect because it
   resets the cooldown first and the marks after: in the opposite order the run finds a banned account
   handed out.

Seen while modelling, and not held by a run:

- *A ban after text* (`cs:551`) is failed over and the reply streamed again from its start. `server.py:144`
  says that bans carry no content prefix, while `client.py:240` looks for them in the body of an event
  stream. `TextOnce` holds under `Textless`, which leaves this out, and its theorem assumes it.
- *The failover budget* (`cs:537`) counts attempts, and a wait for a busy account ends with the first
  error, so that an account that works may stay untried; `README.md:131-133` says that the request fails
  over to the next account with a working token.
- *An orphaned browser* (`mcp_client.py:46`). A child that hangs while the constructor initialises it is
  closed by nobody, one that outlives the kill in `close()` (line 159) is given up, and `BrowserLogin.run` releases the profile's lock all the same, which
  `obscura_bridge.py:96-98` says must be held for the process's lifetime. `OneBrowserPerProfile` counts the
  processes that somebody refers to; with the `orphans` added it is false.
- *A lost addition* (`accounts.py:216`). An account added while another is removed may vanish from the
  settings and live on in the pool until the restart. `RosterAgrees` excludes overlapping edits.
- *A saved ban* (`server_routes.py:224`). `PUT token` saves the settings before it clears the ban, so that the
  file keeps it and a restart blocks the account again. `NothingElseLost` asks that no ban is missing
  from the file, not that none is too many.
- *A token set by hand* (`cs:293`). A login in flight overwrites it; nothing in the repository says which
  of the two should win.
- *An older payload* (`config.py:145`). Of two concurrent saves the one that began first may write last.
- *Warmth without new cookies* (`obscura_bridge.py:227-236`). A warmup whose processes all failed keeps the
  old cookies and stamps them as fresh.
- *Closed by generic tags.* A DSML block whose parameters are closed by `</>` may be cut and still end with
  "stop": each generic tag counts for every kind of block. `CutNoticed` asks it of the other forms.
- *A ban named by its code only.* An envelope with the ban's code, no expiry and a message without a word
  of a ban is answered 403 when `feed` reads it and 502 when `_ban_stream_event` does. `BanAnswered` asks
  for 403 where there is an expiry.

## 5. Theorems

All are theorems of the specification for every value of the constants that satisfies the named
assumption of its module (numbers are natural, "nobody" is not somebody), and for replies, queues and
histories of any length. Where a theorem has hypotheses of its own, they are named below.

`FailoverProofs`
- `TypeCorrect`: `TypeOK`.
- `NoBannedHandoutHolds`: by the invariant `BanInv`, for any number of requests, objects and threads that
  write marks one by one. An object is `Covered` when its being marked
  banned comes with a cooldown, or it is still being marked, the user's `clear_cooldown` is at it, or it
  was `wiped`; a request that
  has found its candidate free of a ban (`Trusting`) has a covered one, until it has tested the cooldown
  under the lock. `CurrentStaysValidHolds`: from the types.
- `NoSlotLeaks`: unconditional. `OneStream`, `LocksImplementSlots`: under `[][~ForeignRelease]_vars`, that is
  in the behaviours in which no request that has lost its lock during the WAF refresh opens the lock of
  another. Clients may leave and WAF blocks come in them as they like. The inductive invariant `SlotInv`
  says that whoever is at a place where it holds a slot has its object's lock taken, that two such
  requests have different objects, and that a taken lock has its request. A `ForeignRelease` breaks
  it, and happens (finding 1).
- `NoReturnAfter401Holds`: by `ReturnInv`, that the object in `refused` stays cooled down for longer than the
  request's deadline, and that an object tried after a snapshot is another one. Assumed is only
  `InvalidTicks > FailoverTicks`: a failover waits (10 s) for less than the cooldown after a 401 lasts (60 s).
  Whoever shortens that cooldown, an unblock, a lapsed ban that is cleared or a shorter ban marked
  by another request, takes the object out of `refused`, and what the property then says of it is nothing.

`TokenRefreshProofs`
- `RefreshTypeCorrect`, with `EventInv`; `OneLoginPerAccountHolds` (`LeadInv`: a leader's event is the registered one of
  its account, and events are made once), `NoLoginDuringBackoffHolds`, `FollowerGetsTokenHolds`
  (`EventInv`, `OutcomeInv`: once an event is set, its login's token was stored before).
- `FollowerGetsBanHolds`: by `HintInv`. The hint is kept by account, so that a follower may read a later
  login's; while its event is the last one made, the entry of its account is no younger, and nobody else
  can have written the hint in between.

`CompletionProofs`
- `CompletionTypeCorrect`: `TypeOK`, with no loop going round more than `MaxRetries` times (`PhaseInv`
  says which stages each place of the program can be in).
- `OneLoginHolds`: by `LoginInv`, that a login was asked for only where the setup used its round or the
  token loop its one.
- `ContractHolds`: every step is a step of `CompletionOutcome` or a stutter, under the mapping at the end
  of `CompletionCore`.
- `TextOnceHolds`: by `EmitInv`, under the assumption `Textless` has for every sign that is retried and
  for bans. Without it for bans it is false (section 4).
- `AttemptConsistentHolds`, `SessionAliveHolds`, `SessionsAccountedHolds`: by `SessionInv`. `StageInv` says
  which loops each place can be in, `OwnerInv` which of payload and headers already belong to the
  session in use at each place inside a loop, `AliveInv` that neither the session in use nor one just
  created was asked to be deleted, and `AccountInv` that every other one was, or is abandoned.

`StreamBridgeProofs`
- `BridgeTypeCorrect`: `TypeOK`, by `PlaceInv`, which ties the places of a generator and of its producer
  to each other.
- `ReplyCompleteHolds`: by `QueueInv`, that the queue holds exactly the text put and not shown yet, and
  the end of the reply, if it is due, behind all of it.
- `SlotsAccountedHolds`: a taken lock has a request that will release it, or was lost by a response
  that was never started (finding 3).

`BrowserProofs`
- `McpTypeCorrect`, `OwnAnswerHolds`: by `McpInv`. Ids are drawn once, so that a request's id is its number;
  what is asked, written and taken keeps both (`LineInv`), the queue of an id only ever holds the answer to
  it or the wake-up (`QueueInv`), and a caller goes on only when its queue is not empty (`CallInv`).
- `ProfileTypeCorrect`: `ProfileTypeOK`, which bounds the `orphans` by the calls there can be. By `OrphanInv`:
  there are at most as many orphans as logins whose process has been given up, in the constructor or in
  `close()` (`Settled`). It needs
  finitely many login threads.
- `OneBrowserPerProfileHolds`: by `LockInv`, that the places inside `profile_lock` are exactly the holder's, and
  those with a process exactly the processes'. `OneLeaderHolds`: by `FlightInv`, that a leader's event is
  the registered one.
- `LoginTypeCorrect`, `VerdictEarnedHolds`: by `BanInv`, that the streak counts readings at the end of
  those taken which show a ban and nothing else, and stays below two while the login lasts.

`OperatorProofs`, for every file the program may start from:
- `OpTypeCorrect`, `NeverHalfWrittenHolds`: by `PhaseInv` (when a call may be saving) and `WholeInv` (on a good
  disk no save gets to overwriting).
- `RosterAgreesHolds`: by `RosterInv`. With one edit at a time the lists differ by the account it
  names, in the way its place says. `SelectionAgreesHolds`: by `SelectionInv`, likewise for the selection.
  A first form of `SelectionAgrees` could not be proved, and was false on larger instances than the run's:
  after overlapping edits have lost an account from the settings, removing it deselects it there alone. The
  property now says so.
- `NothingElseLostHolds`: by `LostInv`. The payload of the save begun last is up to date, in each
  field it has read, unless some task has changed something and still owes a save.

`ReplyProofs`
- `ReplyReassembledHolds`: by `Reassembling`. While the answer is read, the parser's path is that of the last
  text sent, nothing terminal was yielded and the texts yielded are those sent. Each encoding of a piece is
  shown to give that piece (`SaidOne`, `SaidTwo`), each line of noise no text (`NoiseHeard`), and each end
  the end (`EndHeard`). `FlattenSeq` puts the events of a batch together and picks the texts out of a
  reply of any length. It is a recursive function; that it exists, is unique and maps concatenations to
  concatenations is proved by the least counterexample (`LeastNat`, from the well-foundedness of `<`),
  as the library's induction cannot be used.
- `UpstreamTypeCorrect`: `UpstreamTypeOK`. Whatever a line holds, batches and nested lists included, `feed` yields
  events of the declared kinds only (`HeardTypes`), and so does every answer that is no stream (`AnswerTypes`).
- `BanAnsweredHolds`: for every envelope of `Envelopes`, of which the run sends a part. `BanEventAnswers` and `FeedAnswers` say of each reader that its error does what the property asks,
  and that it passes over an envelope only where there is no ban.

`ComponentProofs`
- `RepairsSafeHolds`: `RepairsSafe`, for texts of any length. A text after some repairs is the text of one piece
  for each character it had before them (`FlattenSeq`), of no, one or three characters. A repair of such a text
  is one of its pieces (`EditedPieces`); the lexer comes to a piece in the state in which it came to the
  character that the piece stands for (`PieceStates`); and the neighbours each repair looks for are the
  original's: the escaping changes nothing outside strings (`EscapeKeeps`), and a comma that was dropped
  stood between no word and its brace or colon (`Neighbours`, `KeysKept`). That a balanced object stays one
  follows by counting the braces piece by piece (`BracesKept`). The inductions are over intervals and on a
  set, `UpTo`, which comes from `LeastNat` too.
- `CutEndsInLengthHolds`: the second part of `CutNoticed`, for any number of calls. In a list, every call
  that ends began two tokens before, so that the closing brackets map one to one to opening ones other
  than the list's (`JsonBody`, `ListTruncated`); in blocks, the opening tag is left over and nothing else
  could pass for its end (`BlockTokens`, `BlocksTruncated`). What arrived is a cut of what was written
  (`ArrivedInv`, the invariant): whole tokens, the last one perhaps in part.
- `ComponentsTypeCorrect`, `ComponentsSafe`: each machine's specification holds of the six side by side
  (`EachPart`), so that what is proved of each holds of the module that TLC runs.

## 6. What stays with TLC

The liveness properties, which need fairness: `EveryRequestEnds`, `EveryCallReturns`, `EveryRunEnds`,
`EveryStreamEnds`, `EveryCallerReturns`.

`CallsRecovered`, and of `CutNoticed` that the calls are a prefix of those due: what the scans of
`ToolCalls` compute for every reply. There are eleven formats of writing and six of reading, tried one
after another on what the ones before them have left, and the wanted result is put together by folds
over calls of any shape (`Wanted` is left open). They are checked on all replies of up to two calls, cut
at any place, and were compared with the code there.

## 7. Not modelled, and what remains

Proofs that would be worth having: the scans of `ToolCalls`, format by format, with the pieces of
`ComponentProofs`. Models: several listing threads at once in `Failover`, and unstreamed requests in
`StreamBridge`: they run on the default executor and have no consumer timeout, so a worker that waits for the slot of a queued
completion waits for a client to leave.

Left out for good: browser control and PoW (external programs and a WebAssembly hash), the server
runner (a thread around uvicorn and a scan for free ports), the ban labels (a display cache that no
decision reads), token normalisation (a pure conversion), the CLI, chat client, TUI and dry run
(sequential I/O, rendering and canned answers).
