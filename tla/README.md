# Sodium in TLA+

Sodium is a web application server: an IIS extension (`src/isapi.c`) that serves
`.htsql` pages. A page is HTML with embedded HTSQL procedures. The server parses
a page once per user, keeps the parsed page with its data blocks in the user's
session, and answers later Ajax requests from that state. This directory holds a
TLA+ model of its core, the TLC runs that check it and the TLAPS proofs about
it.

Contents: [inventory](#1-inventory), [modules and plan](#2-modules-and-plan),
[sessions](#3-sessions), [answers](#4-answers), [data blocks](#5-data-blocks),
[calls](#6-calls), [bodies of functions](#7-bodies-of-functions),
[variables](#8-variables), [texts](#9-texts), [runs](#10-runs-and-bounds),
[proofs](#11-proofs), [findings](#12-findings),
[limits](#13-what-is-not-modelled).

## 1. Inventory

All paths are under `src/`. `PROJECT.json` has the same list with the status of
each component, and every hazard at its line.

| Component | State it keeps | Operations | What makes it correct |
|---|---|---|---|
| Session registry (`mkSession.c`, `mkapplication.c`) | doubly linked list of `SodiumSession`, two globals for its ends, per session a private heap, an id and `sessionReadyState` | find, append, destroy, sweep idle sessions | the list holds live sessions, at most one per user; no pointer into freed memory; a destruction is finished once and for all |
| Request life cycle (`HandleFrmxRequest.c`, `isapi.c`, `SodiumHttpRequestHandler.c`, `dispatcher.c`, `dispatcherSmall.c`) | the request context; a named kernel mutex per session; one critical section | accept, find the session, wait, dispatch by kind of request, release | one request of a session at a time; every request ends; locks are returned |
| Data blocks (`tagDataBlock*.c`, `itemModified.c`, `rowSelection.c`, `refreshBlock.c`, `delete.c`) | per block: the row id it stands on, the values of its inputs, whether each is DIRTY; the page's current row | edit, select, refresh, delete, flush | an edit reaches the row it was made on; nothing is committed while edits wait; what is refused is undone |
| Transactions (`commit.c`, `rollback.c`) | one open transaction per connection | commit, rollback, of one or of all connections | whole transactions become visible, nothing else does |
| Ajax service of a page (`ajax.c`, `ajaxAsGet.c`) | — | native command, call of a page function | the reply says what happened |
| Triggers (`preInsert.c` ... `postQuery.c`, `pageAccess.c`, `pageLoad.c`, `sessionEnd.c`) | their result | run at fixed places of the handlers | a refusing trigger stops the operation |
| HTSQL calls (`callStack.c`, `htsqlFunction.imp.c`, `userHTSQLFunction.c`) | stack of frames with arguments, local variables and return value; depth; active connection; return flag | start a call, add arguments, run, return, clean up | a return leaves exactly one function; a call yields what the callee returned; the caller's connection is restored |
| HTSQL statements (`post.parser.imp.c`, `lemon.post.yy`) | nested parses, the stop flag and the condition result of the page | if, while, return, stop, assignment, DML | statements after a return or stop are not run |
| HTSQL variables (`htsqlVariable.c`, `tagControlBlock.c`) | page and session variables, control block items | look-up, assignment | local before block item before control block before session |
| Connections (`tagConnection.c`, `createConnection.c`, `onConnectionNotFound.c`) | list of connections per session, the active one | create, replace, find (with the connection_not_found trigger) | a statement runs on the connection it names |
| HTTP response (`response.c`, `Send*.c`) | growing buffer, content type, what may be printed | append, flush, destroy | each answer is sent once, whole and with its header |
| Large forms and images (`dispatcherBig.c`, `image.c`) | the body read so far | read in pieces, write one column | the pieces are put together in order |
| Debugger (`debugee.c`, `debugeePipeServer.c`, `breakpoints.imp.c`) | breakpoints and step state, a pipe and its thread | set, clear, stop, step, continue | a stopped function goes on when it is told to |
| Page structure (`page.c`, `tag*.c`), data lists and trees, page commands | the parsed page | build, print | — (built once, printed) |
| Utilities, strings, Redis, files | — | — | pure functions, or stubs |

How they interact. The web server calls `HandleFrmxRequest` on one of its own
threads. That function looks the session up (or creates it), *then* waits for
the mutex named by the session's id, then dispatches. Sessions are shared by
threads without a lock except for that mutex and for one critical section around
a destruction and a block refresh. A dispatched request runs page handlers;
these run HTSQL procedures, which call back into data blocks (assignments,
`delete`), into the transactions (`commit`, `rollback`) and into each other.
Everything that is printed goes to the response buffer, which is sent when the
request ends.

The behaviours that are hard:

* **Concurrency.** The registry is read and appended to with no lock, the sweep
  of one request destroys the sessions of others, and the mutex is named by a
  field of the very struct that may be torn down meanwhile.
* **Stale state.** Pointers found before the wait and used after it; the row a
  block stands on as the browser, the block and the page each remember it.
* **Partial failure.** A flush goes over several blocks and a commit over
  several connections; a trigger or the database may refuse in the middle.
* **Protocol.** The browser may edit, select, refresh, delete, and call
  procedures in any order, and a procedure may do the same on other blocks.

## 2. Modules and plan

| Module | Models | Proofs | Instances |
|---|---|---|---|
| `SodiumSessions`, abstract: `SessionService` | registry, locks, life of a request, idle sweep | `SodiumSessions_proofs` | `MCSodiumSessions` |
| `SequentialSessions` | the same, one request at a time: the refinement mapping to `SessionService`, the invariant of the linked list | `SequentialSessions_proofs` | `MCSodiumSessions` |
| `HttpExchange` | from a request to its answer: contexts, response buffer, parts of an answer, posted bodies | `HttpExchange_proofs` | `MCHttpExchange` |
| `DataBlockRows`, abstract: `RowStore` | current rows, waiting edits, flushes, transactions | `DataBlockRows_proofs` | `MCDataBlockRows` |
| `FunctionCalls` | call stack, return values, triggers, active connection | `FunctionCalls_proofs` | `MCFunctionCalls` |
| `FunctionBodies` | how the text of a function is cut up and parsed again; line numbers, breakpoints, stepping | `FunctionBodies_proofs` | `MCFunctionBodies` |
| `HtsqlVariables` | the scopes of names: local, page, form, data block, control block, session | `HtsqlVariables_proofs` | `MCHtsqlVariables` |
| `TextFunctions` | the loops over texts: like, replace, search, substr, escaping, URL coding, lists and trees | `TextFunctions_proofs` | `MCTextFunctions` |

The order was that of what a failure costs: first what can crash or mix up
users, then what can write the wrong row, then what only one page notices. The
modules that are proved about use no RECURSIVE operator; constants and their
assumptions are declared in the component's module; every handler is an action,
or a chain of actions where another thread, a callback or a failure can come
between.

How the modules fit together. `SodiumSessions` says which thread works on which
session, and `HttpExchange` takes from it that a session serves one request
after the other (`Begin` waits for `Working(s) = {}`) and models what each
request prints and whom it reaches. `DataBlockRows` is the state behind the
requests of one session, with HTSQL procedures as arbitrary sequences of
statements. `FunctionCalls`, `FunctionBodies` and `HtsqlVariables` are three
views of such a procedure: which function runs on which connection, which pieces
of text it is parsed from, and what its names mean. One step of another thread
reaches into them, the reset of the call depth by a request that still waits for
the mutex (`Accept` of `FunctionCalls`); the pipe thread reaches into
`FunctionBodies` (`ClearAllBreakpoints`).

What is left to do: the cursors of record sets (next, previous, end of file, and
the connection each of them uses), the list of a session's connections and its
closing, the arithmetic of the idle clock, the composition of a printed page,
and the pipe thread's replies and its use of a session that is being destroyed.

## 3. Sessions

`SodiumSessions.tla` models what threads do between accepting a request and
letting it go. A *slot* is a piece of memory for one `SodiumSession`; slots are
reused after they are freed, so that a stale pointer may meet another session.

| Model | Code |
|---|---|
| `mem`, `sid`, `readyState`, `nxt`, `prv`, `heap`, `idle` | the struct: allocated or not, `id`, `sessionReadyState`, `next`, `prev`, `heapHandle`, and whether `lastActivityTime` is too old |
| `root`, `leaf` | `mkRootSessionInstance`, `mkCurrentMKSessionInstance` |
| `mutex[i]` | the kernel mutex of that name; a NULL name gives a mutex nobody shares |
| `cs`, `csDepth` | the (recursive) critical section |
| `pc`, `ptr`, `cur`, `mtx`, `req`, `ret`, `role`, `body` | a thread's place and its local variables: the session it works on, the cursor of a walk, the mutex it owns, its request, where `destroySession` returns to, which of the four unlinking branches it took, and whether its context has received an upload's body |
| `crashed` | the process died of a NULL or freed pointer |
| `stale` | (ghost) threads whose session was destroyed under them |
| `leaks` | (ghost) early returns of a refresh that kept the critical section |

One action is one step between two accesses of shared memory. The look-up
(`FindHit`, `FindMiss`), the creation (`Alloc`, `SetRoot`, `SetLeaf`), the three
writes that append (`AddPrev`, `AddNext`, `SetLeaf`), the sweep (`SweepStart`,
`SweepSkip`, `SweepKill`), and `destroySession` (`DestroyEnter`, `Unlink1`,
`Unlink2`, `TearDown`, `MarkKilled`, `DestroyLeave`) are split where another
thread can come between; `NameMutex`, `WaitMutex`, `CheckKilled`, `Dispatch` and
the rest of the request follow `HandleFrmxRequest` and `dispatchRequest`.
`Dies(t)` says when the next step of `t` follows a NULL pointer or the heap of a
destroyed session; that step is then `Crash(t)` and nothing else. A struct that
was freed is still used by the code in several places. It keeps its contents
until it is handed out again, or the access kills the process: `MayDie(t)`
allows both.

Three things the code does that are easy to miss:

* For a Cookie header in which `SodiumSessionCookie=` does not occur,
  `GetSodiumSession` returns NULL (`mkSession.c:43`). `Accept` then leads to
  `sweepStart` without a session, where `InitCallstack` follows the NULL
  pointer.
* The end of a parse (`html.parser.imp.c:113-120`) touches the struct but not
  the session's heap. A session destroyed during its parse is therefore written
  READY over KILLED (`EndParse`); the thread dies one step later, when it prints
  the timing (`Timing`).
* The early returns of `__sendRefreshBlockNativeResponse` do not leave the
  critical section (`refreshBlock.c:87-93`); `leaks` counts them.

There are seven kinds of requests: a first or later GET of a page that parses
it, a plain GET, an upload, and the small POSTs: Ajax, block refresh, a refresh
that leaves early because a connection is missing, and the request that ends the
session. Whether a trigger lets a page be parsed is a free choice.

`SessionService.tla` is the promise to one client at a time: at most one session
per user, work only on a session that is open, and an answer without work only
if the sweep took the session. `SequentialSessions` gives the refinement mapping
and the invariant it needs.

Properties (those marked † are theorems):

* `NamedMutexExclusion`†: two threads never own the mutex of one id. It is
  proved and not run; the next property rests on it.
* `SerialUnlessDestroyed`†: two requests work on one session only if it was
  destroyed under one of them. This is what is left of the claim that a session
  serves one request at a time, see `OneRequestPerSession` under Findings.
* `UnfinishedHasOwner`† (`InitHasRequest` and `BeingKilledHasKiller`): a half
  made or half destroyed session always has a thread that will finish it;
  nothing sweeps those two.
* `RevivedIsDoomed`†: a killed struct comes back to life only by a parse that
  was running when it was destroyed, and only until that parse's thread uses the
  destroyed heap, of which the process dies.
* `CSHeldOnlyInside`†: the critical section is entered once by a thread inside a
  destruction or a refresh, plus once for each early return of a refresh so far.
  While there was none it is free whenever nobody is inside; after the first it
  is never free again.
* `EveryRequestEnds` (TLC): every request ends, unless the process died, a
  refresh kept the critical section (what others then wait for never comes), or
  the request walks a list that has become a circle. The run reaches each of the
  three: two appends and a removal without a lock can link a reused struct to
  itself, and without the excuse `Circling` TLC shows a look-up or sweep that
  never ends.
* `OnlyKnownDeaths`†: one thread at a time, the process dies of three requests
  only: a foreign Cookie header; a kill, whose freed struct `dispatchRequest`
  and `HandleFrmxRequest` go on using (`dispatcher.c:50`, `:55`,
  `HandleFrmxRequest.c:39`); and an upload of a new user, whose body is freed
  with the heap of the session that was destroyed because it never got READY.
* `RegistrySound`† (`RegistryHoldsLive`, `RegistryLinked`, `OneSessionPerUser`)
  and `ImplementsService`†: one thread at a time, for requests of every kind,
  the list is right and the promise is kept. With two threads neither holds.

Fairness. `Fairness` is strong fairness of each thread's step while the process
lives; an access to freed memory is never forced to kill the process. A thread
waits in two places only, the named mutex and the critical section. Both are
served by the kernel in turn, so a thread that could get the lock again and
again gets it in the end: that is strong fairness. Everything else a thread does
is scheduled by the operating system.

Here `session->context` is taken to be the context of the request at hand. That
it may be another request's is what `HttpExchange` is about. Requests with other
verbs than GET and POST are left out: `SetHttpVerb` keeps the verb of the
context's previous request. So is a Cookie header in which
`SodiumSessionCookie=` is not the first cookie: the id is then taken from a
fixed place of the header and is an id nobody was given, like that of a user
whose session is gone.

## 4. Answers

`HttpExchange.tla` models what becomes of a request's output. The web server is
external: it puts a request into a free context, calls the handler, and takes
the context back when the handler returns; a call for a context that holds no
request is refused.

| Model | Code |
|---|---|
| `at[c]` | the request in the `HttpContext` structure `c` |
| `req[r]` | a request: how far its handler is, its kind, context and cookie, its session, what the dispatcher took it for (`seen`), and for an upload the fields asked for and found |
| `sess[s]` | a session: `sessionReadyState`, id, `context` (`slot`), `whatIsPrinted` (`what`), `response` with the bytes used and allocated |
| `body[c]` | `context->RequestBody`: not received, whole, or an empty block received a second time |
| `wire[r]` | the head and body parts the server was told to send to the client of `r`, and which of them end the answer |
| `printed[r]` | (ghost) what was printed while `r` was worked on |
| `crashed` | the process is gone |

`SendFile`, `FileUnreadable`, `ForbidAndGoOn` and `Forbid` are requests that are
no page; `CreateOrGetSession`, `DestroyIdleSessions` and `Begin` lead to the
dispatcher; `PrintText`, `SendError`, `ParsePage`, `OpenHtml`, `OpenHead` print,
in any order the page's text asks for; `LookUpField` is `getFormDataBig`;
`Finish`, `KillSession` and `Close` are the ends, and so is `Crash`: a page
asked for with a Cookie header of another program (`FOREIGN`) has no session
(`NoSession`), and a request whose session was destroyed goes on with the freed
struct, of which the process may die (`SessionFreed`). The kind of a request is
read from `session->context`, so `Begin` takes it from whatever request holds
the context of the session's first one (`Sees`), and an answer goes to that
request (`Flushed`).

`Straight` says that every session's requests came in its first request's
context. The properties about one client are stated for that case; what happens
otherwise is the finding `AnswerToItsClient`.

Properties († are theorems):

* `BufferHolds`†: the growing buffer has room for what it holds and its
  terminator.
* `OneWholeAnswer`†: a client gets one head, then at most one body, nothing
  after the part that disconnects, and the body is exactly what was printed for
  it, in order: nothing of an earlier request is left in the buffer, of a
  destroyed session either.
* `ErrorFitsPage`†: a page calls the client library to show an error only below
  the library, whatever step `whatIsPrinted` was left at by an earlier request.
* `FieldsFound`†: the body of an upload is received once, and each field the
  form holds is found; once a field was missed, the body is received again into
  an empty block and nothing is found any more, which is the case excused.
* `EveryRequestEnds` (TLC): every request is answered to its end, but for those
  named in `Excused` (an unreadable file, a session gone before its turn or
  never made ready, a context that is another's) and for the end of the process,
  which has the two causes of `Felled` and no other.

Fairness is weak fairness of each request's handler: handlers run on threads of
their own, and the programs of pages end (`MaxPrints`).

Left out: headers (`Content-Type` is added after the head was handed over,
`header.c:24`, so what is set there has no effect), the cut of a single text
longer than 1 024 000 bytes (`mkUtils.c:40`), and functions nobody calls:
`responseFlush`, `responseDisableBuffering`, `responseWriteChars`,
`FlushHttpResponse`, `SendHttpResponse`, `SendHttpPostResponse`,
`SendHttpJsonResponse`.

## 5. Data blocks

`DataBlockRows.tla` models one page of one session: its blocks, their current
rows and waiting edits, the databases and the requests of the browser.

| Model | Code |
|---|---|
| `committed`, `working` | each connection's table as others see it, and as its open transaction sees it |
| `key[b]` | `keyColumnValue`: a row's key, a NEWROW id, a READONLY id, or NULL before the block was ever printed |
| `value[b][i]`, `dirty[b]` | `TAGInput` value and the inputs whose `valueState` is DIRTY |
| `current` | `page->currentDatablock`, `page->currentRowId` |
| `pc`, `at`, `after`, `body` | where the handler is: the block a flush has come to, what follows the flush, and whether a procedure is still to run |
| `calls` | the steps that the running procedures and triggers return to, the innermost last |
| `req`, `target`, `reply` | the row the request names with its form values; the connections to commit; what the browser is told |
| `home`, `strayed`, `late` | (ghosts) the row the first waiting edit was made on, whether the block was moved off it by something other than a flush, and how many procedures were running when its last edit was made |

Requests: `ItemModified`, `SelectRow`, `CallOnRow` (a button's procedure with
the row it sits on), `Call`, `Refresh`, `Delete`, `Commit`, `Rollback`. Every
one that changes the row first flushes all blocks, one after the other
(`FlushClean`, `FlushModified`, `UpdateWorks`, `UpdateFails`, `InsertWorks`,
`InsertFails`); the rest of the handler (`AfterSelect`, `ShowBlock`, `Erase`,
`CommitAll`, ...) follows. An HTSQL procedure is any sequence of the statements
that reach this state: `Assign`, `CommitOn`, `RollbackOn`, `DeleteOn`, until
`Return`. A trigger (`RunTrigger`, at the ten places of `TriggerNames`) is such
a procedure on top of the handler, so it may assign, commit and delete in the
middle of a flush. A trigger that refuses and a database that does are the same
choice. A commit in a `pre_update` trigger flushes the block that is just being
flushed once more; nothing in the code ends that but the program, in the model
`MaxSteps` does.

Three places where the code does less than one expects are modelled as they are.
The flush looks at the first edited input of a block only, and leaves the block
out when its column is called `rowid`
(`tagDataBlockDatabaseOperations.c:714-739`; `Skipped`). The triggers after an
update or insert run when the block's state is already clear, and may edit a
block the flush has passed (`late`). And a row that is read again is known by
the key among the columns read: a block that does not show its key column gets
the id of a new row (`KeyRead`).

`RowStore.tla` is what all this promises about the databases: each step changes
at most one row of one transaction, or publishes or undoes whole transactions.

Properties (all are theorems as well):

* `FlushedBefore`: no edit that was there when a flush began still waits when
  the commit or the move it was for is made, but those of a block that is
  `Skipped`. What else may wait are edits made by the triggers of that flush.
* `FlushWritesHome`: what a flush writes goes to the row the edit was made on,
  unless the block was moved off it meanwhile by a refresh, a delete, or a
  change of the row that late edits waited in. The exceptions are real, see the
  first item without a run under Findings.
* `RejectionRestores`: an edit that is refused is neither written nor kept, and
  the block shows the stored row again; it stays on that row if it shows its
  key, and otherwise shows it under the id of a new row.
* `ReadOnlyTables`: a table that only read only blocks show never changes.
* `ImplementsStore`: refinement of `RowStore`.

Abstractions. The tables of all blocks on one connection are one table, so two
blocks may show the same row. SQL text, column types, paging, filters, the
printed page and query mode are left out: a refresh leaves a block on any row
that exists, or on an empty one. Values typed or computed (forms, sequences,
foreign keys) are arbitrary. A key that exists already is a database error. Only
blocks with a key column are modelled. A request that names a row of a block
never printed is not sent by a browser (`Displayed`); the code would compare a
NULL pointer there.

## 6. Calls

`FunctionCalls.tla` models the HTSQL functions of a page as they run. A function
is interpreted while its text is parsed; an if or while block and a condition
are parsed by a nested call of `parseAndExecutePostString`, all of which share
`page->stopParsing` and `page->conditionEvaluationResult`. The program is
arbitrary: at each place any statement of the model may come next. Values are
tokens.

| Model | Code |
|---|---|
| `frames` | the list that `page->currentCallStack` ends |
| `phase` of a frame | pushed (`createANewFunctionCallStackStartPoint`), waiting for the connection_not_found trigger, or running |
| `slot`, `returning`, `backup` | `preObjectFunctionReturnValue`, `returnStatementActive`, the local `backupOfActiveTAGConnection` |
| `blocks` of a frame | the nested parses that run, with the local `backup` of an if block |
| `by`, `used` | where the call comes from and what becomes of its result |
| `stop`, `test` | the two flags of the page above |
| `active`, `root`, `handle` | `activeTAGConnection`, `rootTAGConnection`, and whether a connection has no entry, an open handle or a destroyed one |
| `depth` | `session->currentFunctionCallDepth` |
| `crashed` | a NULL or freed connection was followed; a freed one may also pass unnoticed |
| `told`, `overtaken`, and `returned`, `conn` of a frame | (ghosts) what the last call gave, whether a request was accepted while functions run, what the function itself returned, and the connection it works on |

`Enter`, `EnterMissing`, `Connected` and `Finish` are `runPostFunctionFast`,
`callUserFunction` and `cleanUpFunctionStack` around the body. The statements
are `Call`, `CallRefused`, `UnknownVariable`, `BeginReturn` and `Return`, `If`,
`While`, `Connect`, and `Operation`, which stands for every built-in whose C
code runs triggers (commit, delete, refresh_block). `Dies` is a step of its own:
insert, update and delete as HTSQL statements make an object of a type that
`createPostObjectGeneric` does not know (`post.parser.imp.c:185`,
`postObjectGeneric.c:22`), and the parse that evaluates their text follows the
NULL pointer in it. The `End...` actions end a parse. A `return` is parsed to
its end even if an error in its expression stopped the parse, so it is two
actions with calls between them. `Accept` is the reset of the depth by a request
that is still to wait for the mutex.

Properties (all are theorems as well):

* `ActiveOfFunction`: a function's statements find the same active connection
  before and after each call they make.
* `ActiveWhenOpen`: a session with a connection always has an active one. The
  restoring of the caller's connection must not take away the first connection,
  made by a function called before there was any.
* `ReturnedValueArrives`: a value returned is what the caller gets.
* `ReturnUnwinds`: after a return a function only unwinds, out of loops too.
* `DepthCountsFrames`: the depth is the number of functions that run, unless
  another request was accepted meanwhile. The exception is real, see Findings.

## 7. Bodies of functions

`FunctionBodies.tla` models how the text of a function becomes the parses that
`FunctionCalls` takes for granted, and what a debugger sees of it. The lexer
copies the text between `then` and `end if`, or `loop` and `end loop`, and the
parser calls itself on the copy. Which `else` and `end if` belong to an `if` is
decided by one counter of the page, which all these parses share, as they share
the result of the last condition.

| Model | Code |
|---|---|
| `body`, tokens | the texts of the functions, cut into what the lexer's rules tell apart |
| `scans` | the parses under way, the innermost last: lexer state (`mode`), place, the texts collected so far, the local backup of the condition, the line an `if` began on |
| `ifCounter`, `condition`, `stopped` | the page's counter, `conditionEvaluationResult`, `stopParsing` |
| `frames` | the call stack with `lineNumberInner` and `functionDebugStepType` |
| `breakpoints`, `step`, `halted` | breakpoints in state ACTIVE, `sessionDebugStepType`, a function stopped in `OutputDebugString` |
| `reach`, `torn`, `taken`, `announced`, `ifs` | (ghosts) down to which depth the last command meant to stop, whether a parse was given up inside an `if`, the side of each `if` taken, the line last told to the debugger, the counter when a parse began |

Programs are constants: function `f` calls `f + 1` only. `NestingAssumption`
says that a body nests as the grammar has it: an `if` leads to a `then`, an
`else` belongs to a `then` before it, a `while` leads to a `loop` and that to
its `end loop`. Anything else is a syntax error. One thing more is asked: a loop
holds no other loop, because the lexer ends it at the first `end loop`. The
debugger is taken as attached: `Resume` is any command to a stopped function,
`ClearAllBreakpoints` the pipe thread's command at any moment.

* `RunsChosenSides` (a theorem): a statement runs only if every `if` around it
  took the side it stands on, however often its text was copied and whatever the
  functions and loops in between did to the shared counter and condition.
* `IfsMatched` (a theorem): text is lost, an `if` being still collected at the
  end of its text, only where the counter was not 0 at the start of the parse (a
  function called inside a condition, a loop directly followed by an `if`) or
  after a parse was given up by a `return` or an error; otherwise the counter is
  0 again between requests, and it is never negative. Those exceptions lose
  statements in the code: the reset that would prevent it is commented out
  (`post.parser.imp.c:50`, `:279`).
* `LinesAnnounced` (a theorem): the debugger is told each line before its first
  statement runs. Stated for functions without comments, loops and newlines in a
  condition, whose newlines the lexer drops, and until a parse was given up
  inside an `if`: the counter this leaves above 0 lets a later branch lose its
  end, with the newlines on it. A program of the run does that (a `return` in a
  loop an `if` follows, called from a branch that holds an `if`).
* `StepsAsCommanded` (a theorem): a running program will stop in exactly the
  functions the last command meant.

## 8. Variables

`HtsqlVariables.tla` models what a name means. A name is a variable, a function
or an item `:block.item`; it is looked up in the objects of the running
function, then, if it is an item, among the inputs of a data block's current
row, the control block variables the request brought, and the session's
variables; a variable among those of the page and of the controller.

| Model | Code |
|---|---|
| `page`, `serving`, `form` | `session->currentPage`; the request in hand (a page, or an Ajax request before and after its function is started); `formDataStructureSmall` |
| `blocks`, `inputs` | the blocks of a page parsed so far, the values of their inputs |
| `globals`, `control`, `session` | `rootPreObjectGeneric` of pages and controller, `rootCBVariable`, `rootSessionObjectGeneric` |
| `frames` | for each running function its local objects, texts or record sets |
| `crashed` | an object was used as something it is not |
| `wrote`, `picked`, `assigned`, `kept` | (ghosts) the value a name was given last, its last select, what the request assigned, the value a session variable has to have |

Requests (`GetPage`, `AddBlock`, `Ajax`, `EndRequest`), frames (`CallFromPage`,
`RunTrigger`, `Call`, `Return`) and statements (`Declare`, the five `Assign...`,
`MoveRows`, `Select`, `Dies`) may follow in any order the code allows.

Properties (all are theorems as well):

* `WritesStay`: a function reads back what it, or a function it called, wrote
  last under a name, whatever happened to the scopes meanwhile. The excused case
  `FormHides` is real: an item that came with the form is read from the form's
  copy, and written to the block, as long as the function runs.
* `ControlsOfRequest`: a control variable is found only in the request that sent
  it.
* `SessionKept`: an item the page does not hold is the session variable, with
  its last value, on whatever page and in whatever request it was assigned.

Worth knowing of the code: the page access trigger runs before any block exists,
so an assignment to `:b.i` there makes a session variable; an item `x` that
block `b` lacks is read from the session, and assigning it is an error; an
assignment to a bare function name takes the declaration for a text
(`AssignFunction`). An empty form value is a value. Unknown names change
nothing.

## 9. Texts

`TextFunctions.tla` models the C loops that expressions and answers are made
with. A behaviour is one call: `Init` picks the routine and its arguments, and a
step is one turn of its loop, with the two positions, the bytes written and the
room allocated for them. Routines: `mkLike`, `mkReplace`, `mkInstr`, `mkStrlen`,
`mkMemmem`, `mkSubstr` with `mkUTF8index`, `mkEscapeJavaScriptQuoteCharacter`,
`url_encode` and `url_decode`, the options of a data list (`populateDatalist.c`)
and the nodes of a tree (`addTreeNode.c`). `char` is signed, the replace counter
wraps at the width of an `int` (`IntModulus`, made small), `isalnum` of a
negative `char` may say anything, and `mkMalloc`, which is not in the
repository, is taken to give zeroed memory. `Exact` is the first number that
`"%g"` rounds (1 000 000 in the code), and `Behind` holds what may stand behind
a block up to the next zero byte.

* `StaysInside` (a theorem): no loop reads beyond the terminator of its text, or
  the byte behind a body, or writes beyond its block; and who reads an escaped
  text stays in its block, unless every byte of it was escaped.
* `TextsAgree` (a theorem): each routine gives what a definition of its result
  says. The definitions know nothing of the loops: `Matched` is the set of
  lengths of the text that a beginning of the pattern matches, `Taken` the
  occurrences that do not overlap an earlier one, `Replacing` and `Reading` what
  a beginning of a text becomes and is read as, `CharNo` counts characters. The
  conditions are the code's limits. `like` is never true without a match; it
  misses none if no stretch between two `%` can begin again inside itself
  (`NoFalseStart`, and finding 4 is what happens otherwise); a `%` in the text
  itself it takes for a match, which `NoWild` excludes. `replace` counts in an
  `int`. `instr` prints its number with `%g` (`mkUtils.c:294`): exact below
  `Exact`, and within half a unit of the last digit it keeps above. The escape
  writes no terminator (`mkUtils.c:255-280`): a text with a plain byte reads
  back as itself, one in which every byte is escaped as itself and perhaps more.
  `substr` ends the process when the characters asked for reach the end of the
  text (`substr.c:29`), or at a position that is not positive in a text that
  begins inside a character. Options of 500 bytes and more may be cut off by the
  growing block; strings of a tree row stay in the pointers after they are
  freed, so a column that only some rows have is read from freed memory
  (`addTreeNode.c:80`). `RowsPrinted` excludes exactly those. A NULL among id,
  text and parent of a row ends the list of `mkStrcat` (`addTreeNode.c:60-71`),
  and the row is cut there: a row that has all three is shown with exactly its
  columns, any other with nothing that is not its own.
* `LikeMatches` (violated, finding 4): `like` is true exactly of the texts that
  its pattern matches.
* `EveryCallEnds` (TLC): every call ends, but a replace of the empty word, whose
  counting loop stands still (`replace.c:29`).

Also found while modelling, and described here only: a position that is not
positive gives `substr` nothing, where `substr.h` says that 0 counts as 1; the
last turn of `mkMemmem` reads one byte behind the body (`dispatcherBig.c:160`
allocates none there). The case-insensitive branch of `mkLike` is used by no
caller. Fairness is weak fairness of the loop: it runs.

## 10. Runs and bounds

| Run | Instance | States | What it shows |
|---|---|---|---|
| `Sessions_concurrent` | 2 threads, 3 structs, 2 users, 3 requests: pages, and refreshes of a block without a connection, to a session that is READY (the critical section stays taken) or not (it is destroyed); fair | 315 000 | what the locks do guarantee with races everywhere; a half made or destroyed session is finished; every request ends but for three causes |
| `Sessions_sequential` | 1 thread, 4 structs, 3 users, 4 requests of all seven kinds, foreign cookies, sweeps | 39 000 | the list is right, the service is implemented, the three ways to die |
| `Sessions_oneRequest` | violation | — | finding 1 |
| `Exchange_answers` | 2 requests of any kind, 2 contexts, texts of 1 byte in chunks of 2, 2 texts a request, forms whole or without the row id, foreign cookies; fair | 528 000 | one whole answer for each client, uploads, errors, every request ends |
| `Exchange_client` | 3 requests, violation | — | finding 2 |
| `Blocks_tables` | 2 writable blocks on one table, one of them without its key column and with an input called rowid, and a read only one on another connection; triggers of every kind on the writable ones; 2 rows, 2 items of which one is filled by the server, 3 steps | 2 146 000 | edits, flushes, triggers and rejections in every order, read only tables, the refinement |
| `Calls_stack` | 3 functions, 2 connections, 2 values, 3 frames, 2 nested parses of a frame, 5 statements | 1 074 000 | results, connections, returns, depth |
| `Bodies_runs` | 480 programs of 3 functions with ifs, elses, loops, calls, returns and errors inside each other; 2 breakpoints, every debugger command | 534 000 | sides of ifs, lost text, lines, stepping |
| `Variables_scopes` | 2 pages, a data block and a control block, 2 functions, 2 variables, 3 items, 2 values, 2 frames, 5 steps | 277 000 | scopes, shadowing and lifetimes |
| `Variables_select` | violation | — | finding 3 |
| `Texts_functions` | texts of up to 4 bytes over the bytes each routine tells apart, longer ones of two letters for `like`, up to 4 rows, with and without each column; `Exact` 10; fair | 169 000 | every routine against its definition |
| `Texts_like` | texts of two letters, patterns of two stretches between wildcards, violation | — | finding 4 |

Bounds. `MaxRequests` bounds requests served, `MaxSteps` the requests and
statements of a history, `MaxDepth` and `MaxNest` the frames and the parses
inside one; all are guards of the actions that start something and never of one
that continues it. Two threads are enough for every race between two operations,
and three slots let a struct be freed and handed out again while the first
thread still points to it. Two users are needed for the unlinking of an end of
the list, three (sequentially) for the middle. A request to a session that never
got READY ends in its destruction, so the concurrent run has destructions next
to look-ups, appends and parses without a kill or a sweep; these are in
`Sessions_oneRequest` and `Sessions_sequential`, and in the theorems about any
number of threads. Two blocks are the least in which a flush of one fails after
the other's worked; two rows let a block be on the wrong one; three steps are
the edit, what moves the block, and what flushes. `StartInit` is a page that has
been shown once, its writable blocks on an empty row or not.

In the run of the calls `f` belongs to a data block on the connection `c2`, `t`
is the connection_not_found trigger, `g` is neither; `g` and `t` are declared
with a result. Three frames are a function, the block's function it calls and
the trigger that one waits for; five statements are, for instance, the start, a
call, a connection made in the trigger, and two of what comes after it.

Two requests and two contexts are enough for a session of another request, a
context that was reused, and a buffer left over; a chunk of 2 makes the buffer
grow with the second text. The violation needs three requests: one that makes
the session, one that takes over its context, one that is answered. In the
bodies, `MaxLeft` bounds the counter, which the exceptions of `IfsMatched` raise
at every request: two more than 0 let a function start twice with the counter
wrong. In the variables, item `bi` has an input, `bj` has a block and no input,
`ci` belongs to the control block and is a session variable as well; five steps
are the page, a call or two, and assignments in the scopes between them. The
arguments of `Texts_functions` are in `MCTextFunctions`: four bytes hold two
overlapping occurrences of a word, a two byte character at either end, two
wildcards with a text between. `FalseStarts` are the longer texts in which a
stretch between two wildcards begins again inside itself, and `Substrs` has
texts that begin inside a character.

In the texts, `Exact` is 10 and `LateWords` are long enough for numbers beyond
it; `Leftovers` is what may stand behind a block: nothing, a byte, a backslash,
a quote.

Symmetry is used on threads, slots, ids, key values and values, never in a run
with a liveness property. `NamedFairSpec`, the specification of
`Sessions_concurrent`, leaves out behaviours that differ from others in names
alone: of structs nobody has used or points to, the allocator hands out the
first; when every thread is idle the first one accepts; the first request is of
the first user. Deadlock is checked in the two runs of the sessions that pass,
in the bodies and in the texts, where a call that is over may stay so (`Over`).
It is off in the exchange, block, call and variable runs, which stop at their
bounds. A server whose critical section is kept (hazard at `refreshBlock.c:89`)
may stop, as `Done` says.

## 11. Proofs

Each `..._proofs` module proves the properties marked above for all values of
the constants that its component's named assumption allows: any numbers of
threads, slots, users, requests, blocks, connections, rows, functions, programs
and pages, texts of any length. `PROJECT.json` lists the theorems. In every one
of them the property is a consequence of a strengthened invariant `IInv`; lemmas
show for each action that the action keeps it.

*Sessions.* `NamedMutexExclusion` alone is inductive only together with what a
thread knows at each place of its program. `IInv` is the conjunction of
`TypeOK`; `LocalsSet` (the cursor and the pointer are set wherever they are
followed); `CSOwned` (a thread at a label inside the critical section owns it,
as deep as its label says); `LeafPending`; `MutexOwned` (a thread between the
wait and the release owns the mutex it remembers); `FreshPointers` (a pointer
not in `stale` points to the struct it was found as); `NamedBySession` (such a
thread's mutex has the name of its session). From the last two
`SerialUnlessDestroyed` follows: two threads on one slot, neither stale, own the
same mutex. `CSInv` adds how often the critical section is entered (`CSCounted`:
`leaks`, plus one if a thread is inside). `LifeInv` adds who is to finish an
INIT or BEING_KILLED session (`InitHasCreator`, `KillerAtWork`), that a
destruction is called on the request's own session or by the sweep
(`CalledOnOwn`), and that a KILLED struct has no heap (`KilledHasNoHeap`).
`AtTiming`, that a live struct without a heap is KILLED or used by a thread
before `Timing`, gives `RevivedIsDoomed`.

*Sessions, one request at a time.* The theorems assume one thread; structs,
users, kinds of requests and their number are any. An insertion or a removal is
several writes, and between two of them the list is broken, so no invariant can
say that it is a list. `ListAhead` says instead which list the writes that are
left will make of it: `NxtAhead`, `PrvAhead`, `RootAhead` and `LeafAhead` are
the pointers once the thread has done them, and `IsList` holds of those and of
the structs that stay. Then only the step that begins an insertion or a removal
changes the list that is ahead, and lemmas about lists (append, remove at the
root, at the leaf, in the middle) say to what; each of the writes only makes a
pointer equal to its plan. What a walk from the root meets is `Walk`, the least
set of nodes closed under `next`, so that no lemma needs an induction over the
list. `SequentialInv` adds to `ListAhead` that a pending write goes through a
pointer that is set (`WritesLand`), who has an id and a heap (`IdsOwned`), that
a look-up has not passed the session it is for (`NotPassed`), what the thread's
pointers point to (`PointersGood`), which requests go on with a freed struct
(`FreedUnder`), what the list reaches in between (`WalkNow`) and that a request
has the session of its user (`OwnSession`). With it every step maps to one of
`SessionService` or to none.

*Data blocks.* `IInv` is the types in two parts (`FlowTypes`, `DataTypes`);
`StagesGood`; `KeyKinds` (a writable block is never on a READONLY id and a read
only one on nothing else); `EditsAtHome` (a block with waiting edits that has
not strayed is on the row of the first one). Triggers make the handler a stack:
`StagesGood` says of the step at hand and of each step that waits in `calls`
that it is `Good` for its place. The blocks a flush has passed are `Settled`
there (clean, edited later than this stage began, or skipped), a step that works
on a block has one, and the row a move goes to is one of its kind. `StagesGood`
gives `FlushedBefore`, `EditsAtHome` gives `FlushWritesHome`, `KeyKinds` gives
`ReadOnlyTables`. The strengthened invariant was checked with TLC before it was
proved.

`BlocksImplementStore` shows for each action which step of `RowStore` it is.

*Answers.* `IInv` adds to `TypeOK` and `BufferHolds` that a context holds the
one request handled in it (`SlotInv`), which session a request has and that
nothing happens for it before (`SesInv`), that one request works on a session
(`MutexInv`) and its buffer holds what that request printed (`TextInv`), what
was sent so far (`WireInv`), the step `whatIsPrinted` stands for (`LibraryInv`,
`ErrorFitsPage`), and how far the body of an upload is (`OverInv`, `UploadInv`,
`FieldsFound`). `OneWholeAnswer` follows from `WireInv`.

*Calls.* `IInv` is `TypeOK` in parts, `ToldOK` (what the last call gave), and
the shape of the stack: each frame is consistent in itself (`FrameOK`: phase,
parses, a return under way); a caller has got the value of the function above it
if there is one, and will find its connection again when that function restores
it (`Link`); the function on top finds the connection it counts on (`OnTop`); a
backup means that there is a root connection (`BackedBy`); the depth is counted.

*Bodies.* `IInv` relates the two stacks. The parses lie over each other as the
frames do (`ScansOK` with `Layers`: a parse of a body begins a function, every
other one belongs to the function of the parse below it). The frames the
debugger stops in are all of them while it has the word and the first `reach`
when it has let go (`Stops`), and `Command` says how far each command reaches.
Calls go up (`Upwards`), which bounds the stack by `N`.

`RunsChosenSides` and `IfsMatched` need to know what the copied texts are, which
`IInv` does not say. The second invariant, `Cuts`, does. A text is a piece of
its function's body with nothing left out but newlines (`Piece`), and the ifs in
it are even (`Even`): as many are ended as are begun, none before it. What a
parse has collected is such a piece too, beginning behind the token that opened
it (`InIf`, `InThen`, `InWhile`, `InLoop`); a condition, a loop body or a branch
handed on is a text in which the sides around its beginning are those around its
parse (`Within`) or, of a branch, those and the one just taken. A parse owes
what it has counted and not ended (`Owes`), and the counter is what all parses
owe together, or more once one was given up (`Paid`, with the ghost `ifs` as
what the ones below owe). So an `else` that is read at 1 is either that of the
`if` being collected, or the parse owes less than the counter has and never
meets an `else` of its own at 1: `AtWork` says that of the innermost parse,
`Waits` that the branches of one that waits are cut right for good. The
positions of the ifs are counted by `Level`; that a body is even around a piece
is proved with the same `Least` and `NatInd` as below.

`LinesAnnounced` needs a third invariant, `LinesKept`, a `Row` for each parse
under way. In a plain body (no comment, no loop, no newline in a condition) no
text has gaps (`Straight`: `Full` for the text, `Gathered` for the branches that
are being collected), so a newline counted is a newline of the body. What the
debugger was told last is right (`Told`) at the `Place` of each parse that may
go on, which is where it reads or, while it collects an `if`, where that began
(`Knows`). A parse that has made one of a branch does not know its line yet:
`Awaits` says that it has kept what the line will be (`line` and the newlines of
both branches, if it will be told it), or that the branch ends on the line that
is reached. `Live` excludes the parses that a `return` or an error will end; a
loop takes an error back, so one below a loop may still go on. A step changes
the row of the innermost parse, and those of the parses below it only by the
frame they share: `LowerRows` shows that these stay, since in a plain body all
but the innermost parse of a function wait for a branch (`NextIsBranch`) or for
a condition, which comes to no other line. That the newlines of a text without
gaps are those between its ends is `CountFull`, by `NatInd`; that no newline
stands in a condition is `NoNewline`; that a second `else` never comes at 1 is
`AtElse`. `Cuts` and `LinesKept` were invariants of TLC runs over the programs
of `Bodies_runs` before they were proved.

*Variables.* `IInv` is `TypeOK`, `RequestOK` (`ControlsOfRequest`; a control
variable that was sent exists until the request ends; a session variable has the
value `kept`) and `WritesStay`, which needs the first two: a value read through
several scopes stays only if no scope before it gains the name.

*Texts.* `IInv` is `TypeOK` and one invariant per group of routines: `LikeInv`
(the four pointers), `SearchInv` (where the window stands), `CodeInv` (bytes
written against bytes read, plain bytes and room), `ListInv` (used, kept and
reserved bytes; none cut), `TreeInv` (which strings are live, which columns each
node shows). `AgreeInv` adds what each routine has found or made so far:
`CountInv` (characters before `i`), `RollInv` (the hash is that of the window
and nothing before it is an occurrence), `SubstrInv` (the first scan stopped
where the characters begin), `ReplaceInv` (what is counted, or built, is what
the first `i - 1` bytes become), `EscapeInv` (what is written is read as what
was escaped, whatever follows: `ReadingGrows`), `UrlInv` (each byte has its
code, and so far as the code was read it is the text again), and two for `like`.
That it is never true without a match is `LikeReached`: it has come to its two
positions by a match, and may begin again behind the last `%` from where it
stands (`FromWild`). That it misses none needs more: the stretch that is being
compared begins where it may be, and nowhere earlier since the last `%`
(`Leftmost`), and if there is a match there is one from here, or from behind the
last `%` with more of the text under it (`StillMatches`, with `Ahead`, the
counterpart of `Matched` from the end). A mismatch keeps these only if the start
it skips is not the one of an occurrence: where `NoFalseStart` is needed, and
where TLC's counterexample to `LikeMatches` is.

The reference definitions are functions of the numbers up to the length of a
text. The library's induction theorems have an operator as a parameter; the
proofs start from the well foundedness of the subsets of a finite set instead
(`Least`: every set of numbers has a least one), state induction for a set of
numbers (`NatInd`), and show that such a function has the values its definition
says (`RecUp`).

Only model-checked: liveness (all modules), which the prover cannot state with
fairness. `OnlyKnownDeaths`, `RegistrySound` and `ImplementsService` are run and
proved for one thread; with more they do not hold.

## 12. Findings

Each is a run in which TLC finds the violation; `PROJECT.json` quotes the lines.

1. `OneRequestPerSession`: two requests of one session can run together. The
   mutex is named by `session->id`, read without a lock; a destruction clears
   it.
2. `AnswerToItsClient`: the answer to a later request goes through the context
   of the session's first request, which holds another client's request by then,
   or none.
3. `SelectReplaces`: a second select into a variable leaves its columns those of
   the first, or of no record set.
4. `LikeMatches`: after a false start of the text behind a `%`, `like` goes on
   behind the byte that differed and skips the starts in between; `aaabaaba` is
   not like `%aab%ba`.

Steps of the models that differ from what a comment says, without a run of their
own:

* A refresh stores values just read in inputs that stay DIRTY
  (`tagDataBlockCurrentRow.c:296`), where `tagInputDataStructures.h:102` says
  that a value read from the database is clear. The ghost `strayed` marks the
  step.
* Selecting a row again after a refresh leaves the block on another row
  (`rowSelection.c:38` looks at the page's current row, not at the block's).
* Destroying the only session clears both ends of the list and drops another
  user's session that was appended meanwhile (`mkSession.c:436`); the step is in
  `SodiumSessions`, and why `RegistrySound` is for one thread.
* A call of a function that returns nothing yields the value an earlier call of
  the same caller returned (`userHTSQLFunction.c:91`): the value is kept in the
  caller's frame, is read from there (`lemon.post.yy:982`), and nothing clears
  it.
* insert, update and delete as HTSQL statements follow a NULL pointer
  (`post.parser.imp.c:185`); only a program that made an object called
  `LastDMLCursor` by a select before would not.
* A delete that the database refused is answered as done (`refreshBlock.c:168`):
  nothing ever sets `clientMessage`, which `page.ds.h:128` says reports it.
* An error in the body of a while loop does not stop the loop
  (`lemon.post.yy:1088`), as `page.ds.h:119` would have it.
* A request resets the depth of calls while functions of another one run
  (`HandleFrmxRequest.c:81`); it becomes negative when they end.

## 13. What is not modelled

* Vendored and generated code: hiredis, the flex and lemon distributions and
  their output. The generated parsers and lexers are most of the lines of
  `src/`; what they do was read in the grammars (`lemon.post.yy`,
  `lexer.post.ll`).
* The Redis functions (stubs in this commit), SQL files, dynamic libraries, page
  commands and log files: no state of their own.
* Pages as text: composition, templates, printing of tags, filters and paging.
  The state of a page that changes between requests is in the modules above.
* Of the bodies: branches of 1000 characters and more (`mkStrCountEnter` looks
  at the first 1000), empty branches, loops inside loops (the first `end loop`
  ends the outer one), CASE blocks.
* Of the variables: images, Redis variables, default values, kinds of values,
  cursors of record sets; a record set's statement is not freed with it.
* The connection driver, and which connection a block's statement names;
  connections' closing at the end of a session.
* The pipe thread's replies and its use of a session that is destroyed under it
  (`debugeePipeServer.c:20`). Its reply buffer is not reset: a command that
  finds no session, or an unknown one, is answered with the reply to the command
  before.
* Arithmetic of the idle clock: `mkSession.c:584` compares seconds with
  `MAX_IDLE_TIME_IN_MILISECONDS`; a session being idle is a free choice in the
  models.
* Memory is modelled where a struct is freed and reused (sessions, contexts,
  tree strings, handles); leaks are not, such as the struct of each swept
  session (`mkSession.c:433`).
* Smaller cases left out: a row that another session deleted, whose update is
  answered as successful (`tagDataBlockDatabaseOperations.c:601`); the NULL key
  compared when a block never printed is flushed (`:730`), which no displayed
  page leads to; the counter of an int in `memReserved` overflowing.
