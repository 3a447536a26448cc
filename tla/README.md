# Verification of tido

tido is a todo server for LLM agents: one Go process, one SQLite file, seven MCP
tools. Several agents, and several tido processes, may use the same file. This
directory holds a TLA+ model of its logic, the TLC configurations that check it
on small instances, and proofs checked by TLAPS. Paths below are relative to the
repository (`src/`).

## 1. Inventory

| component | state it keeps | operations | what is hard about it |
|---|---|---|---|
| store: tables and mutations (`internal/store/todo.go`, `note.go`, `migration.go`) | `meta.version`, `meta.last_id`, `todos`, `deletions`, `notes` | `InsertBatchDetailed`, `UpdateDetailed`, `DeleteByIDsDetailed`, `DeleteByScopeDetailed`, `AddNote`; in the schema: two cascades and the delete trigger | a cascade crosses levels and scopes; the trigger reads `meta.version`, so the order of the statements matters |
| store: transactions (`store.go`, `todo.go`) | SQLite's write lock, each caller's private view | `BeginImmediate`, the statements of a call, `Commit`, deferred `Rollback` | concurrent callers, `busy_timeout`, failing statements, cancelled contexts, dying processes |
| change feed (`diff.go`, `mcp/todo_diff.go`) | none; the agent keeps a cursor | `Diff` | two statements without a transaction; pages; lost answers |
| queries (`todo.go: List`, `note.go: ListNotes`, `mcp/todo_list.go`, `mcp/todo_get_notes.go`) | none | `List` (four statements), `ListNotes` (two) | statements and pages with writers in between |
| process life (`cmd/tido`, `migration.go: Migrate`) | `user_version`, the tables' existence, requests in progress | start, migrate, serve, stop, close, exit | two first starts at once, a kill between two statements, a power loss that takes back commits, stop with requests open |
| shortid (`internal/shortid`) | none | `Encode`, `Decode`, `Valid` | the text order of ids is not their numeric order |
| parser (`internal/parser`) | none | `Detect`, `Parse`, `Normalize` | two patterns that disagree about what a task is; lines silently skipped; all or nothing |
| validate, argument normalisation (`internal/validate`, `internal/mcp`) | none | defaults, enumerations, dates, exclusions | zero, empty, blank and missing values, defaults that differ between tools |
| view (`internal/view`) | none | rendering of answers, relative dates | int64 arithmetic on dates |
| MCP glue, authentication (`mcp/service.go`, `cmd/tido/http.go`) | none of its own | tool registration, bearer check | routing only |

How they interact: a request comes in through one of the two transports, its tool
handler normalises the arguments (validate, parser), makes one call of the store,
and renders the answer. Nothing is shared in memory between requests except the
connection pool: all coordination goes through SQLite. A mutation answers with a
*cursor*, the `meta.version` it took; an agent gives a cursor back to `todo_diff`
and receives the changes since. `todo_list` returns a cursor of its own from which
the agent may start following.

What makes each part correct:

* **store** - no id is used twice, every deletion leaves a tombstone with the new
  version in its own scope, the rows are a forest, a version belongs to one call,
  an answer names the rows of its own commit.
* **transactions** - a call takes effect at once or not at all, whatever the
  interleaving, failure or death; an update writes the columns it names and no later
  call undoes it unasked; every way out gives the lock back; a call ends.
* **feed** - up to its cursor an agent misses nothing; it holds nothing that never
  was; it gets to the end.
* **queries** - an undisturbed listing is exact; a disturbed one still does not
  claim more than it holds.
* **inputs and views** - a text becomes the tasks it shows or is refused for a reason;
  a delete needs a name; what an agent was shown it may send back; a relative date is
  true.
* **process life** - no process serves a schema that is not its own; a start never
  harms existing data, and ends; a stop does not cut requests off.

The full list of hazards, each at its line and with the properties that answer to
it, is `hazards` in `PROJECT.json`.

## 2. Modules

```
TodoTables          the tables, one operator per SQL statement
  |-- TodoStore     what the store promises: each mutation one atomic step
  |     |-- TodoStoreProofs
  |     |-- ChangeFeed (+ ShortId)   Diff's two statements, an agent and its replica
  |     |     |-- ChangeFeedProofs (+ TodoStoreProofs)
  |     |-- Listing (+ ShortId)      List and ListNotes, page after page
  |           |-- ListingProofs (+ TodoStoreProofs, ShortIdProofs)
  |-- WriteTx       the mutations statement by statement; implements TodoStore
  |     |-- CallLog           WriteTx with the history of what was asked and committed
  |           |-- WriteTxProofs (TodoStoreProofs for the committed database)
  |-- Outline       the text of todo_write, line by line, and resolveParents' loop
        |-- OutlineProofs
        |-- Tools (+ Fields)   the four writing handlers, from arguments to row
              |-- ToolsProofs (+ OutlineProofs)
Fields              arguments checked and converted, rows rendered
Server              start, migration, stop, death and power loss on one file
  |-- ServerProofs
ShortId             Encode and the text order of ids
  |-- ShortIdProofs
MCxxx               instances for TLC
```

### TodoTables and TodoStore

`db` is the content of the database: `lastId` and `version` are the two rows of
`meta`; `todos`, `deletions` and `notes` are functions from primary keys to rows;
`noteSeq` is the AUTOINCREMENT counter. A short id is its number. The field
`status` of a row is a function from the columns an update may overwrite to their
values; an update names some of them (`UpdateFields`) and `Overwritten` is the SET list
of `buildUpdateSets`. The instances have one such column or two. `updated_at` and
`deleted_at` are written and never read back by the store, and are left out.

| code | definition |
|---|---|
| `nextVersion`, `allocateIDs` | `NextVersion`, `AllocateIDs` |
| `resolveParents` | `Anchors`, `WellIndented`, `BatchParent` |
| `batchInsertTodos` | `InsertRows` |
| `ON DELETE CASCADE`, the trigger | `Cascade`, `Tombstones`, `NotesLeft`, together `DeleteRows` |
| the five mutations | `InsertBatch`, `Update`, `DeleteByIDs`, `DeleteByScope`, `AddNote` |
| the refusals | `InsertRefused`, `NotFound`, the empty case of `DeleteHits` |

`reply` is what the last call returned. Calls refused before the store is reached,
and the store's own early returns for an empty batch, no field to update, no ids or
an empty scope, change nothing and are not actions.

### WriteTx

Each caller (a request of one process or of several) has a program counter
over the statements of its call, a private view `work`, and the lock is `holder`.
`Begin` takes the lock, `Busy` is a BEGIN that fails: most often because another
caller had the lock for longer than `busy_timeout`, but also on a cancelled context or
an I/O error; `CheckExists`, `SelectIDs`,
`TakeVersion`, `TakeIDs` and `ChangeRows` are the statements in the order each
function runs them; `Commit` publishes the view; `Refuse` is an early return with
its deferred rollback; `Fail` is any statement's error, a cancelled context
included; `Die` is the end of the process. `last` is a history variable, the answer
of the last decided transaction, through which the module implements TodoStore
(`Store == INSTANCE TodoStore WITH reply <- last`). The `selectTodoByID` at the end of
an update changes nothing; that it may fail is `Fail` at "commit".

### CallLog

The same transactions with two history variables: `asked`, the call each caller is
executing as its agent made it, and `calls`, the calls that took a version in the order
of their COMMITs. Its actions are those of WriteTx, its fairness too; `LogCommit` appends
an entry, `LogEnd` forgets the call with its answer or its caller's death. The
history says what the rows should hold, and `LastWordStands` compares: every column of
a row has the value the last committed call that names the column asked for, and the row
has the version of the last call that wrote it. That is what two agents that update
different fields of one todo at once rely on.

### ChangeFeed

`ReadVersion` and `ReadPage` are the two statements of `Diff`; `Write` is any
step of TodoStore and may come between them. `Changes` is the UNION, `Before` its
ORDER BY (version, then the id *as text*, which is where ShortId comes in),
`FirstRows` the LIMIT, `NextCursor` the computation of `next_cursor`. The agent, which
is not in the repository, does what `skill/SKILL.md` tells it: applies each page to
its replica and keeps the cursor. `CallLost` is a call that fails or whose answer is
lost. `OwnWrite` is an agent of `Adopters` that writes to its scope and continues from
the cursor of its own answer, as `SKILL.md:46` and 125 advise; `ApplyReply` is what
it learns from the answer, `PassedOver` what it thereby skips. `cut` and `repeated`
are history variables; `cut` holds the versions the cursor passed with changes left
out, whether by a page boundary or by adoption.

### Listing

`ReadCursor`, `CountByStatus`, `CountTotal`, `ReadItems` are the four statements of
`List`, `CheckTodo` and `ReadNotes` the two of `ListNotes`. `WantedStatuses`
and `PageLimit` are what the handler and the store make of the arguments; `BaseRows`,
`Matching`, `ListBefore` and `PageOf` are WHERE, ORDER BY, LIMIT and OFFSET. The
agent, again external, asks for the next page by the number of rows it received.
`WriteMeanwhile` is any write of TodoStore; refused calls are skipped because no
query can see them. `seen` and `quiet` are history variables.

### Outline, Fields and Tools

A *line* in Outline is what `markdownDetectRE` and `markdownLineRE` can tell apart:
blanks at its start (spaces only, or with a tab), the mark of `- [.]` if any, what
follows. `Normalize`, `Detect`, then one step per line (`SkipLine`, `TakeLine`,
`OddIndent`), `EndOfText` with the check of the contents, and one step per item of
`resolveParents` (`FindParent`, `InvalidIndent`) with its map `lastByDepth`. TodoTables
defines parents without that map (`Anchors`); `LoopFindsAnchors` relates the two.

Fields has the pure functions: `resolveScope`, `parseDueAt`, `normalizePriority` and
its siblings, `buildUpdateFields` (`UpdateArgsValid`), `buildUpdateSets` (`Updated`),
`relativeDue` in int64 arithmetic, `msToISO`, `RenderTodo`. A name, an id or a content
is a member of a small set with one member per class the code tells apart ("bad name",
"long", "bad"); a date is an integer; an optional value is a set of at most one.

Tools puts them together: `WriteCall`, the steps of Outline and `Insert` are
`todo_write`; `Update`, `Delete`, `AddNote` and their refusals are the other handlers.
It follows one row, the first of a batch, because concurrency is the subject of the
other modules.

### Server

`Start` to `Listen` are `store.New` with `Migrate` and the start of the transport;
`ReadUserVersion`, `BeginScript`, `RunScript`, `CommitScript` and `SetUserVersion`
are separate steps because they are separate statements, of which only the middle
three are in one transaction. `Accept`, `WriteRequest`, `Answer` are a request.
`Stop` is both `ListenAndServe` returning after a signal and stdio reaching the end
of its input, `StopStdio` a signal on stdio, `Close` the deferred `st.Close`, `Exit`
the end of `main`, `Kill` a death anywhere. Of the file it keeps the tables'
existence, `user_version` and a number of commits that stands for the data.
`synchronous=NORMAL` in WAL mode syncs the log only at checkpoints: `survivors` are
the states the file has had since the last `Checkpoint`, and `PowerLoss` returns to
any of them.

## 3. Runs

| run | instance | states | what it shows |
|---|---|---|---|
| `store` | 2 scopes, outlines of up to 4 items and 3 levels, 4 ids, 4 versions, 2 notes | 405,230 | ids, forest, versions, tombstones, notes, answers after every sequence of calls |
| `feed` | 1 agent that also writes, 2 scopes, 4 ids, 3 versions, pages of 1 and 2 rows, batches of 1 and 3 | 77,164 | what an agent can rely on, and that it gets to the end |
| `tx` | 2 callers, 8 calls, rows of 2 columns and updates of either, 3 ids, 3 versions, 1 note | 126,458 | concurrent transactions implement the atomic store; no update is lost to another or writes a column it was not asked for; calls return |
| `list` | 1 scope, 4 calls of `todo_list`, pages of 1 and 2, 3 ids, 3 versions, 2 notes | 896,122 | what pages still promise under writes |
| `server` | an HTTP and a stdio process, 1 request each, 3 commits | 20,391 | starts, migrations, stops, kills and power losses |
| `tools` | texts of up to 3 lines of 14 kinds and checklists of 4, 23 sets of other arguments of `todo_write`, 35 of `todo_update`, 32 of `todo_delete`, 4 note texts, 1 note | 16,103 | what the arguments become, what is refused, what a delete takes and an echo leaves alone |
| `feed_loss`, `feed_repeat`, `list_gap`, `parse_skip`, `startup_crash`, `shutdown` | the same modules | - | the six findings below |

Why these bounds are enough to be interesting:

* *ids and batches*: four ids hold a parent, two levels of children and a sibling,
  so a cascade passes through a level and leaves rows behind; two batches of one
  version each let rows of different calls hang under each other, across scopes too.
  The outline `<<Leaf(1)>>` is the one `resolveParents` refuses.
* *versions*: with four, a row can be inserted, updated, deleted with others and
  something written after it; with three, an agent can be one version behind, in the
  middle of one, and one ahead of the answer it is reading.
* *pages*: pages of 1 and 2 against a batch of 3 put a boundary at every place inside
  a version. `DefaultLimit` and `MaxLimit` are 100 and 500 in the code, 1 and 2 here;
  `Clamp` is the same function.
* *base*: ids are in base 36; with base 3 the fourth id already has two digits, so
  text order and numeric order differ as they do in the code from `t10` on.
* *callers*: two, so that each of the calls meets each other one at each statement.
  The lock makes a third caller wait as the second does.
* *columns*: two in `tx`, so that an update can name one and leave the other to
  another caller; with three versions a row can be inserted and updated by both.
* *notes*: two notes and pages of one put a new note between two pages.
* *texts*: three lines suffice for a task, one that is not and one that is wrong in
  every order; four lines of a checklist for an item that returns to a shallower level
  and a deeper one after it.
* *dates*: scaled so that TLC can go past every edge. A millisecond is 6 units of a
  duration, a second 2 milliseconds, a minute 4, an hour 12, a day 36; an int64 is
  -1024 .. 1023. The dates lie on both sides of now, of every unit, of 0, of the
  range a duration holds and of the years RFC 3339 writes.
* *times*: one clock value, so that rows of different batches tie as rows of one
  batch always do and every ORDER BY falls through to the id. Clocks that go
  backwards are in the proofs (any `Times`), not in the runs.

`MaxId`, `MaxVersion`, `MaxNotes`, `MaxTodoNotes` and `MaxCommits` are bounds of the models, not of
the code; they are guards of the actions that count. A call whose bound is reached
cannot be made any more, which is why no property says that a particular call will
succeed. In `WriteTx` the guard is at the statement that counts, so a caller that
meets it can only go on through `Fail`, an outcome every statement has anyway.

Symmetry is used in `store`, over scopes, where no liveness is checked.

### Fairness

* `WriteTx`: weak fairness of `Advance(p)`: a caller inside a call goes on, each
  statement ends with success or an error, and a wait for the lock ends either way.
  The code has this from `busy_timeout(5000)` and the Go scheduler. There is no
  fairness of `Begin` alone: SQLite's lock is not a queue, and `CallsReturn` does not
  say that a call succeeds.
* `Server`: weak fairness of `StartStep(p)`, for the same reason. Nothing forces a
  process to start, to accept or to stop.
* `ChangeFeed`: an agent keeps calling (`WF` of `ReadVersion`), and of its calls not
  all fail (`SF` of `ReadPage`). This assumes something of the agent, not of tido;
  without it the agent may never ask.

## 4. Findings

Each is a run that TLC refutes; `findings` in `PROJECT.json` quotes both sides.

1. **`feed_loss`** - `diff.go:69`: `next_cursor` is the version of the last row of a
   page. All rows of a batch or a cascade share one version; when the page ends
   inside it, the next call starts after it. `SKILL.md:136` says nothing is lost.
   `CaughtUpToCursor` says exactly what remains true.
2. **`feed_repeat`** - `diff.go:26`: a commit between the two statements is delivered
   and then delivered again. Applying a change twice is harmless, the document says
   it does not happen.
3. **`list_gap`** - `todo.go:243`: `has_more` compares the rows with a total counted by
   an earlier statement; after a write in between it can be false although a row was
   left out, and the answer's cursor is already past that row.
4. **`parse_skip`** - `parse.go:28`: a checkbox line indented by a tab is a task to the
   pattern that decides about the format and not to the one that takes the lines. It
   is skipped without an error while the others are written; the comment on `Parse`
   (line 49) says that must not happen, `DESIGN.md:252` gives a pattern that would
   accept it.
5. **`startup_crash`** - `migration.go:113`: `user_version` is set outside the
   transaction that creates the tables. A start that ends in between leaves a
   database no later start can open.
6. **`shutdown`** - `http.go:48`: nobody waits for the goroutine that calls
   `Shutdown`; `main` returns with requests open.

Disagreements met on the way that have no run: `todo.go:481` promises one returned id
per tombstone although a cascade writes more (its own line 489 admits it);
`DESIGN.md:138` and 241 promise limits of 32 KiB and 200 items that the code does not
have; `DESIGN.md:572` accepts a date without a time, `parseDueAt` only RFC 3339;
the table in `DESIGN.md` 12.5 is not what `humanizeDuration` writes; adopting the cursor
of a mutation (`SKILL.md:125`) skips what others wrote in between, which `PassedOver`
spells out.

## 5. Proofs

All theorems are for every value of the constants that satisfies the modules'
assumptions: outlines are nonempty sequences of items (`BatchesAssumption`), columns
overwritten with new values are columns again (`UpdateFieldsAssumption`), every
agent follows a known scope and pages have at least one row (`ClientsAssumption`,
`LimitsAssumption`), ids have a base of at least two (`BaseAssumption`), no process is
named like the free lock (`ServerAssumption`), nor a caller (`CallersAssumption`), a
request names columns and rows of the right types (`RequestsAssumption`), a filter of
`todo_list` is a known status, a list of ids finite and clocks are natural numbers
(`ListAssumption`), a text is a sequence of lines and the four status words are statuses
(`TextsAssumption`), a `due_at` is a number, a date or neither (`ToolsAssumption`), and a
minute is shorter than an hour, an hour than a day, a day than the longest duration, while
the first date of RFC 3339 is a whole second (`ScaleAssumption`). The runs evaluate these
assumptions.

**TodoStoreProofs.** The inductive invariant is

    IInv == TypeOK /\ Tables
    Tables == IdsAccountedFor /\ ParentsPrecede /\ OneCallPerVersion /\ NotesAttached

None of its parts is inductive alone. That no deletion overwrites a tombstone needs
live and dead ids to be disjoint (INSERT OR IGNORE would keep the old one otherwise);
that a version belongs to one call needs every version in use to be at most
`meta.version`; that a new row's parent precedes it needs live ids to be at most
`last_id`. One lemma per statement describes what it makes of well-typed tables
(`InsertEffect`, `UpdateEffect`, `DeleteEffect`, `NoteEffect`, the cascade
through `CascadeClosed`), one per call shows the invariant, the stamps and the
answer (`InsertInv`, ..., `NextInv`). The answers (`ReplyNamesTheCommit`) and the
action property `EveryChangeIsStamped` follow from the invariant at each step.

**ChangeFeedProofs.** `FeedInv == IInv /\ FeedTypeOK /\ CaughtUpToCursor /\ NoPhantoms`.
A write is handled by `Stamped`, proved for the store: what it changes is stamped above
every cursor, so what an agent knows of older versions stays true. A page is handled by
counting: an answer with no more rows than the limit is everything (`FirstRowsFacts`
with cardinalities), a longer one is a prefix in the order of versions, so that what
it leaves out at or below the new cursor lies in the version it ends in (`PageFacts`).
`IInv` is needed because a row and its tombstone must not share a version.
An adopted cursor (`OwnWriteInv`) rests on both: what the agent had not read is in
`PassedOver`, and what its own call changed is named in the answer (`AnswerNamesRows`)
or passed over.

**ServerProofs.** `ServerIInv` adds to the types what each process knows of the file
at each point of its start (`KnownAt`) and that every surviving state is whole
(`FileWhole`: a stamp promises tables, and data needs them). The lock makes the first
inductive: between `RunScript`, which found no tables, and `CommitScript` nobody else can
create them. `DataKept` then is arithmetic: what the script resets to 0 was 0. One lemma
per kind of step: a process ends (`EndInv`), goes on without the lock (`GotoInv`), works
under it (`ScriptInv`), publishes (`PublishInv`), or the power goes (`PowerInv`).

**OutlineProofs.** `OutlineIInv` ties the loop's locals to what has been read.
`MapIsCurrent`: `lastByDepth[d]` is the one item at depth *d* that no item at *d* or above
has closed since, so its entry at depth *d - 1* is the whole of `Anchors`
(`AnchorIsEntry`, `NotedIsCurrent`). `ItemsAreTasks`: item number *n* comes from the *n*-th
task line, counted by cardinalities (`Ranks`). `Phases` carries to the end of the call
that every line has been read and every content accepted. `RefusalsJustified` and
`TasksKept` rest on what makes a line a task (`Checklist`, `TaskLine`).

**WriteTxProofs.** `Implementation` is the refinement of TodoStore, step by step, and
`TxIInv` is what it needs. It says of each caller what its private view and its half-made
answer are at each statement: a function of the *committed* database and of the request
(`Reached`). That is stable because only the holder of the lock publishes and the holder is
exactly the caller inside its transaction (`OthersKeep`); at "commit" the function is the
effect of a whole call (`Decided`), so `Commit` is a step of TodoStore (`CommitIsCall`), an
early return is a refusal of it (`RefusalIsCall`), and everything else, `Die`, `Fail` and
`Busy` included, a stutter. What TodoStoreProofs shows of atomic calls then holds of the
committed tables of every interleaving (`CommittedTables`, `CommittedChangesStamped`).
`NoAnswerTwice` needs more than the invariant of a state: a COMMIT answers with a version
above every version, and ids above every id, told before.

`LastWord` is about CallLog. Its invariant `LogIInv` adds to `TxIInv` that a call is executed
as it was asked for, and that the history is as long as `meta.version`, so that a version is
the place of its call in the history. `LastWordStands` is then inductive: by `Decided` a COMMIT
publishes one whole call on the rows of the database it finds (`DecidedRows`), so the call
has the last word on the columns it names (`RowWritten`), and every other column, like every
other row, keeps the last word it had (`RowLeftAlone`).

**ShortIdProofs.** `Encode` is the repeated division of `strconv.FormatInt`. That it is
defined for every number, injective (`TextsDistinct`) and totally ordered as text
(`IdOrder`) is an induction, made by least counterexample over the natural numbers
(`LeastNatural`, from the library's `NatLessThanWellFounded`): two functions that satisfy the
equation up to *k* agree (`UpToAgree`), one exists for every *k* (`UpToExists`).

**ListingProofs.** A page is counted, not computed: in the total order `ListOrder` (which
ends in the id, by `IdOrder`) a page that is not full leaves out nothing, since the first row
left out would have fewer rows before it than the limit (`ShortPageIsAll`), and the pages
up to an offset are the rows with fewer rows before them than the offset (`PageExtends`).
`ListInv` adds to `IInv` what a reader holds at each of the four statements. `SeedOK`: for a
first page of the whole scope that is not full, every later change of a row is stamped above
the cursor, because the cursor was read first and every write is `Stamped`. `QuietCall` and
`QuietAnswer`: while no row changes, what was counted, totalled and shown is what the
tables hold, and the counts add up to the total (`CountsAddUp`). `ReadingOK`: the notes
received are the first ones in the order of their ids; writes only append notes or delete
all of a todo's (`NextAppends`), so this survives them (`WriteKeepsReading`).

**ToolsProofs.** `ToolsInv` joins `OutlineIInv` (each step of a handler is a step of the
parser or leaves it alone, `ToolsIsOutline`) with the types of the row and the validity of
the arguments of a `todo_write` in progress: the row is written several steps after they
were checked, and its content and status come from the parser (`FirstItem`).
`RelativeDueTells` is arithmetic of the wrapping int64 (`WrapFits`, `WholeUnits`);
`EchoChangesNothing` follows field by field, dates by `WholeSecond`; that a date too far to
be sent back is outside the years of RFC 3339 needs those years to begin at a whole second.

Only model-checked: liveness (`CallsReturn`, `FeedCatchesUp`, `StartsEnd`), because fairness
and ENABLED are out of the prover's reach. Every other property of the passing runs has a
theorem. The six refuted properties are findings.

Each property has a mutant in `PROJECT.json`: a definition of the model changed as a
plausible bug would change the code (defined next to the original, marked "Mutant"),
under which TLC finds the property violated.

## 6. Not modelled

* **characters**: which texts a regular expression or `validate` accepts is a class of
  lines, names or contents; a checkbox broken over two lines (`-` at the end of one,
  `[ ] x` on the next) also matches `markdownDetectRE` and is not among the inputs. A
  mark outside the four (`[X]`) makes a line plain text, as in the code.
* **views**: `RenderTodo` is modelled; ids, versions and timestamps are copied, and the
  note and change views copy fields one by one. For dates farther away than a duration
  can hold `relativeDue` wraps and is wrong; `RelativeDueIsTrue` is stated for the others.
* **`Decode`** of `internal/shortid`: called by tests only.
* **MCP glue, authentication**: no state of the program's own.
* **deciding what a lost answer means**: `todo_write` has no request identity, so an
  agent that retries after a lost answer writes twice. The repository promises nothing
  about it; `ImplementsStore` with `Die` covers that the first commit is whole.
* **cursors after a power loss**: Server says what is left of the file. The agent whose
  cursor is then ahead of `meta.version` is not modelled: `Diff` silently resets the
  cursor and no document says what the agent may still rely on. WriteTx and ChangeFeed
  take COMMIT as durable.
* **`OR IGNORE` on other errors, `created_at` of a clock that jumps in `List`'s pages**:
  the first cannot happen (see `IdsAccountedFor`), the second changes only the order.

## 7. Plan

Done: TodoTables, TodoStore, WriteTx, ShortId, ChangeFeed, Server, Listing, Outline,
Tools, each with its proofs, and Fields, proved about through Tools.

Next, in this order:

1. what an agent may rely on after a power loss that leaves its cursor ahead of
   `meta.version` (a module over ChangeFeed and Server, a run, its invariant proved);
2. the effect of an insert or a delete between two pages of `todo_list` (which rows can be
   shown twice or not at all), next to `ListSeedsFeed`.
