# A formal model of pg_inspect

pg_inspect parses, fingerprints, scans, normalizes, deparses, analyses and
truncates PostgreSQL queries from Elixir.  It is a NIF (`src/src/pg_inspect.c`)
around libpg_query, which runs PostgreSQL's own parser outside the server, and
a layer of Elixir over the protobuf trees the NIF returns.

This directory holds TLA+ modules that model the parts of it which keep state
and are hard to test, TLC configurations that check them on small instances,
and TLAPS proofs of the properties that matter most.  Paths in the modules and
in `PROJECT.json` are those of the repository with `src/` in front.

## The system

| Part | State it keeps | Operations | Module |
|---|---|---|---|
| NIF binding (`src/pg_inspect.c`) | the call in progress: C string, library result | five handlers, `make_success`, `make_error` | `PgThread`, promise in `NativeCall` |
| Library entry points (`pg_query.c` and one file per function) | per thread: initialised?, the contexts, lexer settings; one exit key for all threads | `pg_query_init`, `enter/exit_memory_context`, `raw_parse`, `scan`, `normalize`, `deparse`, thread-exit hook; parser options | `PgThread`, `PgLibrary` |
| PostgreSQL runtime (`mcxt.c`, `aset.c`, `elog.c`) | per thread: current context, freelist of contexts, error stack, exception stack; the shared heap | create/delete a context, `errstart`/`errfinish`, `PG_TRY` | `PgThread` |
| Normalization (`pg_query_normalize.c`) | recorded constants, parameter counters, parameters of the target being walked, the text written | `const_record_walker`, `fill_in_constant_lengths`, `generate_normalized_query` | `Normalize` |
| Truncator (`truncator.ex`) | parts still to try, parts replaced | `truncate` | `Truncator` |
| AST walk and scope (`ast.ex`) | queue of (node, path, scope) | `reduce`, `enter_node`, `enter_field`, `update`, `put` | `AstWalk`; the scope and `update` in `Analysis`, `put` in `Truncator` |
| Analysis (`analysis.ex`) | tables, aliases, CTEs, functions, filter columns, parameters, statement types found so far | `analyze` with seven collectors | `Analysis`, compared with `SqlScoping` |
| Fingerprint (`pg_query_fingerprint.c`, generated functions) | hash state, token list, cache of sorted lists | `_fingerprintNode`, `_fingerprintList`, one function per kind of node | `Fingerprint`, compared with `QueryShape` |
| Splitter (`pg_query_split.c`) | parenthesis depth, atomic block, start of statement | `split_with_scanner`, `split_with_parser` | not modelled; no NIF reaches it |
| Elixir facade (`ex_pg_query.ex`, `protobuf.ex`, `native.ex`, ...) | none | one function per NIF, bang versions | interface only: `NativeCall` |
| Grammar, lexer, deparser, protobuf code | none between calls | generated | not modelled |

How they interact.  An Elixir process calls a NIF; the VM runs it to its end on
whichever scheduler thread the process is on.  Everything PostgreSQL calls
global is `__thread` in libpg_query, so a call finds what the calls before it
on the same thread left: contexts in a freelist, lexer settings, the error and
exception stacks.  Threads share the heap and one variable, the pthread key
under which each registers its clean-up.  Inside a call, an error is a
`longjmp` to the innermost `PG_TRY`; with none it ends the whole VM.
Normalization walks the tree and then reads the text with the lexer, and the
two must agree on where constants are.  The truncator walks the tree once and
then deparses (a NIF call) after each replacement it makes.  `analyze` parses
(a NIF call) and hands its collectors to the same walk; each queue entry
carries the scope of the node above it, and the collectors see nothing else of
where they are.  The fingerprint recurses over the C tree: the generated
functions call back into `_fingerprintNode`, and contexts for list items share
one cache.

What is hard, and what would make each part right:

- Call path: interleavings of thread start, first call, failing call and thread
  end; allocation failing between any two steps; state left behind by a failing
  call.  Right means that contexts are owned by one thread and freed once, every
  call starts from the same state, results are freed, and the answer depends on
  the function and its argument alone.
- Normalization: nested SELECTs, targets and GROUP BY items share one mutable
  state; positions are found by three different guesses.  Right means that each
  constant becomes one placeholder, numbers are dense and new, a GROUP BY item
  stays equal to the target it repeats, and the text fits its buffer.
- Truncator: paths found in one tree are applied to another; parts nest.  Right
  means that the text fits, nothing goes stale, inner parts go first, and text
  is cut only if leaving out parts is not enough.
- Analysis: one breadth-first walk interleaves scopes that SQL nests, and what
  a name means is decided from flags that come down with the queue entries.
  Right means that the scope of a visit depends on its ancestors alone, tables
  are told from CTEs, aliases stand for the table they stand for in SQL, and
  each parameter, CTE and statement type is reported as it occurs.
- Fingerprint: names are hashed first and taken back if nothing follows; lists
  are hashed twice, sorted by hash, and cached.  Right means that what is taken
  back from the hash is taken back from the tokens, that similar queries match
  whatever the hashes are, that different ones do not, and that the work does
  not grow with the power of the nesting.

`PROJECT.json` lists the hazards one by one, each at its line, with the
properties that cover it.

## The modules

### NativeCall, PgThread, PgLibrary

`NativeCall` is what callers may rely on: a call returns a tagged tuple whose
tag depends on the function and the argument.  Only a process that is out of
memory may die in a call.

`PgThread` is the mechanism.  `tls[t]` holds the thread-local variables of
thread t (`init` is `pg_query_initialized`; `top`, `err`, `current` are
`TopMemoryContext`, `ErrorContext`, `CurrentMemoryContext`; `free` is
`context_freelists[0]`; `scs` is `standard_conforming_strings`; `exc` says
whether `PG_exception_stack` is set; `depth` is `errordata_stack_depth + 1`;
`hook` is the value stored under the exit key).  `call[t]` is the call in
progress; `pieces` are the malloc'ed objects that belong to it.  `heap` is the
set of contexts in existence and `misuse` records a use after free.  The
actions follow one call in its order:

| Action | Code |
|---|---|
| `Refuse`, `Begin`, `Reply` | the handlers of `pg_inspect.c` |
| `InitMemory`, `CreateKey`, `SetHook` | `pg_query_init`, `MemoryContextInit` |
| `EnterContext`, `LeaveContext` | `pg_query_enter/exit_memory_context`, `AllocSetContextCreateInternal`, `AllocSetDelete` |
| `BeginTry`, `BodySucceeds`, `BodyRaises`, `BodyJumpsAstray` | the code between `PG_TRY` and `PG_CATCH`; `errstart`, `errfinish` |
| `Catch`, `After` | `PG_CATCH`, and what follows `PG_END_TRY` |
| `ThreadExit`, `ThreadStart` | `pg_query_thread_exit`, `pg_query_free_top_memory_context`; a new scheduler thread |

`CreateKey` and `SetHook` are two steps because the key variable is shared: a
thread may store its hook under a key that another thread has just made.  The
results of both calls are not looked at.  `CreateKey` fails when the process has
made `KeyLimit` keys, which may be none, or has no memory; the variable then
keeps the last key, or stays 0.  Key 0 is a key of some other part of the
process, or of nobody, so that a hook stored under it is not one
(`hook` stays `NoContext`), and neither is one that `pthread_setspecific` has no
memory for.  What the owner of key 0 does with the value is not modelled.
A thread without a hook leaves its contexts behind when it ends (`Forgotten`).
`NoContextLost` says that nothing else does: no step but the end of a thread
without a hook makes a context forgotten, there is such a thread only if the
process has no key or no memory, and the contexts are its own.

Any `malloc` of a call may fail where `MayRunOut` is set; outside a handler
that ends the process (`Die`), as it ends the Erlang VM.

`PgLibrary` adds what the NIFs do not do but the library offers: parser
options.

### Normalize

A query is given as the walk over its tree (which node is met when) and the
list of the lexer's tokens.  `phase` goes from `walk` through `lengths` to
`text`.  `clocs` is `jstate->clocations`; `high` and `extern` are the two
counters (the numbers of new parameters count down from -1 until the text is
written); `refs` is `param_refs`; `selects` is the C stack of the `T_SelectStmt`
cases that are open, each with its list of fingerprints.  `FillLength` takes
the recorded constants in the order of their positions and lexes on from the
last one.  `WriteParam` and `WriteRest` write the text; `normLoc` counts its
bytes, which `BufferLength` must cover (`WithinBuffer`).  `Final` is the number
that is printed: `extern - param_id` in an int, which wraps past `MaxInt`.
`NumbersFit` says that the query's own numbers and its new ones together do not
reach that far; under that condition `PlaceholdersAreNumbers` and
`BufferSuffices` ask for numbers from 1 to INT_MAX and for a text that fits.

### Truncator

A statement is the lengths of the parts that `candidate_specs` names, with
their paths, and the number of characters around them.  `Length(R)` is what
`query_length` returns when the parts of R are replaced; `Alone(i)` is what the
measuring functions return; `Filler(i)` is what a replacement prints.  Both
treat lists the statement does not have as the code does: they are visited,
measured with the keyword that was not stripped, and printed with a keyword of
their own.  `Whole` is the first measurement and the choice of candidates,
`Omit` one round of `reduce_while`.  The lengths 6, 28, 13 and 6 in `Alone` and
`Filler` are those of `SELECT`, `INSERT INTO x DEFAULT VALUES`,
` GROUP BY ...` and ` (...)`, as the deparser of libpg_query prints them.

### AstWalk, SqlScoping, Analysis

`AstWalk` is `AST.reduce` for any tree, any scope and any caller: they are its
parameters (`Children`, `EnterNode`, `EnterField`, `Collect`).  `queue` holds
everything that was ever put in and `next` says what comes out, so that the
history of the walk can be spoken of.  The one action, `Reduce`, is a round of
`do_reduce`: enter the node, call the caller's function, push the children with
their paths and their scopes.

`Analysis` gives the parameters their meaning: `ScopeOfNode` and `ScopeOfField`
are `enter_node` and `enter_field`, `CollectAll` runs the seven collectors.
`UpdateReaches` is where `AST.update` would get to on a path of the walk.

`SqlScoping` is not the code: it says what names mean to PostgreSQL, by
recursion over the nesting of the statement.  `TableUses` are the range
variables, each with what it is for (a table that is read, written or created,
or none of that, as in FOR UPDATE OF), whether it means a CTE that is visible
there (`visible`: it has no schema and the CTE's name), whether schema and name
joined by a dot are spelled like a visible CTE (`spelledLikeCte`, which is what
`table_name` compares), and whether it is in the body of a CTE; a place (`Places`) is a node with
what its surroundings say of the range variables below it.  A role reaches a
range variable through a field of the statement (`Role`) and from there only
through what can be between a FROM clause and its tables (`Holders`).
`FilterRefs` are the qualified columns in conditions, each with the FROM item it belongs to.
The properties of `Analysis` compare what the walk collected with that.
`SqlScoping` also says, in its assumptions, where in a tree the kinds of nodes
can be that the proofs look for: `RootsAssumption` and `GrammarAssumption` are
what `pg_query.proto` leaves room for and `gram.y` makes, `WithAssumption` is
the form of a WITH clause, `NamesAssumption` says that tables and CTEs have
names, and `HeightAssumption` that trees are finite.

### Fingerprint, QueryShape

`Fingerprint` is the recursion of `_fingerprintNode`, `_fingerprintList` and
the generated functions, with the C stack made explicit: `calls` is what is
still to be done, the next thing first.  A `close` entry is the end of a field:
it knows the hash before and after the field's name and takes the name back if
nothing followed.  A `hashed` entry is a list waiting for the hash of an item
that is hashed in a context of its own.  `context.hash` lists the texts that were fed to the
hash, and `Digest` is what comes out: the texts in a row with nothing between
them, so that different texts may have one digest, as in the code, and
different bytes never have.  `Precedes` orders digests as the hashes would, and
is chosen with `order`, so that nothing can depend on what the hash function
is.  Whether a field added anything is seen from the list rather than the
digest: what a field adds begins with a name, which is not empty, so that the
two agree.  A node
is known by its path, which stands for its address in the cache.
`FieldsOf` says for each kind of node what its generated function hashes, and
which fields are lists, the only ones in which a lone NIL counts (`HoldsNil`).
Each behaviour fingerprints one query and then another, so that two can be
compared.

`QueryShape` is the reference: the shape of a query with sets for the lists
whose order does not matter and nothing for constants, parameters and aliases.
In a query that `IsFlat`, no statement, CASE or join is inside another, so that
it is plain where nodes end; in one that `IsPlain`, moreover, no text holds the
name of a node or of a field, so that it is plain where texts end.

## The runs

| Run | Shows |
|---|---|
| `call_path` | two threads, any calls, thread ends and replacements, any allocation or pthread call failing: ownership of contexts, clean start, freed results |
| `call_path_live` | the same with memory to spare: a started call returns; refinement of `NativeCall`, so that a good argument is always answered with ok and a bad one never; no PANIC after any number of failing calls; no context is left behind |
| `library_options` | violation: a failed parse leaves its option to later calls |
| `normalize` | the properties of normalization, on plain and parameterized selects with parameters up to INT_MAX, utility statements and subscriptions |
| `normalize_mixed` | violation: a GROUP BY item that repeats a target with `$n` and a constant is renumbered |
| `normalize_overflow` | violation: with the largest parameter there is, the new number is negative and the text longer than its buffer |
| `truncate` | the truncator's properties for every limit |
| `truncate_grows` | violation: text is cut although leaving out a clause would do |
| `analysis` | the walk reaches each node once, with the scope of its ancestors; tables, CTEs, aliases, parameters and statement types are those of the statement |
| `analysis_cte` | violation: a CTE read by a later CTE is reported as a table |
| `fingerprint` | tokens spell the hash; similar queries match; plain queries that differ do not; the work is linear |
| `fingerprint_with` | violation: a field of an inner node and one of the outer node give the same fingerprint |

The runs that expect a violation each refute a sentence of a comment, a header
or a test; `findings` in `PROJECT.json` quotes it.  The behaviours of
`library_options`, `normalize_mixed`, `normalize_overflow`, `fingerprint_with`
and the lengths behind `truncate_grows` were also reproduced with the C library.

### Bounds, and why they are enough

- Two threads: they interact only through the heap and the exit key, and every
  interference needs one thread between two steps of another.  A thread that
  ends is replaced, so runs are unbounded in time.
- Six contexts: a thread holds at most three (`AtMostThreeContexts`, proved).
- `KeyLimit` 1 in `call_path`: of two threads and those that replace them, one
  makes the key, or none does if memory runs out, and the rest find none left.
  2 in `call_path_live`: threads store hooks under keys of each other.  No key at all, which `ContextsKept` is proved for too, is the
  case of `call_path` in which the first call fails.  `MaxFree` 2: the
  freelist never holds more than one context in this program, so the full list
  is never reached at 100 either; 2 keeps the run small.
- `StackSize` 5 is PostgreSQL's.
- Inputs: one for each kind the code tells apart.  `call_path` takes one that is
  accepted and a protobuf with an unknown node, which the reader gives up half
  way; with memory running out, each call may fail for that alone.
  `call_path_live`, which asks what the answer of a call depends on, takes one
  that is accepted under one lexer setting only, one that the grammar refuses,
  and one that is refused before the library is entered.
- `MCFresh` hands out the lowest free context: contexts are interchangeable.
- `MCNormalize`: up to two targets and three GROUP BY items of up to two leaves
  (constant, negative constant, list of one or of two constants, parameter,
  sub-select), a WITH clause that comes
  first in the text and last in the walk, DefElems in both orders.  Matching
  compares one item with one target, so two of each give every coincidence.
  `Slack` is 2 where the code has 10, and numbers take two digits from 4 on, so
  that the buffer is nearly full and a new digit costs something.  `MaxInt` is
  19, and parameters are `$1`, `$2` and the last three, `$17` to `$19`, with up to
  four constants: numbers reach INT_MAX, stop one short of it and pass it.
  `Width` counts the minus of a negative number.
- `MCTruncator`: parts shorter than an ellipsis, as long and longer, up to nine
  parts nested two deep, and limits from -1 to past the longest text.

- `MCAnalysis`: some six hundred scripts.  Every main statement (SELECT with a
  sub-link or a derived table, UNION, INSERT, DELETE, UPDATE, MERGE) is put
  under every WITH clause of one CTE, of two, and of one in another, plain and
  RECURSIVE, with every choice of names that do or do not hit a CTE.  Eleven
  ways of nesting one level of aliases in another are combined with five
  choices of inner aliases.  Scope is inherited level by level, so two levels
  and what stands between them (sub-link, LATERAL, CTE, set operation) give
  every case of `enter_node` and `enter_field` that aliases depend on.
- `MCFingerprint`: every ordered pair of the queries, under two orders of the
  streams that are the reverse of each other, and under every order of items
  with the same hash.  `MaxDepth` is 13 where the code has 100: deep enough to
  walk the plain queries whole, and low enough for the limit to cut the nested
  ones, in calls of nodes and in structs that pass it; 20 in
  `fingerprint_with`, where nothing is to be cut.  Texts are strings; two of the
  queries of `fingerprint` are `SELECT a.b` and `SELECT "aStringstrb"`.

Deadlock is checked in `call_path_live` and `library_options`.  It is not where
the process may end (`call_path*`) and where the modelled
function simply returns (`normalize*`, `truncate*`, `analysis*`,
`fingerprint*`).

### Fairness

`FairSpec` assumes weak fairness of `LibraryStep(t)`, the steps that a thread
takes inside a call.  A NIF runs on an operating-system thread without blocking
on anything and without yielding, so the scheduler of the operating system is
all this needs.  Nothing is assumed of callers or of threads ending.

In `AstWalk`, `FairSpec` assumes weak fairness of `Reduce`: `do_reduce` is a
tail-recursive function of one Elixir process, which the VM's scheduler resumes
as long as it is runnable.

## What is proved

`PgThreadProofs`, for any number of threads, contexts, inputs, keys and error
stack entries, whether or not allocations fail:

- `TypeCorrect`, `CallsAlwaysStartClean`, `NeverAborts` from `LocalsInv`: what
  the program counter of a thread says about its thread-local variables (a
  handler is installed exactly in the body, `depth` is 1 exactly in `catch`,
  which contexts are set).  `CallsStartClean` alone is not inductive, because it
  says nothing of the steps between two calls.  The proof goes thread by
  thread: `LocalStep` shows that a step keeps the invariant of the thread that
  takes it, `OthersUntouched` that it leaves the others alone.
- `ContextsPrivate` and `ContextsUsedAlive` from `OwnInv`: `ContextsUnshared`
  and `NoMisuse` together with `LocalsInv`.  Neither is inductive by itself:
  that a context freed by one thread is not another's needs disjointness, and
  disjointness of a fresh context needs that everything owned is in the heap.
- `ContextsKept`, the action property `NoContextLost`, for any `KeyLimit`, 0
  included: each step changes the heap by just what its thread owns before and
  after (`OwnStep`), except when a thread ends without a hook, and `LocalInv`
  says when there is none.  `HeapIsWhatThreadsHold` is the case in which there is
  a key for the first thread and memory enough: then nothing is ever forgotten,
  although threads that start after the keys are used up share one.
- `ThreeContextsSuffice`: `LocalsInv` bounds the freelist by one context.

- `CallsFreeTheirResults` and `CallPathImplementsNativeCall`: the detailed call
  path implements `NativeCall`, whose steps are a call, a reply and a death.
  Both follow from `CallsInv`, which adds to `LocalsInv` one statement for each
  thread: what the call in progress has allocated is something its function
  frees or one of the two things it is known to lose, and only a failing call
  loses them; and past the body, a call has failed if and only if the function
  does not work on that argument or memory ran out.  The last part is what the
  reply of the abstract call needs: that the tag in the reply is a matter of the
  function and its argument, although it is computed from settings that earlier
  calls on the thread have left (`CallsStartClean` closes that gap).

`NormalizeProofs`, for every query whose tokens lie in the text without
overlap, every `Slack` and `Width` with `Width(n) <= Slack + 1`:

- `TypeCorrect`.
- `BufferLargeEnough`: as long as the placeholders written are numbers from 1
  to INT_MAX (`WrittenAsNumbers`), the buffer is never overrun (`WithinBuffer`).  `BufferInv` says that the bytes
  written are at most the bytes copied from the text plus `Slack` for each
  placeholder, and that placeholders written, sorted and still to be sorted are
  no more than the constants recorded.  The hypothesis is needed: with
  `$2147483647` in the text, `extern - param_id` overflows, and the number
  printed is negative and a character longer, which `normalize_overflow` shows.

- `NewNumbersAreNew`: no new parameter takes a number of the query's own, if the
  walk has no more steps than INT_MAX.  `NumbersInv` says that every number in
  any list, recorded, of the target being walked, of a target of an open SELECT
  or waiting to be matched, is either the query's (positive, at most `extern`)
  or new and not past the counter, and that the counter moves no faster than the
  walk.  The bound on the walk rules out the overflow of `extern - param_id`.
- `WrittenAreNumbers`: every placeholder written is a number from 1 to INT_MAX,
  and `TextFits`: so the buffer of every such query is large enough, without
  the hypothesis of `BufferLargeEnough`.  Such are the queries that are `Flat`
  and `Positive`: their parameters are numbered from 1.  `WrittenInv` follows the numbers from
  the walk through sorting to the text: those recorded are the query's, or lie
  above minus the number of steps.  `NumbersFit` says that the query's own
  numbers and its new ones fit into an int together, is a condition of the
  properties themselves, and cannot be left out (`$2147483647`); `Flat`, as below, is needed because only then the counter is
  known never to fall below 1.
- `NumbersAreDense`: at every moment the new numbers in use are 1, 2, .. up to
  the last one, for every query that is `Flat`: its targets and GROUP BY items
  hold no sub-select.  `DenseNumbering` is not inductive, because inside an item
  the numbers may be given back later.  `DenseInv` says where the walk can
  return to: the constants before the item have exactly the numbers below some
  `base`, those of the item have the numbers from `base` on in their order, and
  no target holds a number that can be given back.  A third of the queries of
  `normalize` are flat.

`NormalizeReplacing`, on the same assumptions:

- `ConstantsAreReplaced`: each constant is replaced once, with its whole text,
  for every query that is `Located`: its constants are tokens, and one that
  starts with a minus is followed by a token that is no constant of its own.
  That holds of all the queries of `normalize`.  The invariant has four parts: the constants recorded
  are those of the walk so far (`LocationsInv`), what is sorted or written is
  right and in the order of the text (`ReplacedInv`), nothing is passed over
  between phases (`PhasesInv`), and the lexer stands at the end of the constant
  it met last (`LexedInv`), without which the next token it returns need not be
  the next constant.

`NormalizeGrouping`, on the same assumptions:

- `GroupByKeepsTargets`: a GROUP BY item that repeats a target is written with
  the target's numbers, for every query that is `Located` and `Tidy`: its targets
  and items hold constants only, each at a place in the text that nothing else
  in the walk has, and no target of a SELECT comes after an item of it.  A fifth
  of the queries of `normalize` are tidy, and in more than half of these an item
  repeats a target.  That items of one fingerprint have equally many constants
  is a condition of the property itself (`PlainItems`).  The property compares
  what was written for two items that the walk met far apart, and so needs to be
  told what the list of each open SELECT holds: `ListsInv` says that it holds, in
  their order, the targets whose rank among the targets with their fingerprint
  is more than the number of items with that fingerprint so far, with their
  numbers.  Hence the n-th item with a fingerprint takes the n-th target with it.
  `ItemsInv` follows the numbers of the target or item that is open, `Single`
  says that a constant of an item is recorded once, so that its number is the
  one that is sorted and written, and `Agreed` that items that are closed have
  the numbers of their targets.

`TruncatorProofs`, for every statement and limit:

- `PathsStayValid`: no path leads into a part that is replaced already.  The
  invariant is that what is still to be tried is never deeper than what is
  replaced; a path inside another is longer.
- `InnermostGoesFirst`: a part is replaced only when replacing every candidate
  nested deeper does not make the text fit.  The invariant, `OrderInv`, needs
  that between two rounds every candidate is either replaced or still to be
  tried, so that none is skipped.
- `TypeCorrect`: among the rest, that a length is never negative.
- `TextIsWithinTheLimit`: the text is never longer than the limit, whatever the
  limit.  A text that is cut has `HardLength`, which needs no induction; for
  the others it is what `Fits` has said just before.
- `GreedyLosesNothing`: if no replacement is longer than what it stands for, no
  choice of parts is better than the one made.  When the text is cut, all the
  candidates are replaced, so what is left to prove is about lengths only: no
  set of parts gives a shorter text than all the candidates do.  A part that is
  no candidate is, with all that is inside it, shorter than an ellipsis, so
  whoever gave up such a part can take the innermost of them out of the choice
  and is no worse off (`OneLess`); among candidates, more is shorter
  (`AllIsShortest`).

`TruncatorProofs` sums lengths, and `Total` is a recursive function over the
positions of a sequence.  What it computes is proved from the principle that a
set of numbers that is not empty has a least member (`LeastNumber`, from
`WFMin`), which unlike the library's induction theorems takes no operator as
its parameter.

`AstWalkProofs`, for any tree, scope and caller:

- `WalkInvariant`, and from it `WalkTypeCorrect`, `WalkVisitsOnce`,
  `WalkIsBreadthFirst` and `WalkInheritsScope`.  The inductive invariant says
  where each entry of the queue comes from (`Origins`: it is a child of the root
  or of an entry already out of the queue, with just the path and scope of that
  child) and that the queue is at most one level ahead of what comes out next
  (`OneLevelAhead`).  `VisitedOnce` alone is not inductive: that a new path is
  new needs that its parent has left the queue only now, and for that, that two
  entries with one parent are children of it under different segments.

`FingerprintProofs`, for any parse tree, depth limit and order of hashes:

- `FingerprintInvariant` and from it `TokensAreHashed`.
  `TokensSpellFingerprint` speaks of the context at work only; the invariant
  carries it through the stack: a `close` entry's hash is what was before it
  and one name, a waiting context has printed exactly what it hashed, and at
  most one context, at work or waiting, prints.
- `TypeCorrect`.  Not a matter of types only: when the stack is empty, the
  context at work must be the one that prints.  `FirstPrints` says that of the
  contexts that wait exactly the lowest prints, and that one prints itself if
  none waits.
- `WorkStaysLinear`: a node is looked at once, and once more for each list around
  it whose items were sorted.  The bound counts the lists on a path, which no
  step sees; `CountInv` is what a step sees, a comparison of a node with the one
  above it: what it was looked at, and one if it is still to come, and one if
  its list is still to be sorted, is no more than the node above was looked at,
  and one if that has hashes.  A list is in the tables from its first visit on,
  and comes out of the cache on each later one (`HashesInv`); that it is not
  met anew while it is being hashed, that no two entries of the stack lead to
  one node, and that an item is hashed once, need that the entries of the stack
  are nested by their paths (`CallsNest`).  `SortedPositions` may not repeat a
  position, which is proved of `InTurn` and of every outcome of the sort.
  The bound follows along the path from the root (`WorkOnAPath`).

`AnalysisProofs`, for any trees with the shape that the grammar gives them, and
`IsAnalysis` as hypothesis where the collectors or the scope matter.  It says
what the configurations substitute for the parameters of `AstWalk`, and so
restricts nothing.

- `PathsAreGood`: `AST.update` finds the node that a visit shows by the path
  that it shows with it, unless the path goes through an `A_Const`.
  `PathsLeadBack` is inductive with the invariant of the walk.  `UpdateReaches`
  is a recursive function over the path, and what one segment more does to it
  is proved from `LeastNumber`, as in `TruncatorProofs`.
- `TypesAreInOrder`: the types of the statements are reported in their order and
  each once.  `TypesInv` says that after its first step the walk has just the
  statements before it (`StatementsQueued`), that there are no others in the
  queue and will be none, since only the list below the root holds any, and that
  the result holds the types of those that are visited.
- `CtesAreListed`: every CTE whose body is a SELECT is listed.  `CtesInv` says
  that the scope of every entry holds the names of all CTEs that are due at it
  (`Due`: those below a WITH clause, its list, a wrapper and the CTE), that the
  scope of whatever has been visited is in the result, and that the children of
  what was visited are in the queue (`Followed`).  A name reaches the scope at
  the statement and the result only at the SELECT in the body of the CTE, up to
  six nodes further down, and the invariant has to say that nothing on the way
  loses it.
- `ParametersAreOnce`: each placeholder has one reference, whether it is the
  argument of a cast or not, in every tree where no placeholder ends where
  another one does (`ParametersApart`; one without a location counts for all the
  places a reference to it could go to).  That holds of every text, and of all
  the trees of `analysis`, where placeholders without a location are among
  them.  `ParamsInv` says that the references are those of the entries visited.
  The argument is about paths: the collector of a `ParamRef` looks at the end of
  its path and that of a `TypeCast` at its child, and that they agree needs that
  each entry comes from the node above it (`Origins`), that what was visited was
  followed, and that no two entries have one path.
- `TablesAreFound` and `CtesAreNotTables`: the walk and `SqlScoping` agree on
  what is a table, but for names that are spelled like a CTE in sight once their
  schema is joined to them, which `TablesFound` excuses.  `TablesInv` is about the walk alone: the tables are those of
  the range variables visited that were not taken for CTEs, and what DROP names.
  That the scope of a visit says the same as the place of its node in the
  statement is proved of the end of the walk, where every node has an entry
  (`Settled`), by going down the nesting: `Stands` says that a node has an entry
  whose scope agrees with a place, `PartStands`, `BodyStands` and
  `InsideStepStands` that what is below it then has one too.  What `Agrees`
  means differs inside the bodies of CTEs and outside.  Outside, the CTE names of
  the scope are just those in sight and `current_cte` is not set; inside, the
  names may be more, and what is needed is only that the CTE whose body it is
  counts as in sight where the clause is RECURSIVE.  `UsesStand` is the induction,
  on the height of a node; that the recursive definition of `Uses` defines
  anything (its places are not finitely many, the sets of names being any sets)
  is `UsesAre`, which takes the least of the functions that are closed under it
  (`UnionExists`).  `CtesAreNotTables` supposes that range variables have places
  of their own in the text (`TablesApart`), because its property tells tables by
  their place.  A parse makes them so, and it holds of all the trees of
  `analysis`.

The proofs rest on the named assumptions of the modules (`ThreadAssumption`,
`NormalizeAssumption`, `QueriesAssumption`, `StatementsAssumption`,
`LimitsAssumption`, `HiddenAssumption`, `ChildrenAssumption`,
`RootsAssumption`, `GrammarAssumption`, `WithAssumption`, `CastsAssumption`,
`NamesAssumption`, `NumbersAssumption`, `HeightAssumption`, `NodesAssumption`), which TLC evaluates for the instances
it checks.  Of `FingerprintProofs` only `WorkStaysLinear` needs one:
`NodesAssumption` says that what is in a list or in a field that is no text is
a node, and that a struct is of a kind that has a function.

## What is only model-checked

- Liveness (`CallsReturn`, `WalkEnds`): outside the reach of TLAPS.
- `DenseNumbering` when targets or items hold sub-selects: with those, what an
  item gives back includes numbers of targets that were walked inside it, and
  the argument needs that items with equal fingerprints nest alike.
  `PlaceholdersAreNumbers` for those queries, for the same reason.
- `PlainGroupByKeepsItsTarget` for queries that are not `Tidy`.
- `AliasesResolve`.  It finds the filter columns of a reference by the name of
  the column, and so is true where no two references in a script have one, which
  the statements of `analysis` see to.  For any tree it would have to be said of
  each visit, and of a scope in which an alias of an outer level is replaced by
  one of an inner level, or is not, depending on `in_subquery`.
- `SimilarQueriesMatch`, `PlainQueriesDiffer`: two walks compared.

## What else reading the code showed

The following is so in the code and in the models, and no property asks for the
contrary.

Out of memory: `palloc` failing in `pg_query_enter_memory_context`, in
`CopyErrorData` inside `PG_CATCH`, or in `pg_query_nodes_to_protobuf` after
`PG_END_TRY` raises an error with no handler installed, which `elog.c` makes
FATAL: the whole VM exits.

Analysis: `WITH t AS (...) INSERT INTO t` and `DELETE FROM t` do not report the
target, and `WITH t AS (...) SELECT ... INTO t` does not report the new table
(the excuse in `TablesFound`).  The same excuse is for a table whose schema and
name are together spelled like a CTE: in
`WITH "s.t" AS (SELECT 1) SELECT * FROM s.t` the table `s.t` is taken for the
CTE and not reported, although a name with a schema never means a CTE.  DELETE
collects no aliases and inherits those around it.  An item of a FROM clause
without an alias is shadowed by an alias of an outer level.  Of two items with
one alias in a FROM clause, which PostgreSQL refuses after parsing, the last is
kept.  A derived table or a CTE inside a sub-link takes the aliases beside it
for visible ones (`beside` in `SqlScoping`).  FOR UPDATE OF inside a derived
table reports the alias as a table.  The alias of a table with a schema is
dropped if its relation is named like a CTE.  `t.*` in a condition is reported
as a column `t`.  ON CONFLICT ...  WHERE is no condition.  Below an `A_Const`
the walk emits paths that `update` cannot follow.

Normalization: `x IN (1)` and `x IN (1, 2)` have one fingerprint, because
`_fingerprintList` leaves out what repeats.  A GROUP BY item is matched by its
fingerprint alone, and takes the numbers of the first target that has it: in
`SELECT x IN (1, 2), x IN (1) ... GROUP BY x IN (1)` it gets numbers of the
wrong target.  `PlainItems` leaves such queries out, as it does those of
`normalize_mixed`.  A target that holds a sub-select, in which `param_refs` is
reset, is renumbered in its GROUP BY item too; `normalize_mixed` shows the case
of `$n` only.

Two guesses of the normalization go wrong on texts that are not among the
queries; both were run with the C library.  The place of a CONNECTION string is
the first one where its content occurs:
`CREATE SUBSCRIPTION foo CONNECTION 'foo' PUBLICATION p` becomes
`CREATE SUBSCRIPTION$1 CONNECTION 'foo' PUBLICATION p`.  That of an option's
value is the first quote after the start of the option: `OPTIONS ("it's" 'x')`
becomes `OPTIONS ("it$1)`.

Fingerprint: texts are hashed with nothing between them, so that `SELECT a.b`
and `SELECT "aStringstrb"` have one fingerprint (`1d5c57e97c1e2ca0`); that is
so in the model, and `PlainQueriesDiffer` is about texts that hold no names of
nodes or fields.  The arguments of a function and the branches of a CASE are
sorted, so `f(a, b)` matches `f(b, a)`.  The integer 0 hashes to nothing:
`a::int[0]` matches `a::int`.  Structs that generated functions call directly
are not cut off at depth 100.

## What is not modelled, and why

- Blocks and chunks inside a memory context: a call frees its context whole.
- Which nodes the walk of the normalization meets: hundreds of cases, most of
  them generated.  `Normalize` takes the order of what matters from the input.
- The generated functions of the fingerprint for other kinds of node (some two
  hundred): they are made of the same forms of fields, a text, a node or a
  struct, that the modelled ones have.
- What the scanner-based and parser-based splitters do, and `pg_query_exit`: no
  NIF calls them.
- The C stack: `check_stack_depth` compares with a base that is never set, so
  very deep trees are not refused.
- In the truncator: a SELECT with an empty target list and a replaced WHERE,
  which `fix_output` takes for a replaced CTE; a measurement that fails for
  a part of a statement that deparses; and a deparse that fails for the tree
  with a part replaced only, an `{:error, _}` of `query_length` on which
  `reduce_while` would raise, as on one of `AST.put`.
- Grammar, lexer tables, deparser, generated protobuf code, PL/pgSQL, JSON
  output, summaries, build.

## Plan

1. Theorems: `AliasesResolve`, stated of each visit, by the descent that proves
   `TablesAreFound`; `DenseNumbering` with nested sub-selects.
2. `NormalizeWalk`: the recursion of `const_record_walker` itself over small
   trees, with `PG_TRY` in its default case, composed with `PgThread`'s body.
