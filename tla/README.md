# Verification of doot

TLA+ models of the `doot` compiler front end (C99, `src/src/`), checked with TLC and, in part, proved with
TLAPS. Paths are relative to the repository, file names without a path are under `src/src/`.

At this commit doot is a sequential program with three commands: `doot fmt` (walk, lex, parse, print, replace
files), `doot codes` and `doot explain`. The virtual machine, the server and the standard library exist in
`src/docs/` only. What is hard in it is not threads but shared and bounded state: a lexer whose scanning mode
and lookahead depend on each other and on the parser, an allocator whose chunks are reused, an error sink that
fills up, and files that are replaced while anything may fail and other processes run; and a printer that must give back, from a tree without them, the
parentheses, blanks and comments of a text.

## Inventory

| component | state | operations | who calls it | hard behaviour |
|---|---|---|---|---|
| `base/arena.c` | chunks in use, spare chunks, budget, next capacity | alloc, extend, reset, save, rollback, set_limit, destroy | everything | reuse of spare chunks, growth in place, `size_t` wrap, failing malloc |
| `base/buf.c` | bytes in an arena block, sticky `failed` | append, reserve, printf | fs, source, printer, rendering | growth through `arena_extend`, overflow |
| `base/diag.c` | list of diagnostics, error count, limit, `truncated` | report, label, fix, counts, render | every phase; shared by all files of a run | the limit: what is dropped is not counted |
| `base/source.c` | text, line index | from_file, from_memory, line_col, line | cli, diag, lexer | UTF-8 edges, binary search |
| `base/fs.c` | none of its own; the disk | is_dir, read_dir, write_file | cli | interruption, failing calls, a second process, readdir order |
| `lex/` | cursor, frame stack (4 modes), `stash`, `peeked`, `prev`, comments | next, peek, open_markup, close_element | parser | newline rule against lookahead, closers across modes, depth bound |
| `parse/parse.c` | current token, depth, flags, the tree | parse_unit and one function per construct | cli | recovery must make progress, depth bound, agreement with the lexer's mode |
| `parse/print.c` | output buffer, comment cursor | fmt_unit | cli | parentheses, placing of comments, idempotence |
| `cli/main.c` | three buckets, the sink | fmt, codes, explain | user | many files, one sink, one exit status |
| tests, fuzzers | - | - | - | what they assert is used as the statement of several properties |

What makes each correct: the arena hands out blocks that do not overlap and keeps its budget; the sink never
lets an error pass for success; a file is replaced as a whole or not at all; the lexer loses no byte, closes
what is open, reports what is not closed and comes to an end; a source loads whole or not at all, and a position in it is
the one a reader counts; what the printer writes means what was read, and is left alone by the next run; the run's exit
status and counts say what is on the disk. The hazards list of `PROJECT.json` has the lines where each can go wrong.

## Modules

| module | models | how |
|---|---|---|
| `AtomicReplace` | what `fs.h:55-63` promises of `fs_write_file` | two variables: what a reader sees, how each call ended |
| `FsWrite` | `fs_write_file` (`fs.c:116-166`) over a small filesystem | two names bound to inodes, texts as blocks; one action per system call and per failure; `Kill`, `CallAgain` |
| `DiagSink` | the sink (`diag.c:70-127,177-185`) | operators on a record; used by `FmtRun` |
| `FmtRun` | `doot fmt` (`cli/main.c:80-234`, `fs.c:36-98`) | the recursion of `fmt_path` as a stack of loops, the steps of `fmt_file` as actions; a text is canonical, messy, an author's broken one or one that `fmt` wrote and that does not parse, and what is printed for a messy one may be any but the author's broken |
| `Buf` | `buf.c` over `Arena` | the buffer's block is one of the arena's, the arena's other clients act between any two of its calls |
| `Source` | `source.c`, and the columns of `diag.c:217-279` | a step per `fread`, per character validated, per byte indexed and per halving of the search; bytes are numbers |
| `Arena` | `arena.c` and a client within its contract | the struct as a record, each function an operator to its outcomes, each public call an action |
| `Lexer` | `lex.c`, `token.c:158-290`, and the parser as far as the lexer can tell | the struct as a record, each scan function an operator to token and lexer; `NextToken`, `Peek`, `OpenMarkup`, `CloseElement` |
| `TokenStream` | what the parser relies on of the lexer | which kind of token may come after which, given what is open; no characters and no lookahead |
| `Parser` | the control of `parse.c`: every function of the grammar, recovery, the depth counter, the flags | the C stack as a sequence of what is left to do, each function and each loop an action |
| `Expr` | precedence and parentheses: `print.c:441-869` and `parse.c:685-1262` | a table of forms to print by, a recursive operator for each function of the parser |
| `Markup` | layout of markup: `print.c:899-1144` and `parse.c:1297-1481` | a literal as a sequence of tokens of width one |
| `Comments` | the comment cursor and blank lines: `print.c:81-225,1170-1304,1345-1370,1442-1528` | a file as a sequence of items, line ends and comments |
| `Printer` | `main.c:107-124` twice over one text of any of the three kinds | parse, print, parse, print |
| `MC*` | - | values of the constants for TLC |
| `FsWriteProofs`, `FmtRunProofs`, `SourceProofs`, `ArenaProofs`, `BufProofs`, `LexerProofs`, `ParserProofs` | - | theorems, each with the lemmas about the operators of its model |
| `NestProofs` | - | the theorems about what the parser and the lexer are inside of, over `ParserProofs` |

How they compose: `Buf` extends `Arena`, and `Printer` extends `Expr`, `Markup` and `Comments`. `FmtRun` extends `DiagSink`, and its writing step is `AtomicReplace`'s two outcomes, which
`FsWrite` implements (`ReplaceIsAtomic`). `TokenStream` stands between the two halves of the front end: `Lexer` is shown
to implement it (`TokensConform`, over characters, proved up to the depth bound), and `Parser` takes any stream it allows, so that the parser is
checked against every order of tokens the lexer can produce and no other. Definitions keep the names of the C functions where one function is
one definition. Definitions marked `Fault` are not part of the model: they are slips of the code that each
property is shown to notice.

What the state stands for:

* `FsWrite`: `target` and `tmp` are directory entries; `data` what the inodes hold; `pc[w]` the next system call of
  writer `w`; `fd[w]`, `off[w]` its stream. A short `fwrite` leaves the stream open, as the `||` of `fs.c:149` does.
* `FmtRun`: `frames` is the C stack of `fmt_path`, the first frame the loop over `argv`; `before` is `errors_before`;
  `visits` stands for the three counters, with which path each count came from; `started` is a history variable.
  A text that does not parse makes between one and `MaxFaults` calls of `diag_report`. What `fmt_unit` writes is a free choice
  (`Formatted`): findings 4 and 5 show that it need not be canonical, nor even parse.
* `Arena`: an address is a chunk and an offset; `base` is where malloc put the chunk, modulo the alignments; `MallocCan` has
  the two facts about malloc the code rests on: no object is larger than `PTRDIFF_MAX`, and all lie apart in one address space. The
  client's `live` blocks and `marks` are what the header's contract lets it rely on. A fatal arena ends the model.
* `Buf`: `b` is the struct, with its block for `data` and `cap`. `kept` says how many bytes at the front of the block are
  the ones appended (a copy cannot bring more than the old block held), `sent` how many the caller was told are in it.
* `Source`: `text` is the buffer while the file is read and `s->text` after; `i` the cursor of the loop that runs;
  `lo`, `hi` the interval of the search; `at` the span that is looked up, which may be stale and lie past the end.
* `Printer`: `texts` and `trees` hold what was read and printed so far, `kind` which of the three parts is looked at. The
  text of an author has parentheses around every operand, every blank of a literal in a text node, comments in any gap.
* `Lexer`: one position per character; characters are classes. `tok` is the parser's current token, `open` a history
  of what the tokens taken have left open (a count of its own, not the lexer's stack), `taken` how many were taken.
  A `peek` may come at any time; the parser's own decision whether a `<` opens an element is free.
* `Parser`: `todo` is the C stack. A token kind in it stands for `expect()` of that kind; a lower-case name for a
  function of `parse.c`, less its `parse_`, or for the rest of one after a call: `stmt_end` is `expect_stmt_end`, `leave`
  the `depth_leave` of a function that was entered, `progress` the `ensure_progress` at the end of a loop whose local
  `before` is on the sequence `before`. A return by an early path drops what the function had left. `cx` holds the parser's
  own fields (`depth`, `loop_depth`, `in_method`, `in_stream`, `no_struct`, `depth_reported`); `said` is
  `last_error_at` being the current position, by which `unexpected` reports once; `reported` and `prev` are history.
  `src` is what the source may still bring: some given tokens, then up to `left` free ones of the kinds `kinds`; a token
  comes only where `TokenStream` lets it. (A source that gives a token the lexer could not deliver would stop before it; those of
  `MCParser` never do.)

## Runs

| run | expects | what it shows | bounds, and why they are enough |
|---|---|---|---|
| `fs_write` | pass | `ReplaceIsAtomic`, `EveryCallEnds`, `TypeOK` | one writer, texts of 2 and 3 blocks, 3 inodes, 3 later calls: a kill before, between and after blocks, over a temporary left by an earlier one that was longer, shorter or empty |
| `fs_two_writers` | violation of `IntactAtRest` | finding 2 | two writers, no retries |
| `fmt_run` | pass | `ExitTellsTheTree`: status 0 means that every file that was named was visited, and that each was canonical and left alone, or parsed, was not canonical and was rewritten; status 1 that something failed. It does not say that what was written is canonical. `ReportIsTrue`: what is not on the disk as the run found it is counted as changed, no canonical file is skipped, each count in the order of the names; the full sink; termination | eight paths with a nested and a dotted directory, a file named twice (in a directory and as an argument without `.do`), sink of 3, up to 2 faults per file, two runs: the sink fills between, inside and after files. The tree has no cycles: a link to a directory above it is not covered |
| `fmt_sink_full` | violation of `BrokenLeftAlone` | finding 1 | as `fmt_run` |
| `arena` | pass | blocks apart and aligned, accounting, marks, budget, refusal; `BufferHolds`, `FailureIsRemembered` for the buffer among the other clients | two chunks of 4 doubling to 8, 6-bit sizes with 57 (whose chunk and header make the sum of the budget wrap), 59 (refused before the sum), 62 and 63 at the edge of `SIZE_MAX`, blocks aligned beyond malloc's guarantee, two live blocks, two marks; a buffer of 2 bytes that gets 2 or 62 at a time, so that it grows in place, moves, and is refused |
| `lexer` | pass | nothing lost, line structure (but for the `}` of interpolations and directives), what is cut or not closed is reported at its opening, bounded calls; `TokensConform`: the lexer keeps to `TokenStream`, closers included | all sources of up to 5 characters over the classes each part of the scanner tells apart, after a prefix that leads there (43,739 sources), a stack of 4 levels |
| `parser` | pass | depth and flags given back between declarations, recovery announced, statements and declarations apart, what is accepted is closed, parser and lexer inside the same things, an end unless the parse stays at the depth bound | thirty parts of the grammar: a prefix that leads there, then all streams of up to 4 to 8 tokens of the kinds it tells apart, the end of the source anywhere; a bound of 3, so that every counted function is both entered and refused |
| `parser_end` | violation of `EveryParseEnds` | finding 3 | as `parser` |
| `source` | pass | what loads is the whole file, valid and within the limit; what is refused is refused for its fault, at its byte; the lines make up the text; positions; carets; every load and every lookup ends | every lead byte at the edges of its class followed by every continuation at the edges of its own, cut off or not, 648 texts of up to four words with tabs, two-byte characters, `\n` and `\r\n`, texts one below, at and above the limit of 7, chunks of 2; every span, up to one past the end |
| `printer` | pass | `ExactParentheses`, `PageKeptWhenSpaced`, `CommentsStay`, `SettledAtOnce` | all trees of up to 3 nodes over 28 kinds of expression and of up to 5 over the ten that disturb each other most, as a value and as a condition; literals of up to three children out of 7 texts and 12 elements; about 7,300 files with a comment, a line end or two in every gap around the items of each kind of list |
| `printer_meaning` | violation of `MeaningKept` | finding 4 | comparisons of comparisons |
| `printer_page` | violation of `KeptOrSettled` | finding 5: one literal for which neither the page is kept nor the second run changes nothing | a text and two elements on lines of their own |

`fs_write` and `fmt_run` do not check deadlock, because a call and a run end; the arena does not, because a fatal
arena ends the process; the parser does not, because a parse ends. `source` does not, because a load may be refused. The lexer
is checked for deadlock, a token can always be asked for; and so is the printer, whose end is an explicit step.

The bounds of `parser` matter in one place: a construct that needs more free tokens than a source of its part has is not
seen closed. The prefixes are chosen so that each construct closes and goes wrong within the rest; every disjunct of
`Next` is taken. The source is finite, as a file is, and the end of it stays the current token for ever.

The liveness properties assume weak fairness of the process's own steps (`WF_vars(Step)`): a sequential program that
is not killed takes its next step, and no call it makes blocks for ever. No fairness is given to `Kill`, to retries or
to the choice between a call's success and its failure. `Parser` assumes `WF_vars(Next)`: the parser is the only
process there is, and a call that runs takes its next step; which token comes next is free. `Source` assumes it of the steps of a load and of
a search, not of the caller's next lookup. That the lexer's stream
ends is stated without fairness, as a bound on the number of tokens before the end (`CallsBounded`), two for each character
and one more, which is what `lex.h:14-17` promises; the reason it gives, that "every call consumes at least one byte", is not quite
so: the end of a string that is cut has none.

### Findings

1. `fmt_sink_full`: the check of `cli/main.c:108` compares error counts, and a full sink does not count
   (`diag.c:84-87`). After 100 errors in one run, files that do not parse are rewritten from a tree with holes, against
   `cli/main.c:109` and `src/docs/10-frontend.md`, "A file that does not parse is not formatted". The passing run has the
   exact condition, `BrokenRewrittenOnlyWhenFull`, and it is proved. The exit status is 1 in that case.
2. `fs_two_writers`: two `doot fmt` over the same file share `<path>.dootfmt`; one truncates the inode that the other
   renames, and if it then dies the target is left cut, against `fs.h:57-58`. With one writer at a time the promise
   holds (`ReplaceIsAtomic`, proved).
3. `parser_end`: at the depth bound the loops over match arms and over markup content go round on the same token
   (`parse.c:1798`, `1457-1462`), allocating at each round, against `parse.c:203`, "Recovery must always move the cursor".
   `EndsOrStaysAtBound` in the passing run says that this is the only way a parse does not end.
4. `printer_meaning`: the left operand of a comparison gets no parentheses when it is one itself (`print.c:771`), so that
   `(a == b) == c` is printed as a text the parser refuses. `Slips` in `Printer` names every kind of tree that is read
   differently when printed, and `ExactParentheses` says there are no others in the instance: a signed number with a
   postfix operator (`(-1)!`), the negation of a number with one (`-(1!)`), a fallback that begins with `{` or with a
   name and `{`, the call of an index (`(a[i])()`), and in a condition a struct literal, whose parentheses are not
   printed, or `else` and a name before the block.
5. `printer_page`: two promises, neither of which is kept for the literal of the run. In a list on several lines every
   child that is no text begins a line, also where there was no blank before it (`print.c:1074`), which adds blanks to the
   page, against `src/docs/06-tooling.md:155`. And a blank between two elements stays at the end of the line that ends there
   (`print.c:1068-1070`) and is gone after the second run, against `print.h:18-19`, "printing a formatted file must produce
   the same bytes". `KeptOrSettled` is weaker than each of them. `PageKeptWhenSpaced` has the condition under which a page is
   kept, and `SettledAtOnce` names the files outside of which a second run changes nothing: the slips of finding 4, comments
   the printer moves or crowds (below), and markup that is not on lines of its own throughout.

### Departures without a run

Read in the code while it was modelled, and of a kind that a run would only restate:

* `parse.c:1039`: `not`, unary minus, `else`, `else if`, nested groups and directives recurse without `depth_enter`; the C stack is
  bounded by the length of the source only, against `parse.h:29-32`.
* `parse.c:1814`: the `NEWLINE` that ends a match arm in `src/docs/03-grammar.md:192` is optional.
* `parse.c:702`: `no_struct` stays set in the block of a lambda that stands in a condition, so that a struct literal is refused
  there, against `parse.c:36-37`: "except where a block can follow". No property of `Parser` looks at it.
* `parse.c:2259-2274`: the loop over the routes of a group asks for no line end between two of them, against
  `src/docs/03-grammar.md:131`. `SeparateStatements` is about statements and the declarations of a unit.
* `lex.c:820`: a line end before the `}` that closes an interpolation or a directive is a token, and refused by the parser, although
  `src/docs/03-grammar.md:19-23` lists `}` among the follow tokens. `LineStructure` leaves that `}` out.
* `print.c:196`: when the first comment of a list is printed, `last_end` is the end of the item before the list, so that a line
  end before and one after the `{` count as a blank line. `fn b() { // c` after another declaration gets that blank line at the
  second pass only, against `print.h:18`. `Crowded` in `Printer` is this case, and `SettledAtOnce` holds outside it.
* Comments at the end of a list, in an empty one, in a match arm, in the arguments of a call and before `else` move to the next
  item or past the list; `Attached` says which comments stay. A file of nothing but comments begins with an empty line.
* `print.c:1013`: elements below `<pre>` are laid out as anywhere else, against `print.c:876-877`, "emitted verbatim".
* `print.c:985`: a tag that begins its line is measured without its indent, against `print.c:984`.
* `buf.c:29`: a buffer with exactly one free byte grows in `buf_cstr`. `append_repeat` of `SIZE_MAX` bytes would wrap
  `len + n + 1`; `BufAssumption` excludes it, as no caller repeats more than a line.
* `diag.c:224`: the columns of a tab are counted in bytes in the line and in characters below it, so that a caret leaves its
  column when a tab follows a character of several bytes. `CaretsLineUp` holds outside that case.

## Proofs

`tlapm` on the eight modules of theorems checks everything below, for every value of the constants allowed by the named
assumptions: `TextAssumption`, `InodeAssumption`, `BoundAssumption`; `TreeAssumption`, `FmtBoundsAssumption`,
`DiagLimitAssumption`; `SourceAssumption`; `ArenaAssumption`, `BufAssumption`; `LexerAssumption`; `ParserAssumption`. TLC evaluates them in the runs.
`NumberingAssumption` is for the order of the reports only: files and directories are numbered in the order of a sorted walk, which
any tree (without cycles) can be.

* `FsWriteProofs!TypeCorrect`: any number of writers.
* `FsWriteProofs!WriteImplementsReplace`: `Spec => ReplaceIsAtomic` under `OneWriter` (at most one process in the
  function for a path; the violation run shows the hypothesis is needed). The inductive invariant `IInv` is needed
  because atomicity rests on what the temporary holds: while a writer is between `fopen` and `fclose`, its stream
  and the temporary are one inode, which is not the target, and hold exactly the prefix of the new text written so
  far; before `rename` they hold all of it. Each action of `FsWrite` then maps to `Replace` (a successful `Rename`),
  `GiveUp`, `TryAgain` or a stutter.
* `FsWriteProofs!OriginalStaysIntact`: the same as a state invariant.
* `FmtRunProofs!TypeCorrect`: with `LoopInv` (the loop over `argv` is always at the bottom of the stack, and only gets
  shorter), for every tree, including ones with cycles.
* `FmtRunProofs!RewriteNeedsFullSink`: with `FileInv`: between the reading of a file and the decision about it the disk
  still holds what was read, and every diagnostic it has drawn moved the error count or was dropped by a full sink.
* `FmtRunProofs!ExitIsTrue`: `ExitInv` ties the sink to the files: a failed visit has left an error, an error outside a file
  comes from a failed visit, and as long as none has failed each path that is to be formatted is either still ahead, on
  one of the loops of the stack, or was visited; `FateInv`, below, says what that visit did. That a sink which drops errors
  is never an empty one (`DiagLimit > 0`) is
  what makes the status right although dropped errors are not counted.
* `FmtRunProofs!ReportStaysTrue`: `FateInv` (how the visits of a path ended tells what was done to it: nothing is written but
  by a visit counted as changed, and of a text that had parsed as long as the sink had room)
  and `OrderInv` (what was visited for an argument comes before what is left of it, an inner loop before the outer ones).
* `SourceProofs!LinesAreRight`: no assertion of `build_line_index` fails, and the lines cut every text at its newlines. The
  invariant is `Lines(line_starts, k)`: after `k` bytes, the index has one entry more than there are newlines that begin a
  line among them, each entry is behind such a newline, and there is none between two entries. That a new entry has room
  in what was counted follows from the count over the whole text being at least the one over `k + 1` bytes.
* `SourceProofs!PositionsAreRight`: `source_line_col` agrees with a count from the beginning of the text. The property
  says nothing while the search runs, so the invariant adds `Interval`: line `lo` begins at or before the offset, and the
  line after `hi` behind it. (That the middle is rounded up is what makes the search end,
  `EveryCallReturns`.) Where the two ends meet, `LineIsTheLast` makes the newlines before the offset those before the line.
* `SourceProofs!LoadIsWholeAndValid` and `RefusalIsRight`: the table of lead and continuation bytes in `Source` against that of
  the Unicode standard, for every file and chunk size. `WellFormed` asks for a cut of the whole text into characters;
  `Reach` says how far the cut from an offset comes, and the invariant `LoadInv` that it comes as far from the cursor of
  `utf8_validate` as from the beginning. That there is one such function, and that a character is cut in one way only, are
  lemmas of the module.
* `SourceProofs!CaretsAreRight`: for every text, tab width and span. Three recursive functions over a line are compared: the
  column by characters (`display_col`), the one by bytes (the padding of `write_expanded`), and the cells. That each of them
  exists is `RunExists`, for any function that takes a step of its own at each place; `UpTo` is the induction, over a set and not
  over a formula, so that the provers can use it. As long as no character of several bytes was seen, bytes and characters
  count alike (`BytesAreCharacters`), so that each tab is padded to the same column on both sides. The first caret of a
  span that lies in the line ending, and that of a stale span, need the line itself to be well defined (`LineIsShown`).
* `ArenaProofs!ArenaIsTyped`, `BlocksStayApart`, `ChunksStayCounted`, `PositionsHold`: one invariant, `World`. Of the chunks
  (`Good`): the two lists have no chunk twice and none in common, each has a base, a capacity and no more used than that, and
  `reserved` is their sum, which is below `SIZE_MAX` because malloc gave them all. Of the blocks in use and of the blocks as they
  were at each saved position (`Lasts`): each lies within what is used of a chunk at or below that position, aligned and
  apart from the others. Of any two positions, and of each and the present (`Follows`): the earlier is at or below the later
  and no block of one cuts a block of the other, so that a rollback to either finds what it keeps untouched. The first part
  of the module proves what `arena_alloc`, `arena_extend`, `arena_rollback` and `arena_reset` do to a good arena, wrapping sums included.
* `ArenaProofs!BudgetIsKept`, `RefusalsAreHarmless`: the two action properties, from the same invariant. The budget is
  counted in the bytes that the chunks take: where the sum of `arena_grow` wraps, the chunk is one malloc cannot give.
* `BufProofs!BuffersHold`: with `BufWorld`: a buffer that has a block has it among the blocks in use, with a byte to spare
  above what it was told of; one that has none was not set up or has failed. The doubling of `buf.c:9-20` (`Grown`) never ends
  below what is wanted, which is shown by least counterexample. `ArenaServesBuffers` says that the arena's own
  properties hold with the buffer among its clients.
* `BufProofs!FailureSticks`: a buffer that was refused memory says so until its arena is gone, takes no byte and keeps its
  block, whatever the other clients of the arena do. `BufInv` says that only a buffer that was set up has failed.
* `LexerProofs!LexerIsTyped`, `NothingIsLost`, `LinesAreStructured`, `LexerCallsBounded`: for every source and every bound of the
  stack of modes, with one invariant, `LexInv`. Below it are facts about the text alone (where a run of characters, a comment,
  a nested comment or what begins no token ends, each by least counterexample) and one about each scan function: from a good
  lexer it moves the cursor on, adds to what is recorded, and leaves the stack as it was, with a level more, a level less or
  its innermost level changed (`Direct`). Of a token and what is skipped before it (`Scans`) the gap is accounted for, also where
  the line-structure rule sets the token aside to give an end of line first (`Advances`). The invariant then says what the
  two slots of lookahead hold: `stash` is full exactly behind an end of line, the token in `peeked` is one that comes after
  the current token (`Comes`), and from the end of the current token the gaps join up to the cursor. For the number of calls,
  a character costs two and a string on the stack one, since a string that is cut ends with a token of no characters; what is
  still due is bounded by what is left of the source.
* `LexerProofs!TheUnclosedIsReported`, `TheLexerConforms`: with a second invariant, `LinkInv`, up to the depth bound.
  The stack of modes and the history of what the tokens have left open agree (`Nests`): each level but the first is
  what some entry of the history opened, the entries between it and the next level are the braces counted in its `depth`, and
  nothing else is in the history. The levels run ahead of the history by the tokens in `stash` and `peeked`, so the invariant
  (`Linked`, `Paired`) says of each of them that it fits what is open (`Fits`) and that what is open after it agrees with the
  stack. At the end of the source the stack is given up and the history is not: from there on the invariant says that the
  innermost entry is reported (`Settled`). Each way a scan can move the stack preserves the agreement (`DirectNests`), and so do
  `lex_open_markup` and `lex_close_element`. That a string which ends without a quote has been reported is a fact about each scan (`CutIsSaid`), carried along with the token
  in the two slots. `Fits`, with the lines from `LexInv`, is then `TokenStream`'s `MayCome`, and
  the history without its places is `TokenStream`'s `open`. Past the bound nothing is claimed: `push_frame` drops
  levels there, and says so.
* `ParserProofs!ParserIsTyped` and `CleanBetween`: for every depth bound and every source. The invariant `StackInv` says that the
  stack `todo` tells what the fields are: `depth` is the number of `leave` and `end_element` on it, `loop_depth` that of
  `loop_end`, the number of marks that of `progress`; a flag that is set, and a `no_struct` that waits to be set, has below
  it the word that puts it back; `unit` is at the bottom only. Words that hold nothing of this kind come and go freely,
  so that of each action it is enough to know what it drops and that what it pushes is harmless. Between two
  declarations only `unit` and its loop are left, so that every count is zero and no flag is set. The hard cases are the early
  returns, which drop words of their function, and recovery, which must not drop any that hold something.
* `ParserProofs!RecoveryTells` and `StatementsArePart`: with a second invariant, `HistInv`: something was reported, or
  `SilentInv`. In silence no word of recovery (`Steers`) is on the stack; each loop over statements or declarations either stands behind the
  whole end of the statement before it (`Deep`), or that end is reached (`Near`) and the statements are parted (`Parted`). The
  one way silence could end without a report is `ensure_progress`, which resynchronizes where an item took no token. So the
  invariant also says that the positions on `before` rise, and that where the innermost of them is the current one, what is
  next on the stack is a function that takes a token or reports one (`Promises`): a statement, a declaration with or without
  attributes and `pub`, or an expression down to `parse_primary`. Each action then needs only the words it pushes (`Mild`), and
  whether it leaves that promise to its first word.

* `NestProofs!SilenceMeansClosed` and `SameNestHolds`: for every depth bound and every stream of tokens, with a third invariant,
  `NestInv`: something was reported, or `SilentNest`. In silence the stack `todo` fits what the tokens have left open (`Fits`): the
  words on it that close something (`Closers`: an expected `}`, the end of an interpolation or of a directive, a string, an
  element) are as many as there are things open (`Height`); every word stands in what it asks for (`Suits`: a statement
  in code, an attribute in a tag, content in an element), found by its height; and neighbours go together (`Follows`). The two
  sides do not move at the same time: the current token was already taken by the lexer when the parser decides what
  it is for, so the stack fits what was open *before* the current token (`Over`), and a few words stand one token ahead or behind:
  the `{` that is expected, the end of an element whose tag is already closed, a token that is certain to be taken
  (`Ahead`). At the end of the source, which closes nothing, the parser may leave an element or a string that the
  lexer still has open, and reports for it. For each action there is a lemma that what it pushes makes the stack grow from what
  fits before its token to what fits after it (`Grows`); most actions stay in code and need only that their words are
  words of code (`CodeSteps`). The hard ones are the element, where the lexer enters a tag at the parser's word and the tag is
  left in three ways, the directives with their arms, a peek, after which the next token is fixed before what is open is,
  and a group that turns out to be a path. `HistInv` is needed where recovery would otherwise drop closers in silence.

Only model-checked: liveness under fairness (`EveryCallEnds`, `EveryRunEnds`, `EveryCallReturns`, `EndsOrStaysAtBound`), which is out
of the prover's reach; and `Printer` (`ExactParentheses`, `PageKeptWhenSpaced`, `CommentsStay`, `SettledAtOnce`), whose parsers are
RECURSIVE operators, which no theorem may reach. Every other invariant and action property that a run checks is a theorem.
Recursive functions are within reach where one fact about them is wanted at a time: the least argument at which it fails is
a contradiction (`Grown`, `Reach`, `UpTo`).

## Not modelled

Wording and colours of diagnostics, JSON, usage; option parsing; `lex_text`, numbers, keywords and reserved words (they
neither touch the mode stack nor the lookahead); token names. Of the parser: the trees of types, patterns, statements
and declarations (`ast.c` allocates and appends), the decoding of literals, and reports that depend on the tree or on
the text of a name (duplicates, unknown attributes, the name in a closing tag, the number of indices, what may follow
`pub` or stand in a group); and `TokenStream` has no depth bound of the lexer's own (`LEX_MAX_DEPTH`), which `Lexer` has.
Of the printer: types, patterns, the wording of declarations, escapes and digits, the alignment of fields, the width of
names. `Expr` has one operator a level, no bound on the depth, no field access (it is printed and read as a propagation is) and no `else return`;
`Comments` has no block comments. `fs_is_dir` is
taken as stable during a run. `fsync` is not called by the code and a power failure is not modelled: `Kill` is the
death of the process. The compiler's arena is fatal on exhaustion, so out-of-memory returns inside the front end are the
end of the process, which `Kill` covers.

## Plan

Order of work, most important behaviour first; the first eight are done.

1. `AtomicReplace`, `FsWrite`: replacing a file; refinement proved.
2. `DiagSink`, `FmtRun`: the command; rewriting rule proved.
3. `Arena`: the allocator.
4. `Lexer`: the scanner with its driver.
5. `TokenStream`, `Parser`: the parser's control over every stream of tokens the lexer can deliver.
6. `Expr`, `Markup`, `Comments`, `Printer`: what the printer writes, read again.
7. `Source`: UTF-8 validation against the ranges of the standard, positions against a count.
8. `Buf` over `Arena`: growth and the sticky failure.
9. Proofs, done for `FsWrite`, `FmtRun`, `Source`, `Arena`, `Buf`, `Lexer` and its refinement of `TokenStream`, and `Parser`. What is
   left to prove is the printer, whose parsers would have to be written as recursive functions first.
