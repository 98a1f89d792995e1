# cimi in TLA+

cimi is a small interpreter in C, in an early state: it reads a text, cuts it
into tokens, makes an expression of the first token, prints it, and frees what
it has allocated. This directory holds specifications of it, the runs of TLC
that check them on small texts, and proofs of the theorems that hold for all
texts. Line numbers are those of the sources in `src/`.

## 1. The system

| Part | Files | State | Operations |
|---|---|---|---|
| driver | `main.c` | the source, the file name, the token vector, one lexer, one parser | one run from `as_read_line` or `as_read_file` to the last `as_free` |
| lexer | `lexer.c/.h`, `lexertypes.h` | `cur`, `row`, `bol`, the token being made, `error` | `lx_new`, `lx_tokenize`, `lx_next_token` and its kin, `lx_free` |
| keyword table | `lexer.c:353-427` | the global `kwt`, a hash table | `lx_kwt_setup`, `_add`, `_get`, `_free` |
| parser | `parser.c/.h` | tokens, `cur`, `eof`, the number of errors | `ps_new`, the cursor (`ps_peek`, `ps_consume`, ...), `ps_literal`, `ps_expr`, diagnostics |
| AST nodes | `expr.c/.h`, `stmt.c/.h`, `ast.h`, `astcommon.h` | heap trees | constructors and `_free` functions |
| AST printer | `ast_printer.c/.h` | a writer, a buffer, an indent | one `ap_visit_` function per node |
| string library | `a_string.c/.h` | `len`, `cap`, `data` of each string | some forty functions |
| vector | `a_vector.h` | `len`, `cap`, `data` | macros |
| common macros | `common.h` | none | `panic`, `check_alloc`, `if_let`, `let_else` |

How they interact. `main` calls the others one after the other in one thread.
The lexer reads the source by a borrowed pointer. Each word is copied into a
string, compared with the keyword table, copied again into the token, and
freed. Tokens are copied by value into the vector; the parser borrows the
vector, and builds a string literal in a string of its own, which is copied
once more into the node. `main` frees the node, the strings of the tokens, the
vector, the lexer, the parser (which frees the keyword table again and the file
name), and the source. The keyword table is one global, whatever the number of
lexers.

Two parts are further than the program that uses them. The token cursor and its
diagnostics (`parser.c:54-221`), all nodes but literals, and the visitors that
print them are written and called by nothing yet; they are specified for any
caller, as the next function of the parser will be one.

What is hard. There is no concurrency, no persistence and no network. What a
test hardly reaches is

- *the ends of texts*: a symbol, a comment, a backslash or a quote as the last
  character, and look-ahead that is one character off;
- *runs of backslashes*: the lexer and the parser each step over escapes in
  their own way and must agree;
- *several loops on one cursor*: six loops of the lexer share `cur`, so that
  termination and lost text are questions about all of them;
- *numbers of a few bits*: columns and spans are bytes;
- *strings that lose their NUL*: `as_append_char` fills a block to its last
  cell and writes no NUL; whoever takes `data` for a C string relies on which
  calls came before;
- *owners*: four copies of a text with four owners, errors that return in the
  middle, trees of eighteen kinds of node with a function each that frees them,
  and a table that is freed twice;
- *one global for many*: every lexer, and every parser, takes the one keyword
  table for its own;
- *macros that evaluate twice*: `if_let` and `while_let` call what they test a
  second time, and what they call moves a cursor;
- *counters that wrap*: a vector doubles a `u32` and keeps its capacity when it
  is freed.

`PROJECT.json` lists each of these under "hazards", at its line, with the
properties that would catch it.

What makes each part correct:

- lexer: it always ends; no text is lost between tokens; a literal ends at its
  first delimiter that is not escaped; a word is maximal; positions are those of
  the text; a rejected text yields no token; no read is outside the text.
- strings: no access of a sound call leaves a block, and of the other functions it is
  known where theirs do; a length covers only what was written; a string is terminated
  unless a character was appended to it last; a call changes only the text it means to change.
- keyword table: no row is freed twice, whoever shares the table; a keyword is a
  keyword to every lexer for as long as it reads (it is not: the exact exception
  is a property).
- vector: whatever is reserved, moved or popped, it is a sequence, until its
  counters come near their width or it is freed.
- parser, literals: a string literal is what its text means; it is refused if and
  only if an escape is bad; every way out frees the half-made string; a refusal
  is reported; a number is taken whole or not at all.
- parser, cursor: tokens are consumed in order and at most once; no call loses a
  token or a string that is not accounted for; what was seen is what is consumed;
  the end is known when it is reached, and not before.
- AST: when a tree has been freed nothing of it is left; an owner outlives what it
  owns; no node is taken for one of another type.
- AST printer: every node is printed once, in order, between parentheses that
  match; what is formatted fits the buffer.
- driver: no block is freed twice or read afterwards, and all are given back;
  what is printed is what the text means.

## 2. Modules

| Module | Models | Lines |
|---|---|---|
| `TokenStream` | what `lx_tokenize` promises: the abstract specification of the lexer | - |
| `Lexer` | `lexer.c:448-806`, one action per iteration of each loop | 360 |
| `LexerProperties` | its properties, its inductive invariant, the refinement mapping | |
| `LexerProofs`, `MCLexer` | theorems about it and about `KeywordTable`; the texts for its run | |
| `KeywordTable`, `MCKeywordTable` | `kwt` and the functions around it, for several lexers and parsers; two lexers of the same words, and a parser | 145 |
| `AString` | the functions of `a_string.c` on blocks of cells | 320 |
| `StringValues` | what the library promises: strings as texts, no memory | - |
| `StringCalls` | a caller that calls the sound functions in any order | |
| `StringRisks` | where the other functions go wrong on its strings; the comparisons | |
| `AStringLemmas` | what each function of `AString` returns, for every block and text | |
| `StringProofs`, `MCString` | theorems, the refinement among them; two variables and small blocks | |
| `VectorValues` | what a vector promises: a sequence of items | - |
| `Vector` | every macro of `a_vector.h`, its block and its counters | 164 |
| `VectorProofs`, `MCVector` | theorems, the refinement among them; counters of three bits | |
| `Parser` | `ps_literal` and all that it calls, for any token | 231 |
| `ParserProperties`, `ParserProofs`, `MCParser` | its properties, theorems; the tokens for its run | |
| `TokenCursor` | the token cursor, its diagnostics and `ps_ident`, under any calls | 294 |
| `TokenCursorProperties`, `CursorProofs`, `MCTokenCursor` | its properties, theorems; the streams for its run | |
| `Ast` | the nodes, what a tree of them is, their constructors and `_free` functions | 256 |
| `AstPrinter` | the visitors and the formatting buffer | 115 |
| `AstWalk` | the walk over one tree that prints and frees it, and the string writer | 100 |
| `AstProperties`, `AstProofs`, `MCAst` | its properties, theorems; the trees for its run | |
| `Program` | `main.c`, which extends `Parser` and has an instance of `Lexer`, and the heap | 239 |
| `ProgramProperties`, `ProgramProofs`, `MCProgram` | properties, theorems, texts | |

An operator whose name begins with `Bad` is no part of a specification: it is a
plausible slip in the operator below it, and a run that is given it instead must
fail. A property of a run may be the conjunction of several that answer one
question, each stated and explained by itself (`LexerInv`, `TokensAreWhole`,
`FailuresAreJust`, `RisksAreKnown`, `CursorInv`, `EndIsNeverExpected`,
`LooksAreTrue`, `NodesAreKnown`, `TreesArePrinted`, `WritersAreKnown`,
`VectorInv`, `TableInv`, `ParserInv`).

### Lexer

The variables are the fields of `Lexer` (`src`, `cur`, `row`, `bol`, `error`),
the locals of `lx_next_word` (`begin`, `len`, `delim`), the tokens collected
(`toks`), and `pc`, which says which loop runs: `trim` (`lx_trim_spaces`),
`line` and `block` (`lx_trim_comment`), `scan` (the tests of `lx_next_token`
up to the first character of a word), `word` (`lx_next_word`), `classify`
(keyword, literal, identifier, in that order) and the ends `done`, `failed`,
`panic`. `spans` is a history variable: which part of the text each token was
made of. A character is one of the set `SourceChar`: the characters that the code
tests for by name, the digits, and the constants `Letters` and `Others` for the
rest. `Keywords` is a constant, a set of words. A read behind the text gives
the terminating NUL; `strchr(set, '\0')` finds the NUL of the set itself, so
that a NUL passes for a quote, and `StrChr` keeps that.

`TokenStream` forgets how a text is read. Its steps deliver a lexeme, finish
with one `EOF`, reject everything, or crash; lexemes are in order, none is empty
and none is beyond the text. `ImplementsTokenStream` says that `Lexer` does
nothing else, under the mapping `Lexemes` / `Status`.

### Keyword table

`kwt` is the global pointer: the number of the `lx_new` call that made the table
it leads to, 0 for `NULL`. A row of a table is a block of the heap, `rows` holds
those not freed yet, and uthash, which is not in the repository, is no more than
this set. `Reserved` are the words that `lx_kwt_setup` puts in, `Lowered` is
`as_tolower`. `lexer` has the fields of each lexer in use, `parsers` the parsers, for
`ps_free` frees the lexer of its parser, which `ps_new` never makes; `order` is
the history of the calls that set the pointer. Reading a word is one action
here; how a text is cut into words is `Lexer`.

### Strings

A string is a record of `len` and `data`, a sequence of cells; a cell is a
byte or `Junk`, which is what `realloc` adds. `cap` is the length of `data`.
Each function of `a_string.c` is an operator of the same name; one that reads or
writes cells has a second operator, `..._InBlock`, that says whether all of them lie
in their blocks: that a copy finds its characters or a NUL to read, that what is
written fits the block the function has made or resized, and that an index is below
the capacity. (`as_new`, `as_clear` and `as_reserve` touch only the cells they have
asked for, and `vsnprintf` is given the size of its block.) `StringCalls` has two
kinds of history, `appended` (who was last written by `as_append_char`) and `fault`.
Every call records in `fault` whether its accesses stay in their blocks (`Stays`), so
that `NoFault` is about all of them; what an access beyond a block would hit is not
modelled, `Overwrite` writes the cells that exist. Its caller keeps three conditions that the code
of cimi keeps, too: it does not pop an empty string, does not trim a blank one
on the right, and does not shrink a string by a read that fails. The functions
that are not sound are no actions: `StringRisks` says, of every state that the
sound calls reach, where each of them would keep within its block and what it
would then leave: `CopiesAreCStrings` for `as_copy` and `as_copy_cstr`,
`CountedCopiesFillBlocks` for `as_ncopy`, `AppendsMiscount` for `as_append_cstr` and
`as_append_astr`, and `TrimsAreRightWhere` for the trims that are not called.

`StringValues` is the library without memory: a map from variables to texts.
`ImplementsStringValues` shows that growth, shrinking and copying never change a
text but as the call says. Copies stop at a NUL and pad with NULs (`strncpy`),
and the abstract texts have that, too.

The comparisons change nothing; `ComparisonsAreOfTexts` says what they tell apart
when a text has a NUL in it.

### Vector

`data` is the block, cell by cell, and the block of no cells is `NULL`; `len` and
`cap` are below `U32` and wrap as the fields do, the products inside a macro
before they are stored. A macro that would leave the block ends in `overrun`, one
whose `assert` fails in `abort`, one that gets no memory in `panic`: behind
these the model makes no claim. `memset` in `av_clear` clears as many cells as
`cap` says, not as there are.

`VectorValues` has a sequence and the fact that it is `spent`, freed and not grown
since. It says where a vector may break: at half the width of its counters when
it doubles, beyond the width when it grows by a batch, and when it is used after
`av_free`, which leaves `len` and `cap` as they were. `IsASequence` says that it
breaks nowhere else, and that otherwise each macro does to the sequence what its
name says, through every `realloc`.

### Parser

`tok` is the token that `ps_peek` returns, `at` the place in `ps_literal`,
`i` and `res` its locals (the string is one of `AString`, so that the literal
grows through real reallocations), `expr` its result and `diag` the diagnostic
it has given. The token is *any* token of the set `Tokens`, more than the lexer
can make: the interface is checked on its own, and `Program` shows what is left
when the two are put together. `strtod` and `strtoll` are external; what they
read is modelled from their standard description (base 0: a leading `0` selects
base 8; the value is cut off at `IntMax`). The local `ch` of `TOK_LITERAL_CHAR`
is not set on the path of `parser.c:340`: there it is any byte.

### Token cursor

The caller is any caller: `Next` is every function, in every order. A token is
known by its number, `NoToken` is what a function returns when there is none.
`if_let(x, e)` evaluates `e` once for `.data` and once more for `.have`, so that
`ps_consume_and_expect` moves the cursor by two, and `ps_ident` asks
`ps_peek_and_expect` twice when it fails; a function is one action, the loop of
`ps_consume_newlines` one action per newline. `Diagnose` is `ps_diag_impl` with
`ps_get_pos`: it takes the position of the token before the cursor and ends the
process if there is none. A diagnostic whose arguments do not match its format
(a struct for `%s`, or one argument too few) prints anything or crashes: that is
undefined, and the model chooses.

`taken` is the history of the tokens that were handed out as consumed, `leaked` of
strings that nobody frees, `made` counts the calls of each outcome. The counters
let `CursorIsAccountedFor` say where each move of the cursor went, and
`NamesAreAccountedFor` where each string did; both are exact.

### AST and printer

A tree is a function: it takes the path of a node, the members that lead to it, to
its struct. A struct knows its type, its kind, the members that are nodes (`has`) and
the number of its elements (`len`); `boxed` says that it lies in a block of its own, as
do an array and the characters of a string. `Members` says what each member may be,
and `IsTree` that a function is a tree of such structs: what `expr.h` and `stmt.h`
demand, and no constructor can break. The elements of an array are members, too,
which `Nth` names. `heap` is the set of paths whose block is not freed yet.
Constructors are operators that make trees, with the fields they forget at zero: the
array constructors of `C_Type` and `C_Lvalue` leave the kind of the first alternative,
and the tree says so. A `_free` function or a visitor is the sequence of its
statements (`FreeBody`, `VisitBody`), and `todo` is what the C stack holds: the
statements still to be done. A step does the first of them: it enters a function,
writes a piece, frees a block, or ends where a block is touched that was freed
(`misused`), a pointer is followed as if to another type of node (`confused`), or
a visitor panics. `of` and `at` of a statement say from which node it reads the
pointer and where that leads; both must be alive.

`out` is the sequence of the statements that have written a piece, and `buf` is the
string writer: `ap_write_string` is `as_append_cstr` of `AString`, so that the string
library and the printer are checked together. `as_append_cstr` counts each piece
twice, and the next piece goes behind the NUL.

### Program

`stage` follows `main` line by line: `read`, `lex`, `parse`, `print`, `expr`
(`C_Expr_free`), `tokens` (the loop over the tokens, then `av_free`), `lexer`
(`lx_free`), `parser` and `file name` (`ps_free`), `source`, `exit`; or `panic`,
or `crash`. The steps of `Lexer` and `Parser` are steps of `Program`, and each
also says which blocks it puts on `heap` and takes off it. `Free` records in
`misused` a block that was not there. `kwt` is the global pointer, whose value
`NULL` after `HASH_DEL` of the last row is all that keeps the second `lx_free`
from freeing again. What the string of a token holds while it is on the heap is
in `toks`.

`Program` extends `Parser`, whose theorems can so be used for it (those of an
instance cannot), and has an instance `Lx` of `Lexer`. The names of the parser's
own specification (`PsInit`, `PsNext`, `PsSpec`, ...) tell it from the program's.
The parser's character set is the lexer's without the NUL, with the characters
that escapes stand for added. Its constant `Tokens` says nothing of the program:
`FirstToken` is the first token that the lexer has made, whatever it is, and
`ParserProofs` asks of a token only what `Fit` says. The parser sees of it its
kind and its text; which keyword it is, `FirstToken` reads from the text.

## 3. Runs

All are TLC runs with deadlock checking off, as the program and its parts end;
that they end at the right place only is what the `Termination` properties
(`PsTermination` for the parser) say.

| Run | Asks | Instance |
|---|---|---|
| `lexer_texts` | positions, lost text, whole tokens, where a literal ends, what the errors mean, progress, termination, the refinement of `TokenStream` | every text of up to 5 of 5 characters (comments, `=`, blank, newline), of up to 4 of 6 (the other symbols), of up to 5 of 6 and 7 of 3 (quotes, backslash, NUL, newline), of up to 4 of 10 (words and numbers), and the Boolean words |
| `string_calls` | blocks, NULs, unwritten cells; where the other functions fail; the refinement of `StringValues` | two variables, strings of up to 3 characters, a newline and another blank, blocks of 1 cell at first |
| `parser_literals` | translation, verdict, leaks, reports, whole numbers, termination | every kind of token, texts of up to 6 characters, a string of 2 cells at first |
| `program_run` | double frees, leaks, the two modules' agreement on literals, what is printed, termination | texts of up to 5 characters of each kind of literal, and texts of words and errors |
| `token_cursor` | order, lost tokens and strings, the meaning of `eof`, diagnostics without a place, the loop over newlines | every stream of up to two tokens and EOF, one of three, and the empty one; the cursor may run beyond the end |
| `ast_trees` | which blocks are left, which freed twice, which nodes confused, what is printed, termination | every kind of node over every kind of leaf, and those under nodes of every kind |
| `vector_calls` | the counters, the block, the refinement of `VectorValues` | counters of three bits, two items, batches of up to three |
| `keyword_table` | rows left behind or freed twice, keywords missed | two lexers of the same three words, a parser, six calls that make or free |

The four other runs each check one claim of a comment, a document or a message
that the code does not keep; TLC finds the behaviour, and `PROJECT.json` has it
as a finding:

| Run | The claim | What TLC shows |
|---|---|---|
| `symbol_is_split` | `==` and its like are symbols | at the very end of a text they are two |
| `string_append_cstr` | it "concatenates" | `len` counts the addition twice |
| `parser_range` | "too large or too small!" | a number beyond the range passes as the largest |
| `characters_printed` | `'a'` is a literal | the printer takes the character for an address |

What the code does at its other odd places is part of the models, and of
properties that hold with the exception named:

- *lexer*: `//` at the end is two tokens (`MarkersAreWhole`); a comment that is
  never closed is taken for one that is (`GapsAreTrivia`); the process ends at a
  `!` that no `=` follows, and at the `!` of a `!=` that ends the text, where the
  look-ahead for two-character symbols asks for a third (`PanicOnlyOnBang`). A text
  is refused, else, for a literal that is still open at its end (`EofErrorIsJust`) and
  for a word that is spelled like no number, Boolean or name, as `9a` or `1.2.3`
  (`InvalidWordIsJust`).
- *keyword table*: `lx_new` leaves the rows of the table before it in the heap for
  good, and `lx_free` takes the table of the last `lx_new`, whichever lexer it is
  called for (`RowsAreAccountedFor`); from then on every lexer takes keywords for
  identifiers (`KeywordsAreMissedAfterFree`). Nothing is freed twice.
- *strings*: `as_append_char` leaves no NUL (`TerminatedUnlessAppended`); `as_copy`
  and `as_copy_cstr` write beyond a block that the text just fills
  (`CopiesAreCStrings`); `as_ncopy` leaves no NUL in a block that its text fills
  (`CountedCopiesFillBlocks`); `as_append_cstr` and `as_append_astr` count what they
  append twice (`AppendsMiscount`); trimming leaves wrong lengths (`TrimsAreRightWhere`);
  `as_fgets` at the end of a file resizes its buffer all the same (`ReadNothing`).
- *parser, literals*: a character literal that is too long is reported and made all
  the same (`RefusedIsReported`); one that begins with an escape may be of any
  length (`CharLiteral`). A number of the lexer's that begins with 0 and has an 8 or
  9, as `09`, is refused with "int literal ... is invalid!": `strtoll` takes it for
  octal (`LexedLiteralsAreSound`).
- *parser, cursor*: EOF is never returned by a call that consumes or expects
  (`EndIsOnlySeen`); an expectation that is met loses the token after it, one that
  is not loses two (`CursorIsAccountedFor`); "reached the end" is reported at a
  token and never at the end (`EndIsReportedTooEarly`); counting errors moves the
  cursor and not the count.
- *AST*: the array of an argument list and all of an array type are left over
  (`LostBlocks`); an array type freed by itself is freed twice, and a tree that
  assigns to an indexed element is never freed, for the element is taken for an
  identifier (`MisusesAreKnown`).
- *vector*: it breaks at half the width of its counters, and after `av_free` goes
  on with items nobody wrote (`VectorValues`).

### Bounds, and why they are enough

- *Texts.* Every decision of the lexer looks at the current character and one
  more; a marker of two characters, one before it, one after it and the end of
  the text fit in five. A run of three backslashes in a literal that has text
  behind it needs seven, and has them (`LiteralSources`). Strings of the parser
  have six characters: three escapes, or an escape between two characters on
  both sides.
- *U8 = 4 or 8* instead of 256: columns and spans wrap within a text of five
  characters, which a model with 256 would never see. The theorems hold for any.
- *Blocks.* `NewCap` is 8 in the code, 1 or 2 here, so that strings grow twice
  within the length they have. `LineCap` (8192) is 3: lines are longer than the
  buffer, or just fit. `MaxLen = 3` bounds `as_append_char`; it is a guard of
  `AppendChar`.
- *Cursor.* `MaxCur = 5` bounds the calls that move the cursor, and with it how far
  it runs beyond the end: two more than the longest stream, as far as one
  `ps_consume_and_expect` goes. `MaxLeaked = 1` bounds the calls that lose a
  string, so that the count is seen to rise by one and by two. `MaxErrorCount = 2`
  for 20 and `U32 = 16` for 2^32: `cur - 1` at 0 is far beyond every stream, as in
  the code.
- *Trees.* A function looks at a node and its members; trees of three levels of
  expressions have every member type under every node type, the odd ones in the
  middle. `ShownMax = 64` and the 512 bytes of `ap_writefer` are those of the code;
  a text has its length only (`TextLen`: 1, 64, 65 and 600). `WriterCap = 2` for
  128: the string writer grows at its first piece.
- *Vectors.* `U32 = 8`: five cells double to ten, which is two; every capacity that
  wraps is reached in a few calls. `AV_INITIAL_SIZE` and `AV_GROWTH_FACTOR` are
  those of the code. The theorems hold for any width.
- *Keyword table.* `MaxCalls = 6`: two lexers made and freed in every order with a
  parser's `ps_free` in between, and one made again.
- *Symmetry.* The two string variables are interchangeable: no action and no
  property names one, and no liveness is checked there (`MCSymmetry`).
- *Counters of the lexer.* `cur`, `row` and `bol` are `u32` in `lexer.h:42-44` and
  `src_len` is a `usize`; in `Lexer` they are natural numbers. All that is checked and
  proved of the lexer is so for texts of less than 2^32 bytes: beyond, `cur` wraps
  and the lexer begins again at the start of its text, which is not modelled.
- *IntMax = 99* for 2^63 - 1; numbers of up to four digits lie on both sides.
- *ShownMax = 2* for the 64 characters beyond which a string is not printed.
- The alphabets have one letter or two for all that the code treats alike.

### Fairness

One thread runs the loops and nothing in them waits, so weak fairness of the
next-state relation is what running means: `FairSpec == Spec /\ WF_vars(Next)`.
The only wait is the read from stdin, a single step of `Program`. The same holds of
`AstWalk`, whose steps are the statements of functions that have been called. A
caller of the token cursor need not call again, and so only the loop of
`ps_consume_newlines` has fairness (`WF_cursorVars(Newlines)`): once begun, it
runs. `StringCalls`, `Vector` and `KeywordTable` have callers who may stop at any
time, and no liveness is claimed of them.

## 4. Proofs

The theorems hold for every value of the constants that the named assumptions
allow. TLC evaluates the assumptions in each run:

- `LexerAssumption`, `AStringAssumption`: the alphabets are disjoint from the names
  the modules use, the case tables stay in them, capacities and `U8` are positive.
- `CallsAssumption`: the texts and files of the caller are sequences of characters,
  and a file that is read has at least one.
- `ParserAssumption`: escapes stand for characters, the text of a number is not
  empty, and behind a NUL in the text of a token there are only NULs. The last is
  what `as_slice` leaves, which pads with NULs (`strncpy`), and all tokens have
  their text from it or from `as_dupe`, which pads as well.
- `ProgramAssumption`: a source is a sequence of the characters of the lexer, and
  these are characters to the parser, too. That the tokens of the program are as
  `ParserAssumption` has them is proved.
- `CursorAssumption`: a stream that is not empty ends in `EOF`, and the cursor,
  which is bounded, stays below the width of its counter.
- `KeywordAssumption`: lower case is a map of words to words.
- `NthAssumption`: no two elements of an array have the same name.
- `WalkAssumption`: what is printed and freed is a tree (`IsTree`) whose root is of a
  type that has a `_free` function; the longest string that is printed fits the buffer
  with its quotes; the pieces of punctuation are told from names and values. Nothing
  bounds the depth of a tree or the length of an array. That what the constructors make
  of trees is a tree is proved (`ConstructorsMakeTrees`), for names, operators and values
  that are not empty; TLC evaluates the assumption on every tree of `MCAst`.
- `VectorAssumption`: `U32` is more than the first capacity of a vector and than a
  batch.

**LexerProofs.** `TypeOK` is inductive by itself. `CursorInSource`
and `WordIsInSource` are not: an undelimited word may have grown beyond the text
unless one knows which loop has moved the cursor, and that a token lies behind
the cursor cannot be said without where the word began. `LexerInv` adds
`TokensAreBehind` (the last token ends where the text still to be read begins)
and `WordShape` (an undelimited word has no character that ends words, or has
had a backslash and will be no token; a delimited one opens with its delimiter
and, once closed, ends with it). From it follow `CursorCorrect`, `WordCorrect`
and `LexerImplementsTokenStream`: each step maps to a step of `TokenStream` or
to a stutter, the difficult one being that a word that was moved beyond the end
by a backslash can be no token (`BackslashSpoils`). `LexerProgress` shows a
measure of text left and loop that every step lowers, which is termination but
for the fairness argument.

What the tokens are needs more than where they are, and three stronger
invariants, each on top of the one before:

- `TextInv` adds that every token is a whole lexeme (`LexemesAreWhole`), and what
  the loops know that makes it one: behind the trimming loops no blank and no
  comment is left (`NothingToTrim`), a word begins where no symbol does
  (`WordBegins`), and an open literal has had no delimiter that was not escaped
  (`LiteralIsOpen`). The scanner steps over a backslash and what follows it; the
  text says that a delimiter is escaped if the run of backslashes before it is odd.
  `RunDecides` and `Parity` show that the two agree, for runs of any length. From
  `TextInv` follow `OnlyJustFailures`, `LiteralsCloseRight` and `TokensAreNotCut`. That
  a word is refused with reason (`RefusedWord`) needs that it was copied whole: a word
  with no character but letters, digits, `_` and `.` has no NUL to cut it off.
- `GapInv` adds that the text between the end of the last token (`Gap`) and the
  place where the next may begin (`Place`) is blanks and comments, an open comment
  included, which gives `OnlyTriviaIsSkipped`.
- `PositionInv` adds that `row` is the number of lines that end before the place and
  are in no literal, and `bol` is where the last of them ends (`LinesAreCounted`).
  That a newline in a literal is not counted while one in a block comment is needs
  to know which tokens lie before the place (`SpansAreBehind`). It gives
  `PositionsAreRight`.

The second half of the module is about the keyword table. `TableInv` is inductive as it is: which tables have rows is a
function of the history of calls (`Kept`), and the pointer leads to the last or
nowhere. That a keyword is missed exactly when the last such call has freed
(`KeywordsAreMissed`) needs with it only that no lexer exists before the first call
(`LexersAreMade`).

**AStringLemmas and StringProofs.** `StringInv` is the conjunction of the four
invariants: none is inductive alone, as what `as_append_char` does depends on the
capacity, what a copy does on the NUL, and whether `as_trim_left` leaves its block
on who was appended to. There is one lemma per function of the library (`...Fine`,
`...Good`): what it returns is a string whose length is within its block, whose
text is written, which is terminated if its argument was, and which text it is.
`AStringLemmas` has these, for `ParserProofs` needs them, too. One lemma per action
of the caller combines them.

Of `NoFault` each lemma has its part, what the blocks must hold for its function to
stay in them (`ncopyInBlock`, `read_lineInBlock`, ...): that a length is within its
block comes from `TextIsWritten`, that a C string ends in it from
`TerminatedUnlessAppended`. `CallsTerminateUnlessAppended` is about the calls of
`StringCalls` only; what `as_ncopy`, `as_append_cstr` and the trims that are no calls
leave is part of `RisksAreNoOthers`.

`StringsAreTexts` is the refinement of `StringValues`. `PutIs` says that a call that
gives one variable a string gives it a text and leaves the other texts alone; one
lemma per function (`CreateIs`, `FillIs`, ...) says that the text is the one that
`StringValues` names. `PaddedIs` and `CStringIs` match the two ways in which text is
lost, a copy that stops at a NUL and pads, and a C string that ends at it. An
attempt at this proof showed that an earlier `StringValues` dropped any blank at the
end of a line that was read, where `as_read_line` drops a newline only.

`RisksAreNoOthers` says of all strings that calls can make what the functions that are no
actions leave, and where they go wrong, and follows from `StringInv` alone, a lemma per function
(`CopyIs`, `NcopyIs`, `AppendAstrIs`, `InplaceTrimIs`, ...). `DoubledSuffices` is the induction that the loop of
`as_append_cstr` does end with a capacity that suffices.

**ParserProofs.** `ParserInv` is not inductive: that the node made at the end is what
the text means needs to know, in the loop, that the string built so far is what the
characters passed so far mean (`Translated`), that none of them is an escape whose
character is to come, and that behind a NUL in the string there are only NULs, for
`as_dupe`, which the node is made with, would lose them. `PsInv` adds this (`Loop`) and
that there is no verdict before the end (`Unjudged`). `Meaning` is said of a whole
text, by ranks of the characters that are no escapes; `MeaningGrows` says what one
more character adds to it, `ReplacedIs` and `PrefixReads` that whether a character is
replaced can be read from those before it. `MeaningWithNuls` says that a text that
ends in NULs means what the text before them means. From `PsInv` follow all properties
of the literals. That `strtod` and `strtoll` take a text whole or not is `strtodReads`
and `strtollReads`. Of the token the lemmas ask only that it is `Fit`: a text of bytes,
not empty if it is a number, that ends in any NULs it has. `PeekedIsJudged` is for
whoever gives the parser such a token, `NodeStep` that the node is made of no other.

**CursorProofs.** `Inv` is the conjunction of `CursorInv`, `TakenInOrder` and
`EndIsNeverExpected`, and is inductive: the cursor is the sum of what each outcome
passes over, so a token at the cursor comes behind all that were taken. One lemma per
call, over one lemma per outcome (`ConsumeKeeps`, `AcceptedKeeps`, `RefusedKeeps`,
`DiagnosisKeeps`); a token that is reported where there is no token before the
cursor ends the process (`DiagnoseIs`). `LooksAreTrueHolds`, an action property,
needs `Inv` and that the loop over newlines answers nothing before it ends
(`LoopIsSilent`).

**ProgramProofs.** `HeapInv` says, for every stage of `main`, which blocks are on
the heap: `MainsBlocksAreHeld` (source, file name, vector, keyword table, and
that `kwt` is NULL if and only if the table is gone), `ParsersBlocksAreHeld`
(the half-made string lives exactly while the loop runs, the copy in the node
from there to `C_Expr_free`), `TokenStringsAreHeld` (of the tokens from `next`
on, those whose kind `token_free` knows have their string, and unless the lexer
has failed there are no other strings). That nothing is freed twice and that
nothing is left are both consequences, and neither is inductive: one needs to
know what is held, the other what is not. Two lemmas carry what is needed of
lexer and parser: a step of the lexer appends one token, clears all on an error, or
leaves the tokens alone; a step of the parser keeps its string and its node in
step with its place.

`LexerAndParserAgree` is about the text that passes between the two. The lexer closes
a literal at a delimiter that is not escaped, and steps over two characters at a
backslash; the parser reads the same text once more, with a flag, and has a diagnostic
for a text that ends in an open escape. That none does is said with a set of offsets,
`Marks`: where a reader who takes a backslash and what follows it at once would begin
to read. There is one for every text (`MarksOfText`), the open word of the lexer has
one that leads to its end (`WordIsOpen`), the parser begins to read at offsets of it
only (`NotInEscape`), and of the tokens only the first counts (`FirstIsSound`).
`NumbersAreTaken` says that `strtod` reads any number that the lexer makes whole, and
`OctalsAreMisread` that `strtoll` does so, too, unless it begins with 0 and has an 8 or
9 (`MisreadOctal`): so that the parser refuses those and takes all others.

`PrintedIsAlwaysMeant` follows one text through all copies of it. `MeantInv` says that
the first token is of the text (`FirstIsOfText`: the text of a token is what stands at
its span, without its quotes if it has some, and padded behind a NUL), that the node is
of the token (`Judged`: the parser has its `PsInv` from the moment it looks at that
token), and that what is shown is of the node (`IsShown`). The first is a step of the
lexer that `LexedStep` describes, the second is `ParserProofs`. Three times a NUL in a
literal loses what is behind it, in the token, in the node and in what `printf` writes;
`CutMeans` and `UpToNulIs` say that to lose it first or last is the same.

**AstProofs.** All five properties of the trees, for trees of any depth. What they
rest on is what is made; `Inv` has three parts, one per question.

*What is made.* `ConstructorsMakeTrees` has one conjunct per constructor: of trees of the
types that its parameters have it makes a tree of its own type (`IsA`). A node is a struct
on top of its members (`On`), and `PutTogether` says when that is a tree: each member is
one below its own first struct (`IsBranch`) and suits the struct above it (`Suits`). So
the trees that the other theorems are about are all that can be made, from the leaves up,
and not only those that a run lists.

*What is left to free.* `Settled(todo, heap, {})`: the heap is exactly `LostBlocks` and
what the statements left to do owe (`Debts`: a `free` owes its block, a call all blocks
below its node but those that are lost); no two of them owe the same, nor is a block
freed before one that needs it (`InOrder`); and all the blocks that a statement goes
through are there. A call is replaced by the body of its function, so what is to be known
of each of the eighteen functions is that its body owes what the call did (`Pays`,
`FreePays`); most are of one shape, a call and a `free` for each member (`Plain`,
`TwoArePlain`, `OneIsPlain`), or a call for each element (`ListPays`). `C_Type_free` pays
because it has nothing to pay: its kind is never that of an array. An array type that is
freed by itself owes `size` twice, and `Repeats` says that it does so to its very end;
`Pending` says that a statement is left that leads to each indexed element that is
assigned to, so that a tree with one is never freed.

*What is left to print.* The statements written and those left, taken as one sequence, tell
the tree (`Told(out \o todo)`): what they name or lead to is in order (`Ordered`), has every
node in it (`Covered`), and each parenthesis has its partner, with nothing of other nodes
between them (`Matched`). A statement may be replaced by others that tell the same
(`Stands`, `Replaced`), and the body of each visitor does (`Visits`, `SaidStands`). At the
end nothing is left, and what is written tells the tree; when a process ends before,
some rest exists that would have (`Tale`).

*The writers.* `Held`: the string writer's length is twice the number of pieces, its first
piece has a NUL behind it, and as the next one goes behind the length it stays so. That
formats fit is known of every statement left (`Prints`).

`OwnersAreFreedLastHolds` is an action property and follows from `InOrder`: the block that
is freed is above no other that is owed.

**VectorProofs.** `VectorInv` is the types and `CapIsTheBlock`: while the process
lives `len` is within `cap`, and `cap` is the size of the block, or there is none.
It is inductive with the types, for a capacity that has wrapped shrinks the block
below the length and the very macro that wrapped it ends the process: that is
`AppendKeepsInv` and `AppendManyKeepsInv`, one lemma per macro like the others. From it
follows `VectorIsASequence`, the refinement of `VectorValues`. Three lemmas carry
the mapping: `HeldIs` says when two blocks hold the same sequence, `ReallocHolds`
that a block that is not shrunk below the length holds what it held, `StoreHolds`
that writing behind it appends. There is one lemma per macro (`AppendStep`, ...) that
says in terms of the sequence what the macro does, and where it ends the process;
`StepRefines` matches them with the actions of `VectorValues`.

Only model-checked:

- liveness: `Termination` of four modules, and `NewlinesEnd`; the prover has no rules
  for fairness here. `LexerProgress` is the part of it that is an action property.

Every invariant and every step property that a run checks is a theorem, but for the
claims that do not hold.

The induction theorems of the library take an operator as a parameter, which no
backend here can be given. Where a proof needs induction over a number, it is over a
set: `AllNumbers` (a set with 0, and with n + 1 for each n in it, is `Nat`) and
`LeastElement`. That a recursive function has the values its definition says is shown
that way too, from the existence of such a function (`GrownExists`, `ValueExists`).

## 5. What is not modelled

- Token and error printing (`token_print`, `token_print_long`, `lx_perror` and the
  like), which changes nothing, and the wording and layout of diagnostics; that a
  diagnostic is given, where it is placed and whether its arguments are sound is
  modelled.
- Functions that nothing calls and that say nothing beyond what is modelled:
  `token_dupe` (a copy of a token), `as_in` and `as_in_cstr` (a search), `as_input`
  (a prompt before `as_read_line`); `let`, `fatal`, `warn` and `info` of `common.h`.
- `C_FnCall_new`, which `expr.h` declares and no file defines: the trees of the run
  have such nodes, made as the declaration suggests, for they are freed and printed.
- The hash table of uthash: a set of rows.
- Failure of `malloc`: `check_alloc` ends the process at once.
- What a program does after undefined behaviour: the models end there, `overrun` of
  a vector, `misused` and `confused` of a tree, `crash` of a diagnostic or of the
  printer; where the outcome can also be that it goes on, it may go on as well.
- Trimming a blank string on the right and shrinking a string by a read that fails:
  what is read is outside every block the model has (`a_string.c:383`).
  `BlankIsTrimmedAway` says which strings these are.

## 6. Plan

Done: the lexer with its abstract stream and its keyword table; the string library
and the vector, on which all stand, with their abstract values; the parser's
literals and its cursor; the trees, freed and printed; the program that puts the
parts together.

The theorems cover every invariant and every step property of all parts. Left is
liveness, which the prover cannot do: for the trees and the program a measure like that of
`LexerProgress`, lowered by every step, would be the part of `Termination` that can be
proved.
