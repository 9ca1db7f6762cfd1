# A TLA+ model of ULS, the Unified Lexical Scheme

ULS is a C library that gives a program a stream of tokens. The lexical rules
come from a specification (`*.ulc`); the input comes from files, strings, file
descriptors, filter processes or token streams written earlier, which callers
stack on each other as they like. The model is of the library in `src/src`
(names below are relative to it), with the wrapper for wide characters in
`src/ulscompat`, one class of the C++ wrapper, and the parts of the tools that
decide something; the rest of the wrappers and tools are its callers.

Contents: 1 the parts of the system; 2 which module models what; 3 the runs;
4 bounds and fairness; 5 what is proved; 6 where code and documentation
disagree, and habits of the code the properties except; 7 what is not modelled;
8 the plan.

## 1. The parts of the system

| Part | State | Operations | Correct when |
|---|---|---|---|
| Context stack (`uls_core.c`, `uls_lex.c`) | a list of `uls_context_t` under one `uls_lex_t`: buffered line, source, current token, flags `TOKEN_UNGOT`, `WANT_EOFTOK`, `ERR` | `uls_get_tok`, `uls_push_*`, `uls_set_*`, `uls_pop`, `uls_pop_all`, `uls_want_eof` | tokens come in order and once, EOF of a source after its last token, ERR for ever after a failure, EOI at the end only |
| Push-back (`unget.c`) | a gap of 256 bytes before the line, extra segments, `TOKEN_UNGOT` | `uls_unget_tok/ch/str/lexeme`, `uls_peek_ch`, `uls_get_ch` | what is put back is what is read next |
| Raw filler and scanner (`uls_context.c`, `uls_input.c`, `uls_core.c`) | input buffer, `zbuf1`, the segments `lexsegs` with the literals, line numbers | `uls_fillbuff`, comment, quote and space loops, `uls_gettok_raw` | the tokens do not depend on where buffers end; comments vanish; lines are right; a failure is told |
| Source and decoder (`uls_input.c`, `utf8_enc.c`) | words read, characters decoded, one character kept over, flags EOF and ERR | `uls_input_refill_buffer`, `uls_fill_utf8buf` | every character arrives once and in order, in place of the words it came from |
| Token streams (`uls_ostream.c`, `uls_istream.c`, `uls_stream.c`) | buffered packets, the file, reader's buffer, tag and line | `uls_print_tok*`, `uls_start_stream`, `uls_destroy_ostream`, the two fillers, `uls_gettok_bin` | a stream replays what was printed; EOF means all of it |
| Filter processes (`fdfilter.c`) | two pipes, two children, descriptors of every process | `fdf_open`, `fdf_close`, `fdf_deinit`, `uls_open_istream_filter*` | the reader gets to EOF, `fdf_close` returns and reports failures, no descriptor or child is left |
| Specifications (`uls_conf.c`, `uld_conf.c`, `uls_freq.c`) | a chain of open files, the attributes, the tables under construction | reading headers and bodies, numbering and renaming of tokens, frequencies | files are closed; the last line of an attribute counts; names and numbers lead to one token; each is freed once |
| Token tables (`onechar.c`, `twoplus.c`, `idkeyw.c`) | arrays, lists by length, a hash table | insertion, lookup, rehashing | longest match; a keyword is found iff it was added |
| Literals and numbers (`litstr.c`, `litesc.c`, `uls_num.c`) | escape maps that lines of a specification share | analysers of literals, reading and converting numerals | a literal means what its line says, a numeral is worth its digits |
| Ownership (`uls_istream.c`, `uls_lex.c`, `uls_ostream.c`) | `ref_cnt` of streams and analysers, grabbers of contexts | create, open, bind, push, pop, destroy | released exactly once and not before the last holder lets go |
| Formatted output and logs (`uls_lf_*.c`, `uls_print.c`, `uls_log.c`) | ports and printing functions of the contexts, locks, registered conversions | `uls_printf`, `err_log`, `uls_log`, changes of ports, `uls_sysprn` | a message is whole and on the right stream, a loss is told, no call hangs |
| Dump and emission (`uls_dump.c`, `uls_emit.c`, `ulc2class.c`) | the loaded tables; files half written | `uls_generate_tokdef_file`, the class files of five languages, lists, YAML | the constants written are the tokens' numbers; a file that is announced is whole |
| Wide characters, C++ (`ulscompat`, `ulscpp`) | what was converted last; a shadow of each template value | calls that convert and forward, lists of template variables | a caller is told, and its streams replay, what the core holds |

How they interact. `uls_get_tok` loops over the context stack and calls the
`gettok` function of the current context (raw text or stream). That calls the
filler of the context when its line is used up; the raw filler calls
`uls_input_refill_buffer`, which calls the source's `fill` function (a file, a
string or the UTF decoder). A push allocates a context and fills it at once, so
it can fail in the middle. `uls_start_stream` is a loop over `uls_get_tok`. A
filter replaces the descriptor of an input stream by a pipe from child
processes. Loading a specification fills the tables the scanner looks words up
in. An analyser belongs to the thread of its caller; what threads share are the
logs and the console, which have mutexes (the pool of `csz_stream.c` has one
too, and is compiled out by `NO_CSZ_POOL`).

What is hard here: long sequences of legal calls (nested sources with put-back
tokens, EOF wanted or not, failed fills, streams bound to analysers); buffers
and segments that end anywhere in a comment, a literal, a character of several
bytes or a packet; failures in the middle of one of several steps (read, write,
fork, fill after a push, one of several files of a specification); tables looked
up by keys that later lines change; line numbers kept as differences; processes
that wait for each other, and threads whose messages meet a change of the port.
`PROJECT.json` lists these hazards by source line with the properties that
cover each.

## 2. The modules

| Module | Models | State and actions against the code |
|---|---|---|
| `TokenQueue` | the promise of the analyser to its caller | one queue of tokens to come: `Get`, `Unget`, `GetCh`, `Push`, `Pop`, `Set`, `WantEof` |
| `LexContext` | context stack and `uls_get_tok` | `stack` is the list of contexts. `uls_get_tok` is one call in steps: `GetTokSticky`, `GetTokUngot` and `GetTokEnter` are its returns before the loop, `ScanToken`, `ScanRefill`, `ScanFailed` and `ScanEof` the rounds of the loop. Other calls are one action each: `PushOnto` (`uls_push_line`, `uls_push_istream`, `uls_push_isrc`, each with its own way to fail), `Set`, `Pop`, `PopAll`, `WantEof`, `UngetCurrent`, `PeekCh`, `GetCh`. `Promise` is the refinement mapping to `TokenQueue` |
| `TextQueue`, `PushBack` | `unget.c` | `TextQueue` is the promise: the text to come as one sequence, put-back text in front. `PushBack` has the line buffer with its gap, the segments, and what is in bytes nobody wrote; an action is one call. `Filled` says what the raw filler leaves in a context. `PutBackFirst` is the refinement, `DeliversPutBack` the same but for the times when a literal is put back |
| `PlainLexer` | reference definition | the tokens of a whole text with their lines, in one recursive function, without buffers |
| `RawFiller` | input buffer, raw filler, scanner | an action is one round of one loop: `Fill*` of `xcontext_raw_filler`, `Space*`, `Comment*` and `Quote*` of `uls_input.c`, `Scan*` of `uls_gettok_raw` |
| `Lexemes` | one line of `uls_gettok_raw`, the tables it asks, `.ulf` files | `Scan*` for numerals, identifiers, marks and characters of a line; `Ulf*` read a frequency file and rehash the table of keywords, `LoadPlain` is a load without one |
| `Numbers`, `Values` | `uls_num.c`, `get_number` | `Numbers` defines what a numeral is worth and then `uls_extract_number` with its prefixes, separators and zeros; `Values` the conversions of the lexeme to int, double and other notations |
| `Escapes` | `litesc.c`, `litstr.c` | the `QUOTE_TYPE` lines with the escape maps they share; the three analysers of a literal, called again where the buffer ends |
| `UtfSource` | refill and UTF decoder | `Refill*`, `Read` and `FillReturned` of `uls_input.c`; `Fill*`, `Drain*` and `Encode*` of `utf8_enc.c`; sizes in words and bytes are kept |
| `TokenStream` | output and input streams | writer `PrintTok`, `PrintTokLinenum`, `StartStream`, `StartTok`, `StartEoi`, `GiveUp`, `Destroy`; the disk may be full; reader actions by format (`Bin*`, `Txt*`) and `Get*` of `uls_gettok_bin` |
| `StreamHeader` | the header of a stream, how a file or pipe is recognised | `Create*` writes magic line, attributes and the renamings of a `.uld`, where a full disk may cut it; `OpenFirst`, `OpenRaw`, `OpenHeader`, `SimpleLine`, `RemapLine`, `RenLines` and `OpenEnd` are the steps of `uls_open_istream` over reads that a pipe may cut |
| `StreamPush` | `uls_push_istream_2` | `PushStart` (context and first fill), `PushBind` (analyser, prepended input), `PushFill` (the tokens of each template value, scanned as a line pushed over the stream) |
| `FdFilter` | `fdfilter.c` and the streams over it | processes, the ends each has open, the blocks in the pipes; parent's calls `OpenPipes`, `ForkFilter`, `ForkProvider`, `OpenIstream`, `ReadReturn`, `Close`, `Deinit`, with `Poll` and `RoundEnd` of `uls_proc_join`; `Provider*` and `Filter*` are the children |
| `Ownership` | reference counts | analysers, input and output streams, contexts and descriptors. A call runs calls inside it (a pop ungrabs, an ungrab destroys): `todo` is the list of what is left of them, and an action carries out its first element |
| `SpecFiles` | the files of a specification | the chain of parents found in the search paths, its FILEs, the header of each from the eldest down, then the bodies, then `.uld` and `.ulf` |
| `SpecHeader` | the attributes | one operator for each attribute and one action for a line; the class of a keyword; the checks at the end; what the analyser finds with the result, and what `ulc2yaml` prints of it |
| `TokenSpec` | the tokens | lines of the header, the body and the `.uld` that make, number and rename tokens; the tables rebuilt after them; the destruction |
| `Dump` | what is written of the tokens | operators over a loaded `TokenSpec`: the constants of `ulc2class` and as a compiler numbers them, the lists of `uls_dump.c`, the tokens and renamings of the YAML document, the sample of a `.uld` |
| `Emission` | the files of `ulc2class` | which file gets which parts, for C, C++, C++/CLI, C# and Java and each option, constructors and the path of the specification included; creating the analyser and writing each file may fail, in the order of the code |
| `Formats`, `Directives`, `Printing` | `uls_lf_*.c`, `uls_print.c`, `uls_log.c` | `Formats` is how a conversion prints its argument and how the text is read back; `Directives` the two tables of conversion names; `Printing` the threads, locks, ports and streams, a round of a format at a time |
| `WideLex` | `ulscompat/uls_wlex.c` and its kin | the shell over an analyser: which of lexeme and tag it has converted, for which token; one action for each kind of call |
| `WideTmpls` | template lists in wide characters and in C++ | the plain list, its shadows, the two maps of `UlsTmplList`, and the export to a stream |
| `Flattening` | lemmas on concatenating a sequence of sequences, used by four of the modules below | |
| `LexContext_proofs`, `UtfSource_proofs`, `FdFilter_proofs`, `PushBack_proofs`, `Ownership_proofs`, `TokenSpec_proofs`, `Printing_proofs` | theorems, see 5 | |
| `MC*` | constants for TLC | `MCSpecification` puts `SpecFiles`, `SpecHeader`, `Escapes` and `Emission` into one run, `MCTokenStream` streams, headers and pushes, `MCOwnership` counts, wide characters and template lists, `MCTokenSpec` tokens and dumps |

Where a run has several parts, a variable `part` says which one runs; the others
stand still. They share a run because they share no state.

Operators with a suffix (`Peeked_Drops`, `SuffixPool_Unsorted`) are mutants:
what the definition after them would be with a plausible mistake. Every property
is violated when one of them takes the place of its definition.

The modules are joined where one's assumptions are another's properties. The
chunks and failures of a source in `LexContext` are the fills of `RawFiller`
(`TextEndsTruly` there: EOF and failure are told apart) or of the reader in
`TokenStream`; the contexts `PushBack` begins with are `Filled` as `RawFiller`
fills them; the refills that `RawFiller` takes as one step are those `UtfSource`
divides (`RefillReturns`: a refill gives what was asked, or the source ended or
failed); the tokens of a line in `RawFiller` are what `Lexemes` makes of words
and `Escapes` of literals, with tables as `TokenSpec` and attributes as
`SpecHeader` leave them; a stream that `TokenStream` reads was recognised by
`StreamHeader`; what a filtered stream reads is a source (`FilterEnds` says when
its EOF can be trusted); `Emission` writes the constants of `Dump`; the wide
lists hand `StreamPush` what `TmplsAgree` says they hold.

What is abstracted, by module:

- `LexContext`: a unit of text is a token, a blank, a literal or a lexeme in
  error. What a push-back does to the line buffer is in `PushBack`.
- `PushBack`: line numbers and contexts over token streams are left out. Bytes
  that nobody wrote hold `Fresh`, any item: a letter in the runs, where it would be
  read as text, arbitrary in the theorems. The lowest context announces no EOF
  (`LexContext` has that case), and a put-back EOF or ERR does not melt into text.
- `RawFiller`: a byte is a character; a literal is one item; escape sequences
  are units; words are not classified into keywords and numbers.
- `Lexemes` and its kin: a character is a byte. Ints have `Bits32` and `Bits64`
  bits. Doubles are exact; one that is out of an int's range converts to any
  value, since C leaves it undefined. The exponent of a numeral fits an int.
- `Escapes`: a character is one byte; redeclaring a mark, end marks that are
  not part of the literal and the analysers of a user are left out.
- `UtfSource`: a character is its place in the file with the words it takes
  there and its bytes in UTF-8. Files are well formed up to their end.
- `TokenStream`: texts have a length and no content; a disk that is full stays
  full; the header is one write. `StreamHeader`: a line of the header is one unit.
- `FdFilter`: data is counted in blocks of the simple provider. The filter
  program is external: it passes every block on, or exits with a failure; a
  command that cannot be executed runs on as a copy of the caller.
- `SpecFiles`: a text is a sequence of kinds of lines. `SpecHeader`: a line has
  been split into words and its escapes have been resolved. `TokenSpec`: marks
  are declared once.
- `Dump`, `Emission`: a file is the sequence of its parts or lines; layout and
  comments are left out.
- `Printing`: a text and the conversion after it are one step, as are
  registrations; a caller closes only a stream that no context is set to.
- `WideLex`: the analyser below is the list of the tokens left; a text is a
  sequence of characters, each of which a locale can show, or not, or no
  encoding has.

### The callers

The library leaves the order of calls to its caller. `CallerMay` names the
unusual orders. In `LexContext`: pushing a source while a token is put back
(`push_over_ungot`), over a delivered EOF (`push_over_eof`), or over ERR
(`push_over_err`); reading by character after EOF (`getch_over_eof`), or over an
error (`getch_over_err`). In `Ownership`: destroying a stream after a push of it
failed (`destroys_failed`), or pushing a stream on the analyser that only this
stream holds (`borrows_analyser`). In `PushBack`: putting back more than the gap
holds (`overfill`), or a literal (`literal`). Each run says which of them its
caller has, and each theorem which it excludes (section 5).

## 3. The runs

Passing:

- `order` (`LexContext`, 28,944 states): a caller stacks up to two sources over
  the initial context, puts back, dismisses, reads by character, wants EOF or
  not, pushes over EOF and reads on after it. `DeliversInOrder` is the refinement
  of `TokenQueue`: each token once and in order, a token put back first, EOF
  after the last token of its source (again only if the caller pushed over it or
  read on), ERR for ever. `EoiAtBottomOnly` and `FailedSourceNotRead` relate
  contexts before and after calls; `LoopEnds` says
  that a call returns and that a caller that loops, and at last adds no more
  input, gets to EOI or is told of ERR.
- `sources` (589,665 states). `RawFiller`: every text of up to six characters in four
  configurations (comments; literals with escapes; both with the line feed as a
  token and a prepended line; comments at the first column), with a source that
  may fail. Tokens, their order and their lines are those of `PlainLexer`
  whatever the buffers divide, but for the lines behind a mark at the first
  column (`TokensWithLines`); EOF comes only when all was delivered, an error
  only for a reason (`TextEndsTruly`); every text is read to its end
  (`ReadToEnd`). `UtfSource`: UTF-8 and UTF-16 files of up to four characters of
  all widths, cut or failing anywhere. `DecodedInPlace`: characters come whole
  and in order (`InOrder`), and in-place encoding never passes the words still to
  be read nor the end of a buffer (`InPlaceSafe`). What may be missing at EOF is
  exactly the split character of the finding below and an error has a cause
  (`EndsTruly`); a refill returns with what was asked, or at the end
  (`RefillReturns`).
- `replay` (282,730 states). `TokenStream`: all short scripts of prints and
  one-source streams, binary and text, with a disk that may be full at any point
  and buffers smaller than the stream. Tokens, template values, tags and lines
  are replayed in order (`ReplayedInOrder`); EOF is reached only after all, or
  when the caller was told, and complete streams are readable (`EndsTruly`); a
  reader ends (`ReaderEnds`). `StreamHeader`: every header a writer may leave on
  such disks, foreign ones, and raw texts with and without marks, from files and
  from pipes that cut reads: what is opened is what was written, or the caller is
  told (`OpenedAsWritten`). `StreamPush`: after a push with template values the
  variables have their tokens and the stack is as it was but for the stream, or
  the caller is told (`PushTold`).
- `filters` (`FdFilter`): two filters, opened one over the other, with failing
  `pipe` and `fork`, unreadable files, dying or missing commands, closed at any
  time and in any order. No end of a pipe and no child is left, and a failed
  child is reported (`FilterEnds`); reads and closes return (`CallsReturn`).
  The last is conditional: a filter closed while one opened later is still open
  may wait for ever, since the later children inherited its read end (without
  the condition TLC shows the hang). That is why the run does not check for
  deadlock.
- `putback` (`PushBack`, 782,511 states): callers that stay within the gap put back
  tokens, texts, characters and literals, and every byte nobody wrote holds a
  letter. The calls refine `TextQueue` while no context holds a literal put back
  (`DeliversPutBack`); no access through a nil token and no place outside of a
  buffer, with literals too (`NoCrash`).
- `owners` (3,633,946 states). `Ownership`: nothing freed is touched, every count
  is the number of holders when no call is running (`HeldWhileUsed`), and what
  outlives the caller's last call has one of three causes (`LeftOverHasCause`): a
  context was not popped, an output stream could not print its end,
  `uls_push_file` opened a stream it could not push. `WideLex` and `WideTmpls`,
  for programs of four calls: lexemes, names and results told in wide characters
  are the analyser's, and a stream replays the template values the program set,
  with the exceptions of section 6 (`WrappersAgree`).
- `load` (620,647 states). `TokenSpec`, `Dump`: a keyword stays with the token
  its line gave it (`KeywordsKept`); names and numbers lead to one token in every
  table and search (`LookupsAgree`); the destruction frees each token once, of
  loads that failed too, or as often as characters share it (`FreedOnce`);
  constants as written and as compiled are the numbers the analyser returns, and
  each list names each token once (`PrintedMeant`). `Lexemes`, `Values`: keywords
  are found iff they were added, through any order of insertion the frequencies
  make, and the longest mark is taken (`KeywordsFound`); a numeral is read as far
  as its notation goes and with its digits, and its conversions are worth the
  same (`NumeralsMeant`).
- `specification` (615,135 states). `SpecFiles`: headers from the eldest file
  down and then the bodies, each line once; FILEs are closed once, and the ones
  left open are known (`ChainLoaded`). `SpecHeader`: the attributes in force are
  those of the lines read, and those printed are those in force
  (`AttributesHold`); marks are found at the beginning of a text, a keyword's text
  is found to be it (`LoadedIsReachable`). `Escapes`: a literal means what its
  line says, wherever the buffer ends (`LiteralsMeant`). `Emission`: a run that
  reports success has written each file asked for with all of its parts and no
  other file, the constructors of a header are those of the code, and one of the
  two names the specification (`EmittedWhole`).
- `printing` (`Printing`, 43,545 states): a text printed is the meaning of its
  format (`FormatsMeant`); a text lost is told (`LossIsTold`); messages of two
  threads are whole and arrive where the port was, before or after a change
  (`MessagesArrive`); no call hangs (`CallsReturn`).

Runs that find a violation, see 6: `utf8_lost` (`CompleteAtEof` of `UtfSource`);
`putback_lost` (`PutBackIsNext`: the caller of `order` that also pushes over a
token put back); `putback_literal` (`PutBackFirst`: the caller of `putback`,
without the exception of literals). What they refute, the runs `order` and
`putback` show to hold once that one habit of the caller is taken away.

## 4. Bounds and fairness

| Run | Bounds | Why they are enough |
|---|---|---|
| `order`, `putback_lost` | `MaxDepth = 3`, five sources of at most three chunks | pops and pushes look at the current context and the one below; three levels have an initial, a middle and a top one, and a call can pop two. The sources have an empty one, a failure at once and later, a literal and a lexeme in error |
| `sources` | texts: `MaxLen = 6`, `BufSiz = 3`, `Surplus = 2`, `RoughSize = 2`, `LexsegsMax = 2`; files: `MaxChars = 4`, buffers of 6 words and 8 bytes, requests of 1, 3 and 5 | every mark (two characters) meets the end of the buffer, of a fill and of the table at each of its positions; a text is several buffers long. One character can need half of the decoder's buffer, so each remainder 0 to 3 meets each width; four characters fill it twice |
| `replay` | streams: three calls or tokens, `FlushAt = 45`, `BufSiz = 36`, six sizes of disk; headers: magic of 5 units, 6 lines, blocks of 2, six sizes of disk, pipes cut at seven places; pushes: room for two or three variables | a flush falls between, after and inside groups of packets, a packet can be larger than the reader's first buffer, and the disk ends in the header, the text and between packets; a header has no block, one, and one and a half of renamings; a list has a variable too many |
| `filters` | `N = 2`, `PipeSiz = 1`, seven inputs | two are needed for inherited ends; three blocks are more than a pipe and the block the filter holds, so that writers block |
| `putback`, `putback_literal` | `Gap = 3`, `SegMax = 3`, `MaxPuts = 3`, `Fresh` a letter | the gap is used up by one, two or three calls; a third slot makes the table of segments move; a byte nobody wrote shows when it is read |
| `owners` | two analysers, two input streams, one output stream, `MaxDepth = 2`; `MaxCalls = 4` of a wide program, `MaxTmplCalls = 4` on a list | two of a kind can hold each other in both orders; one context can lie below another; a value is set, set again or reset, exported and read |
| `load` | specifications: three lines, two names, words and characters, the numbers -1 (a reserved token's) and 2 (a character's, and one the numbering comes to) or none, `Section = 10`; lines of text of up to five characters, numerals of up to nine digits of five radices, `Bits32 = 6`, `Bits64 = 8`, three buckets | a third line can undo what two did; a clash needs two of a kind. Codes of characters are numbers the numbering reaches. A prefix, two digits, a separator and a suffix fit; numerals pass both widths; four words in three buckets collide |
| `specification` | files: three names, two search paths, six texts; header: three lines of about fifty, among them ranges of codes that end at, hold or pass a code that may not be in a word, twenty keywords, `MarkMax = 6`, tables of two; escapes: ten lines, `CharMax = 2`, hexadecimal and octal escapes of two digits, `\u` of three, `\U` of four; emission: every combination of the options, two lines of renaming, four sets of files that exist | a chain has a child, a parent and a grandparent; an attribute is set, set again and refused, tables overflow with the third line; every escape is cut by the buffer at each place |
| `printing` | `IntBits = 8`, `LongBits = 12`, names of up to three characters, streams with room for 60, 3 and 2 characters, two threads with one program each of twelve | a number has as many digits as there are flags to tell apart; a stream is full before, in and after a message; a change of ports is two halves of one call, so one call of each thread meets it everywhere |

Constants of the code that the instances make small: 256 bytes of gap, 4 bytes
of a character, 32 and 64 bits, marks of 15 characters, tables of 8 and more,
blocks of 512 bytes.

Fairness is that of one thread and of a scheduler. In `LexContext` a call that
has begun goes on (`WF(GetTokLoop)`); `LoopSpec` adds a caller that calls
`uls_get_tok` again (`WF(GetTokCall)`), as the loops of all tools do. In
`RawFiller` a reader wants all tokens (`WF(Next)`); in `UtfSource` a call goes on
(`WF(InCall)`) and the caller need not call; in `TokenStream` the reader reads
(`WF(Read)`) and the writer need not write. In `FdFilter` a call of the parent
and each child are scheduled (weak fairness each), the filter program goes on
when it can, and the parent need not make its next call. In `Printing` each
thread is scheduled; a mutex that is free is taken by a thread that waits. The
other modules state no fairness: they have no liveness properties.

Runs without a check for deadlock (`CHECK_DEADLOCK FALSE`) are those whose
system stops: a text has been read, a program of calls or a load is over. In
`printing`, a hang is what `CallsReturn` excludes.

## 5. What is proved

Seven modules of proofs are checked by TLAPS, for every value of the constants
their assumptions allow: any alphabet, number, size, depth and length of
behaviour. Each states an inductive invariant `IInv` (TLC checked it, or one
equivalent to it, on the instance of the run first), proves that `Init` implies
it and that every action keeps it, one lemma for each action or operator, and
draws the properties from it.

| Module | Theorem | Property of the runs |
|---|---|---|
| `LexContext_proofs` | `Typing`, `EoiAtBottom`, `ReturnedCurrent`, `FailedNotRead` | `EoiAtBottomOnly`, `FailedSourceNotRead` |
| | `QueueRefined`, if `CarefulCaller` | `DeliversInOrder` |
| `UtfSource_proofs` | `DecodedInPlaceHolds`, `EndsTrulyHolds` | `DecodedInPlace`, `EndsTruly` |
| `FdFilter_proofs` | `Typing`, `FilterEndsHolds` | `FilterEnds` |
| `PushBack_proofs` | `NoCrashHolds`, if `"overfill" \notin CallerMay` | `NoCrash` |
| | `PutBackDelivered`, if `CarefulCaller` | `PutBackFirst`, `DeliversPutBack` |
| `Ownership_proofs` | `HeldWhileUsedHolds`, `LeftOverHasCauseHolds`, if `CarefulCaller` (`CallerMay = {}`) | `HeldWhileUsed`, `LeftOverHasCause` |
| `TokenSpec_proofs` | `KeywordsKeptHolds`, `LookupsAgreeHolds`, `FreedOnceHolds` | `KeywordsKept`, `LookupsAgree`, `FreedOnce` |
| `Printing_proofs` | `MessagesArriveHolds` | `MessagesArrive` |

**The analyser's stack** (assumption `ConstantsOK`). `EoiAtBottomOnly` alone is
not inductive: that a source context never carries EOI needs that only
`make_eoi_lexeme` sets it, that it is called in the initial context only, and
that units of text do not carry it; that the initial context has no text needs
that `uls_fillbuff` and the character calls keep an empty context empty. `IInv`
is therefore `Good(stack)` (a non-empty sequence of contexts with the initial one
at the bottom and only there, EOI only there, and nothing to read there) with the
types of `pc` and `ret`. The action properties compare contexts by their distance
from the bottom, so each proof says how an action moves the contexts
(`SetContextEffect` and its like) and what it changes in the one that is current.

*The refinement of `TokenQueue`.* `QueueRefined` maps the stack to one queue: the
tokens to come of the current context, then EOF if it is wanted, then those of
the context below. Its hypothesis `CarefulCaller` is that `CallerMay` has at most
`push_over_eof` and `getch_over_eof`, the caller of the run; with each of the
others TLC shows that tokens are lost or come twice. The stronger invariant
`RInv` says that a stack between calls is settled (`SettledStack`), that the
current context is fresh while `pc = "get_tok"`, and `ReturnedIsCurrent`. The
proof has three layers: what a call does to the tokens of the one context it
works on; what that does to the flattened stack; and which step of `TokenQueue`
(or a stutter) this is. The flattening of a sequence of sequences is a recursive
function over data; that two flattenings agree is shown by least counterexample,
which needs only that a non-empty set of naturals has a least element
(`Flattening`).

**The decoder** (`FilesOK`, `BufsOK`). `IInv` is `Typed` with `Words` (the words
read ahead are those of the next characters, and fit in their buffer), `Text`
(what the reader took and what lies in the raw buffer are the bytes of the first
characters, in order and whole), `Room` (whenever the raw buffer is encoded in
place, the bytes fit) and `Ended` (the flag EOF is set only when the decoder was
short of words). In-place encoding is safe since a character takes at most
`ChMax` bytes and a decoded word `WchSiz >= ChMax`, so the end of what is written
never passes the word that is read next. `EndsTruly` is exact about the loss of
section 6: it is the character kept in `wch_buffered` and fewer words than one
character can have.

**Filters** (`InputsOK`). For every filter `f` the invariant says which ends of
pipes the parent (`CallInv`, `ParentEnds`) and every living child (`ChildInv`,
`ChildEnds`) hold at each point of each call, the inherited ones of filters
opened earlier included; that blocks are conserved between file, pipes and reader
(`Conserved`); that EOF, once read, stays (`EofInv`); and what is known of exits
and results (`ExitInv`, `RcInv`, `JoinInv`). `FilterEnds` needs all of them: a
result of 0 is trusted only if each child that was waited for ended well, and that
a filter which ended well left no block behind needs that the last end to write
to it was closed, hence who holds which.

**Push-back** (`PushBackConstants`, `TokensDiffer`, `SourcesFilled`). `IInv` is
that no access went astray, and of each context `Places` (line, `lptr`, end and
offsets lie in the buffer, and the line ends with a NUL), `Segments` (the segment
of every slot still to come has a NUL outside of the line, where text is put, and
below the end of what is used, where room is made), `HasLiterals` (every slot but
the last holds a literal) and that EOF is only current where it is wanted. `Segments`
is what the code relies on in silence: `uls_unget_str` moves the end of
the line and reuses the slots, and only what lies below `zlen` survives an
allocation. The hypothesis that the caller does not overfill the gap is needed:
with that habit TLC finds a segment without a token. Literals may be put back.

The refinement of `TextQueue` maps a stack to the text it stands for (`ToCome`: of
each context from the top the text at hand, the literals and segments behind it, the
blank a drained context ends words with, its EOF) and needs a second invariant,
`Ordered`. Of a context `Neat` says where its text ends and begins: the line has no
NUL before its end; characters and NULs are all that is in memory; in a context of
put-back text each segment read later ends at or below the start of every segment
read before it, so text written to the gap reaches none of them; a token of the end
is kept only where nothing is left. Of neighbours in the stack `Link` says that no
word goes on from one into the other, which is why text put back is followed by the
rest of the word at hand or by a blank. Each operator has a lemma on what it does to
`Coming` of a context, each call one on `ToCome`, and each step is then shown to be
a step of the queue or a stutter: a push-back writes in front of the sequence
whether it fills the gap, moves the rest of the word into a segment or opens a
context, and a round of the scanner takes the item that is first. `CarefulCaller`
is a caller with neither habit over sources of which each above the lowest
announces its EOF (`EofsWanted`), since the mapping would else read two words with
the end of a source between them as one. What is in memory nobody wrote is not
assumed: without a literal put back, nobody reads it.

**Ownership** (`OwnershipConstants`). Between two calls a count is the number of
holders; within a call it is not. `Holding` therefore counts the caller, the
contexts, the analysers bound to streams, *and* the steps in `todo` that will
give a reference back; `Order` says in which order such steps can stand, so that
a release never waits in front of a step that still uses its object; `Root` says
what the outermost steps of a call are, and what they may rely on. With either habit of `CallerMay` TLC
finds a freed object touched: these are the errors of section 6.

**Loading tokens** (`TokenSpecAssumption`). `IInv` has `Listing` (the array lists
each live token once, the reserved ones first), `Owned` (aliases, extra names and
keywords have one owner, which is live), `Keywords`, `Apart` (a
name is borne once), `Numbering` (a number stands for one token, which is a
character's when the number is its code), `Uld` (the part of the array that a
`.uld` line is searched in is in order), `NumbersLead` and `Counted` (how often a token is
released: once, or by each character that shares it, or, after a load that stopped,
not at all when neither table holds it). Sorting is a
permutation by rank, which the proof inverts; after a `.uld` the code compares
neighbours of the sorted array only, and a lemma says that then all differ. The binary search of
`uls_find_tokdef_vx` is shown to find what is there by least counterexample on the
size of its interval; its recursive function exists since it is built level by
level. Equal keys come in any order from the code's heap sort; the model keeps
them as they stand, and no property depends on it.

**Messages** (`PrintingConstants`, `ProgramsAreOrderly`: the calls of a program
fit their ports, conversions of a console section stand inside one, and a stream
is closed after the last call that names it). `IInv` says which locks each
thread holds at each point of a call (`Locking`), that the pieces of a message at
a port form one block per context (`Texts`), that ports in use are open (`Open`),
where a message in progress is aimed (`Aims`), and that one that strayed met a
change of ports (`StrayHasCause`).

### What stays with TLC

- Liveness (`LoopEnds`, `ReadToEnd`, `RefillReturns`, `ReaderEnds`, `CallsReturn`),
  for which the prover has neither fairness nor `ENABLED`.
- Properties that compare the code with a recursive definition over data, for all
  data: `TokensWithLines` (`PlainLexer`), `NumeralsMeant`, `FormatsMeant`,
  `LossIsTold`, `LiteralsMeant`, `KeywordsFound`, `ReplayedInOrder`. They need
  induction over texts, numbers or streams, and the library's induction theorems
  cannot be instantiated by the installed provers.
- `TextEndsTruly` of `RawFiller`, `EndsTruly` of `TokenStream`, `OpenedAsWritten`, `PushTold`,
  `ChainLoaded`, `AttributesHold`, `LoadedIsReachable`, `EmittedWhole`,
  `PrintedMeant` and `WrappersAgree`: nothing is known against a proof of them,
  and none has been attempted.
- The fairness of `Spec` plays no part in the theorems; `Spec` is named since it
  is what the runs check.

## 6. Where code and documentation disagree, and habits of the code

Shown by a run:

- `utf8_lost`: the last characters of a UTF-8 file are dropped when a character
  does not fit in the rest of the buffer as the file ends (`uls_input.c:511`).
- `putback_lost`: a token put back (`UlsLex.h:564`) is lost when a source is pushed
  over it and ends, and the token after it then comes twice, since the flag is
  still set: `uls_get_tok` looks at `TOKEN_UNGOT` before its loop and not when the
  loop has popped (`uls_core.c:1739`).
- `putback_literal`: a literal put back (`UlsLex.h:565`) is followed by a segment
  that starts at the first byte of a buffer just allocated, which nobody has
  written (`unget.c:146`, `uls_prim.c:1385`; read at `uls_core.c:977`). If it is not
  NUL, text nobody put there is delivered. The same place makes a literal put back
  over pushed-back text spoil it (`unget.c:230`; `tests/line/line.c:177-186` does
  that).

The other properties hold of the code with the exceptions below, which are
conditions of the properties, named there. Without its condition TLC shows each.

Reading:

- `uls_get_ch` on a failed source makes the next `uls_get_tok` spin
  (`uls_core.c:1740`).
- With a comment type at the first column line feeds are not counted
  (`uls_core.c:1022`).
- A literal whose end mark is longer than the longest character, ended near the
  end of the buffer, is told to be unterminated (`uls_input.c:189`,
  `litstr.c:434`).
- More text than the gap holds, pushed back, is read wrongly (`unget.c:179`); the
  callers of the runs do not (`overfill`).
- A mark of several characters takes as much text as the keyword its token was
  declared with (`uls_core.c:945-947`).

Numerals: `uls_lexeme_double` reads a decimal integer without a point in base 16
("12" is 18.0; `uls_num.c:983` promises more); the prefixes of radices 2 and 4
are not understood by some conversions to int; `uls_number_gexpr` gives nothing
for zero, decimal integers and large exponents; "0_x" loses its separator, "08"
is two numerals, "00E5" is not one while "0E5" is.

Streams and processes:

- Streaming a second source drops packets of the first that were printed and not
  flushed (`uls_ostream.c:867`); the text reader makes a token of the header of a
  record whose text is cut (`uls_context.c:150`).
- Of names and tags of several words in a header the reader keeps the first; the
  renumbering of a generated class, which has no `.uld`, is not counted, so its
  lines are not read; a stream whose creation is refused after `TOKEN_REMAP` was
  read leaks the analyser. A pipe whose first reads are short may be taken for raw
  text, a mark at its beginning stays in the text, as in a file read before it was
  opened, and a NUL behind the mark of UTF-16 makes it the mark of UTF-32
  (`uls_istream.c`).
- When the first fill of a template value fails, `uls_push_istream_2` reports it
  with the stream left on the stack; when a later fill does, `make_tokpkt_seqence`
  does not return (`uls_lex.c`, `uls_istream.c:106`).
- A command that cannot be executed leaves the child running as a second copy of
  the caller (`fdfilter.c:342`). `write_uls.c:132` releases an `fdf_t` on its stack
  while a stream on the context stack may point to it.
- When `uls_push_istream` fails after the context was pushed, the stream is gone;
  callers that destroy it touch a freed one (`uls_lex.c:259`;
  `write_uls.c:122-133`, `read_uls.c:168-179`, `examples/tokseq/main.c:103-106`).

Specifications:

- A number changed by a `.uld` line does not reach a quote type, whose token is
  then not found (`uls_core.c:990`; `doc/ulc2class_man.txt:133`).
- A `.ulf` file that is refused, which `doc/ulf_gen_man.txt:40` calls optional,
  leaves of each chain of keywords only the last declared (`uls_core.c:541-551`).
- FILEs of the ancestors stay open when the chain cannot be completed, that of a
  body that is refused, and that of the `.ulf` when the `.uld` is refused
  (`uls_core.c:505-515`).
- A header that a line of tokens ends without `%%` loses this line, and the line
  numbers of messages are then wrong. A specification found as "d:a" cannot
  inherit from "a". The parent of a specification given by path is looked for in
  the search paths only.
- A suffix of numbers with two bad characters is released twice
  (`uls_conf.c:495-507`); suffixes that are too long or find no room are dropped
  in silence. `PREPEND_INPUT` refuses a quoted text that fills its line
  (`uls_conf.c:1481`). `multibytes=false` sets the flag.
- Marks longer than 12 bytes are refused although 15 are meant to fit. A comment
  mark at column 0 can replace another mark that ends like it. A mark hides a
  longer one declared after it. Two literals whose marks begin with the same
  character need numbers of their own.
- The number of a quote type without a name is compared with those of the other
  quote types only, so it may be a reserved token's (`uls_conf.c:877-890`).
- Keywords no text can reach are accepted: with a mark inside, beginning like an
  identifier or a number ("end-if", ".5"), in lower case where case does not
  matter.
- An adder for a digit that is hexadecimal in both cases adds what follows to that
  first digit without shifting it (`litstr.c:596`).
- `~u04` of `QUOTE_TYPE` deletes the mapping of NUL, an adder list ends at its
  first single-character group, and `verbatim` does not understand the escaped
  line feed although the guide says so.

Dump and emission:

- `ulc2class` ignores the results of what prints the constants and the `.uld`
  lines, so a file may lack them while the tool succeeds; `-l c -n foo` without
  `-e` reads a class name that was not set; `-o foo.hpp` destroys a `foo.h` that
  exists; C ignores `-F`; in C++ and C++/CLI with `-o` and a `.uld` the class is initialised
  with an empty name and no renamings; a specification asked for as "d:a" has
  classes that load "a" (`ulc2class.c`, `uls_emit.c`).
- The YAML document leaves out the one-character tokens; the list of names prints
  a nil pointer as the keyword of an alias whose token has none (`uls_dump.c`).

Wide characters and C++:

- A wide text that cannot be encoded is not pushed, but the call reports success
  and sets the wish for EOF of the context beneath; `uls_set_file_wstr` pops before
  it finds that the file cannot be opened; an unget of a text that cannot be
  encoded reports success.
- Calls of the analyser that the shell is not told of (push, pop, reading by
  character) leave the converted lexeme and tag stale; names of tokens are copied
  at creation and do not follow a renaming. A lexeme or tag the locale cannot show
  ends the program; a keyword that it cannot show has an uninitialised text.
- Destroying a shell whose analyser is shared leaks the shell;
  `uls_push_istream_2_wstr` with at least one template releases it twice.
- `uls_set_tmpl_value_wstr` does not reach the list of the core; a value NULL becomes
  the empty text; a name added twice leaves the old value; lists that do not copy
  keep pointers to released texts. `uls_reset_tmpls` keeps the variables while the
  wide reset removes them.
- In C++ `exportTmpls` without copying leaves dangling pointers and drops what
  does not fit, `getValue(char*)` returns the text of a local copy, a narrow
  `setValue` leaves the wide map behind, and a wide one that throws is half done.

Printing: `err_vlog` reads port and function before it locks, and a change sets
the port before it does, so a message can go to a port that was closed; `uls_log`
can only stray between the halves of `uls_log_change`; two changes at once can
leave the port of one with the function of the other (`uls_log.c:182`). The logs
have separate locks and mix on one stream. The result of `fflush` is not looked
at, so a loss on a buffered stream is not told. `uls_snprintf` returns -1 when
the text does not fit. A name set back by nil takes no argument
(`uls_lf_sprintf.c:1427`), and a shorter name hides a longer one that begins with
it.

## 7. What is not modelled

- `fdf_iprovider_filelist` and the splitting of command lines (`fdfilter.c`);
  ECHILD, for a caller that reaps the children itself.
- Analysers of literals that a user installs, literals of multi-byte characters,
  the counts of shared escape maps.
- Aliases of languages (`uls_langs.c`).
- Of the dumps those of the hash table, of the trees of marks and of the syntax
  table, and the verbose listing: they print tables and decide nothing. Of the
  tools the search of `ulf_gen` for frequencies.
- What `%w` does inside: it formats the coordinates of an analyser in the buffers of
  the context of `uls_snprintf`, without its lock (`uls_log.c:48`), and can spoil a
  `%f` another thread is converting there. A conversion is one step of `Printing`.
- Path, string and file helpers, system properties, and the initialisation of the
  library, which are straight-line code; what the models need of them is in the
  module that needs it.
- Of the wrappers the wide printing and logs, the classes of C++ but for
  `UlsTmplList`, Java, and the variants for ANSI and Windows; tests and examples.
  They are callers.

## 8. What is left

In the order of what it would tell:

1. `EndsTruly` of `TokenStream` and `TextEndsTruly` of `RawFiller`, whose invariants speak of sizes and
   flags; `WideAsCore` of `WideLex` and `ChainLoaded` of `SpecFiles`, which have no
   data to induct over.
2. The file-list provider and the caller's `fdf_t` in `FdFilter` and `Ownership`.
3. The rest of the C++ wrapper: the mutex around the console from `openOutput` to
   `closeOutput`, which another thread may release, and streams whose
   construction failed.
