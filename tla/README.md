# cJSON in TLA+

TLA+ models of cJSON (`src/cJSON.c`, `src/cJSON.h`, `src/cJSON_Utils.c`), checked
with TLC on small instances and, for the properties that matter most, proved with
TLAPS for every instance.  Line numbers below are those of the files in `src/`.

cJSON is a single-threaded library.  Nothing is persisted and nothing happens
between two calls, so its difficulties are not crashes or lost messages.  They
are: a linked structure with shared parts that any sequence of calls may change;
ownership of memory when one step of several fails; offsets into buffers at
their ends; a recursion that must undo what it did; functions that rely on what other
functions left behind; and three RFCs that its utilities have to agree with.

## 1. The parts of the system

| part | code | state | operations | what makes it correct |
|---|---|---|---|---|
| item lists | cJSON.c:241-276, 1907-2601 | the heap of `cJSON` items: `next`, `prev`, `child`, `type`, `string`, `valuestring` | create, add, add references, insert, detach, delete, replace | every list is linked both ways and closed by the `prev` of its first item; one owner per item; nothing leaks, dangles or is freed twice, even if an allocation fails |
| sorting | cJSON_Utils.c:83-109, 484-602, 1311-1319 | the same heap | `cJSONUtils_SortObject`, and what calls `sort_object`: generating patches, comparing | keeps the members, orders them, leaves a list |
| parser | cJSON.c:289-304, 1084-1219, 1363-1415, 1492-1587, 1652-1767 | `parse_buffer`: content, length, offset, depth; the recursion | `cJSON_ParseWithLengthOpts` and its shorter forms | the result is what the text says; rejects only what is no text; reads in the buffer; frees everything on failure; points at the error |
| printer | cJSON.c:473-658, 949-1075, 1234-1360, 1418-1489, 1590-1649, 1770-1881 | `printbuffer`: block, length, offset, depth, flags; the recursion | `cJSON_Print`, `PrintUnformatted`, `PrintBuffered`, `PrintPreallocated` | writes in the block; text is the JSON of the item; every block has one owner at the end |
| strings | cJSON.c:661-946, 949-1068 | pointers into the input and the output | escapes, UTF-16 to UTF-8 and back | output fits its estimate; bad input is refused; what is printed is read again |
| numbers | cJSON.c:307-425, 590-658 | none (pure) | `strtod`, `sprintf` | round trip |
| duplicate | cJSON.c:2769-2865 | the heap | `cJSON_Duplicate` | a copy that shares nothing, or nothing at all |
| minify | cJSON.c:2860-2955 | two pointers into one buffer | `cJSON_Minify` | drops white space and comments, nothing else; writes nothing before it is read; ends |
| compare | cJSON.c:3057-3180 | none (pure) | `cJSON_Compare` | equality up to the order of members |
| process-wide state | cJSON.c:88-96, 157-238 | `global_error`, `global_hooks` | `cJSON_InitHooks`, `cJSON_GetErrorPtr` | the error is the one of the last call |
| JSON pointers | cJSON_Utils.c:120-346 | none (pure) | find, encode, decode | RFC 6901 |
| JSON patches | cJSON_Utils.c:604-1279 | the heap | apply, generate, test | RFC 6902; applying what was generated gives the target |
| merge patches | cJSON_Utils.c:1321-1481 | the heap | apply, generate | RFC 7396 |
| values, predicates | cJSON.c:408-470, 2957-3055 | one field each | `cJSON_Is*`, setters | - |
| tests, fuzzers, Unity, example, build | `src/tests`, `src/fuzzing`, `src/test.c`, ... | - | - | not part of the library |

How they interact: by calls and by the shared heap.  The parser and the printer
use the lists only through `next`, `child` and `head->prev`; patches and merge
patches call sorting, duplicating, comparing and the list functions; everything
allocates through `global_hooks`, and any allocation may fail.

`PROJECT.json` has the same parts under `components`, with what is modelled of
each, and the hazards of the code, line by line, with the properties that would
catch them.

## 2. The modules

| module | models | kind |
|---|---|---|
| `ItemLinks` | the heap, and each list function as an operator from heap to heap | data structure |
| `ItemTree` | a client that calls them in any order | state machine, EXTENDS `ItemLinks` |
| `JsonForest` | what the calls promise, with sequences instead of pointers | abstract specification |
| `ItemForest` | `ItemTree` as an implementation of `JsonForest`: the lists its pointers stand for | refinement mapping, EXTENDS `ItemTree` |
| `Copying` | `cJSON_Duplicate` beside them, every allocation of which may fail | state machine, EXTENDS `ItemTree` |
| `MCItemTree` | instances of the three | model checking |
| `ItemLinksProofs`, `ItemTreeProofs`, `ForestProofs` | proofs of invariance, for clients that copy too, and of the refinement | TLAPS |
| `ObjectSort`, `MCObjectSort` | `sort_list`, `sort_object`, on the heap of `ItemLinks` | state machine, model checking |
| `SortProofs` | proofs of invariance and of what a sort does | TLAPS |
| `Printer` | the printer | state machine |
| `PrintedText`, `MCPrinter` | the JSON text it has to print, for items that are trees | functions on trees, EXTENDS `Printer`, model checking |
| `PrinterProofs` | invariance proofs | TLAPS |
| `Parser` | the parser | state machine |
| `ParsedText`, `MCParser` | the JSON text of a value and the text a buffer shows; the set of values whose texts have up to a number of symbols, to judge by what is refused | functions on values, EXTENDS `Parser`, model checking |
| `ParserProofs` | invariance proofs; what is returned is what the text says, and no text is refused | TLAPS |
| `Chars`, `Minify` | the character codes; `cJSON_Minify` | state machine |
| `Strings` | `parse_string`, the UTF-16 functions, `print_string_ptr` | state machine and operators |
| `Texts` | a client that prints, minifies and parses one text | composition of `Minify` and `Strings` |
| `MinifiedText`, `MCTexts` | the pieces of a text and what minifying has to leave of them; the grammar of strings to judge by | operators, EXTENDS `Texts`, model checking |
| `TextsProofs` | invariance proofs for each machine alone and for the client; what is printed is read again, and what minifying leaves | TLAPS |
| `Pointers` | the texts of JSON pointers | operators on byte sequences |
| `JsonValues` | documents as values: lists, sorting, comparing, copying, looking up | operators |
| `Patches` | patches and merge patches, applying and generating | operators |
| `Documents`, `MCDocuments` | a client that calls them in any order; RFC 6901, 6902 and 7396 to judge by | state machine, model checking |
| `LeastNumber` | the induction principle the proofs use, and what it gives for recursive functions | TLAPS |

`ItemTree` and `ObjectSort` are composed over the one heap of `ItemLinks`;
`ItemForest` composes `ItemTree` with `JsonForest` by a refinement mapping, which
`MCItemTree` takes for `Copying` as well.
`Texts` composes `Minify` and `Strings` over one text.  `Documents` is linked to
the heap models in two places: a list function on values is what `ItemTree`
shows the one on pointers to do, and the one pointer that a list of values does
not determine, the `prev` of its first item after a sort, is described by
`FirstPrevAfterSort`, which `SortProofs` proves of `ObjectSort` on the heap.
The operators named `...Without...`, `...Forget` and so on under a comment
"Mutant:" are wrong variants of the definition that follows them.  They are not
used by any specification; `PROJECT.json` says which property tells each of them
from the code.

### Item lists (`ItemLinks`, `ItemTree`)

A heap is a record: the items in use (`live`), the fields of each, and the
number of strings allocated (`strings`).  Freeing an item clears its fields, so
that a pointer to it is a pointer to something outside `live`, and freeing it
twice or freeing a foreign string makes the count wrong.  A list function is an
operator with the name of the C function; it takes the heap, the arguments and,
for each allocation in it, the address or the outcome, and returns a heap and a
value.  Names of members are model values with a case folding `lower`.  Whether
an item has a `valuestring` is one bit; nothing the functions do depends on the
string or number in it.

`ItemTree` has one action per function of cJSON.h (families that differ in the
value they create, like `cJSON_AddNullToObject`, are one).  A call is one step:
the library keeps nothing of its own between calls and nothing calls back.  The
guards are what README.md:228-275 asks of a client: it deletes and gives away
only roots it owns (`held`), puts no item below itself, does not change a list
through a reference, and deletes nothing a reference still shows.  Calls that
the code refuses (an item added to itself, an index behind the end, a name that
is not there) are included.

### Copying (`Copying`)

`cJSON_Duplicate` goes from heap to heap and is granted a sequence of free
addresses and a number of strings; with both arbitrary, it fails at every one of
its allocations, and at the limit of the depth.  `CopyChildren` is the loop of
`cJSON_Duplicate_rec` and what follows it, a recursive function of where the loop
is: what has been made, the last copy, the child that is next, and the depth.  The text and the key are copied in
the order of the code, copies are linked one by one, and the `prev` of the first
is set when the loop ends.  A copy of a reference is none, and what the reference
shows is copied too.

### Sorting (`ObjectSort`)

`sort_list` is followed as a recursion on sequences of items; everything it
writes into `next` and `prev` is kept in the heap, the `prev` of the first item
included, which it does not restore.

### Printer (`Printer`)

The recursion of `print_value` is a stack `todo` of what is left to print; a step
asks `ensure` for room, with an allocator that may refuse, and writes one piece.
The buffer is a record with the fields of `printbuffer`; the text in it is a
sequence of symbols and a count of bytes.  The state also says what lies behind
`offset` (`tail`, the `strlen` that `update_offset` will take), whether a NUL
ends the text, where the last write ended (`reach`), whether the hooks have a
`realloc` (`reallocate`), and, if they have not, how many bytes the last growth
copied out of a block of which length (`copied`).

`PrintedText` says, without looking at the steps, what the text of an item is: a
`Part`, which is a sequence of symbols and the bytes they stand for, put together
from the parts of its elements or members by a recursive function (`JsonText`)
of item, format and depth.  White space is part of it.

### Parser (`Parser`)

An input is a sequence of symbols: brackets, comma, colon, number or literal,
string, start of a malformed string, white space, NUL, byte order mark.  The
recursion is a stack of frames, one per list that is being built, each with the
values parsed so far and the number of blocks that deleting it frees.  `pc` says
where the parser is: in front of a value, in front of an element (the position
it steps back to), at the name of a member, behind a value, failing.  Failing
takes one step per level, as the labels `fail:` of the code do.

`ParsedText` says what there is to read: the values in which no more than
`NestingLimit` lists are in each other (`Values`), the text of each of them with the
number of blocks it owns (`JsonText`), and the text that the first characters of a
buffer show without white space and byte order mark (`Shown`).  `Judged` is a
parameter, the values whose texts the parser must not refuse: a run takes those up
to a size, the theorem any.

### Minify, strings and texts (`Minify`, `Strings`, `Texts`)

Characters are bytes.  `cJSON_Minify` is a machine whose `inside` says in which
loop it is and whose every step is one round of that loop, on the block `text`
that it reads at `json` and writes at `into`; `before` is the block as it was.
`parse_string` is a machine in three stages: the scan for the closing quote that
collects the backslashes it skips (`skipped_bytes` is their number), the
allocation, which may be refused, and the decoding, one character or escape a
step.  `utf16_literal_to_utf8`, `parse_hex4` and `print_string_ptr` are operators;
the last one cuts its output where the length computed beforehand ends.
`Texts` lets a client have a text, or print one, minify it or not, and parse the
string at its beginning, with and without the NUL in the buffer.
`MinifiedText` says what has to be left of a text: a `Piece` is a white space, a
comment, a string or another character, and `Left` of it nothing or itself.  `Cuts`
is a parameter, the sequences of pieces that texts are judged by: a run takes
those up to a number, the theorem any.  A string that ends in an escaped backslash
is no piece, as the code takes its quote for an escaped one (the finding of
`minify_string`).

### Pointers, patches and merge patches (`Pointers`, `JsonValues`, `Patches`, `Documents`)

A document is an item with the sequence of its children; items are designated by
paths of positions.  `tail` is the position the `prev` of the first child points
to, 0 for NULL and `Stale` for an item that has gone.  List functions, sorting and
comparing are operators that take over from the code what they do to `tail` and,
in the case of `compare_json`, `create_patches` and `generate_merge_patch`, that
they sort what they are given.  The texts of pointers and names are bytes, and
`decode_pointer_inplace`, `compare_pointers` and the array index work on them as
the code does; an index is taken modulo `SizeCount`, the number of values of a
`size_t`.  `apply_patch` has one operator for each part of it and returns the
code's own status numbers; `refused` names the allocation that fails.  `Let` is an
operator that works a value out once.

`Documents` has one action per function of cJSON_Utils.h, and `cJSON_Duplicate`
and `cJSON_Compare`.  `call` keeps the arguments and the result of the last call,
for the properties to compare.

## 3. What TLC checks

| run | properties | bounds |
|---|---|---|
| `item_tree` (`MCItemTree.cfg`) | `TypeOK`, `ListShape`, `Ownership`, `NoDangling`, `NothingLeaks` | 3 items, 2 names that differ in case, lists of up to 2, all flags |
| `item_forest` (`MCItemForest.cfg`) | `ListShape`, `NothingLeaks`, `IndexIsPlace`, `ForestSpec` | with `Duplicate`; 4 items, 1 name, lists of up to 3, no texts, copies of up to two levels |
| `reference_key_leak` (`MCReferenceKey.cfg`) | `NothingLeaks` is violated | as `item_tree`, and the key of a reference may fail to be copied |
| `object_sort` (`MCObjectSort.cfg`) | `Ordered`, `LinkedFromSecond`, `KeepsMembers` | all objects of up to 4 members over 5 names, any number of sorts |
| `sort_first_prev` (`MCSortFirstPrev.cfg`) | `FirstPrevIsLast` is violated | the same |
| `printer` (`MCPrinter.cfg`) | `TypeOK`, `InBlock`, `BlocksReturned`, `TextIsPrinted`, `SlackSuffices` | 11 items, every size of buffer from 0 to `IntMax` = 44, with and without `realloc` |
| `prebuffer_zero` (`MCPrebufferZero.cfg`) | `OldBufferIsCopied` is violated | the same |
| `parser` (`MCParser.cfg`) | `TypeOK`, `ReadsInBuffer`, `Nested`, `NothingLeaks`, `ResultIsText`, `RejectsOnlyBad`, `ErrorPosition` | buffers of up to 4 arbitrary symbols; texts of up to 9 symbols and 3 levels, which are those of the values in `Judged`, spoilt in one place or too deep |
| `texts` (`MCTexts.cfg`) | `InPlace`, `OutputFits`, `StringsDecode`, `PrintedComesBack`, `MinifyKeeps`, `Returns` | texts of up to 3 pieces, 400 strings that are printed |
| `minify_string` (`MCMinifyString.cfg`) | `ModifiesNoString` is violated | arrays of two strings |
| `documents` (`MCDocuments.cfg`) | `PatchFollowsRfc`, `FailureOnlyRemoves`, `PatchesLead`, `MergeFollowsRfc`, `MergePatchLeads`, `PointersFollowRfc`, `FindLeadsBack`, `ComparesAgree`, `CopyIsClosed`, `OnlySortingOpens` | 19 documents, 482 patches, 42 pointers, `SizeCount` = 64, 3 calls |
| `pointer_escape` (`MCPointerEscape.cfg`) | `AddedIsFound` is violated | the same, 2 calls |

Why the bounds suffice.

* Lists: what the functions distinguish is the first, the last, the only and
  an inner element.  Four items give a container with three elements, so an
  inner one with neighbours, and a replacement or a second container.  Three
  items with all flags, names and references give a reference to a list, a name
  that is found only without case, a constant name that is renamed.  Items are
  interchangeable, so `SYMMETRY` is used.
* Sorting: four members give halves of two, two members in a merge when one half
  is used up, and equal names in both modes.
* Printer: the items are chosen so that every piece is printed, at depth 0 to 3;
  sizes from 0 past the largest text mean that each `ensure` is once the one that
  just fits and once the one that just does not.  `IntMax` = 44 is less than the
  largest text needs, so that the limit is met, and enough for the others, some of
  which make the buffer grow by doubling and some by jumping to the limit.
* Parser: every text of up to nine symbols, including two members, nested lists
  and lists that are too deep for `NestingLimit` = 2, is spoilt in every place by
  every symbol; `MaxText` = 13 is the length to which the beginnings of texts are
  known to the grammar, four more than the longest spoilt text, enough to close
  what is open at any place in it.
* Copying: four items are a root with one child and their copies, or a root with
  two children and a copy that fails at the second item.  A finished copy of two
  children takes six, one that fails with a child linked already five; these are
  covered by the proofs only (`Lists` and `NoLeaks`, section 4).
* Indices of lists: with four items an index is in front of, behind or inside a
  list of two while there is another root to insert or to put in its place.
* Texts: the pieces are the characters that some function treats specially and
  one that none does, escapes whole and cut off, halves of surrogate pairs, each
  kind of comment; three pieces put every one of them between any two.  Texts
  that end inside a comment, a string or behind a slash come on their own.
* Documents: objects whose members are sorted or not, nested, with names that need
  escapes, that are empty or that differ in case only; arrays of nought to three
  elements and one of 22, for the least index with a character above `9` behind a digit
  is 20 (`/1:`), and with `SizeCount` = 64 an index of two digits wraps to one inside or
  behind that array; values that are deeper than `CircularLimit` = 2.  Patches are all
  combinations of operations with paths that exist, do not, are the whole document
  or are no index.  Three calls let one that sorts come before a patch, and two
  patches follow each other; what is parsed is always used by a later call.

Deadlock is checked in the runs of `Parser` (whose `Returned` step lets a call
that has returned stand) and `ObjectSort`.  It is not checked for `ItemTree`,
where a client may have nothing left that it is allowed to do, and for
`Printer`, whose behaviour ends when the call returns.

`TextsSpec` assumes weak fairness of the steps inside a call, `MinifyOn` and
`ReadText`: the code is single-threaded and waits for nobody, so a call that has
begun takes its next step.  That the client makes any call is not assumed.  With
it `Returns` says that minifying and parsing end, whatever the text.  The other
specifications state safety only: the calls of `ItemTree`, `ObjectSort` and
`Documents` are single steps, and that printing and parsing end is a matter of
there being no deadlock and of a measure that grows with every step (pieces
printed, symbols read).

### What the runs show

* With an allocator that may fail at any call, every sequence of calls that keeps
  to README.md leaves lists linked in both directions, one owner per item, no
  dangling pointer and, once the client deletes its roots, an empty heap.  Every
  call is one step of `JsonForest` or changes nothing.  `JsonForest` leaves open at
  which index an item goes in or out, which `IndexIsPlace` says; what shape a copy has,
  which `CopyIsClosed` says of documents; and the names of members, about which
  nothing but their memory is checked.
* The exception (`reference_key_leak`): `cJSON_AddItemReferenceToObject`
  (cJSON.c:2125-2133) loses the reference it has made if the key cannot be
  copied.  The constant `ReferenceKeyMemory` keeps that one failure out of the
  passing runs.
* `cJSON_Duplicate` keeps all of that, a reference to its own ancestor included:
  it gives a tree of its own, closed lists, or nothing at all.  All of this is also
  proved for any number of items and names (section 4), but for `IndexIsPlace`: that
  an index, counted from 0, is the same place in inserting, replacing and detaching,
  and that inserting past the end appends.
* Sorting keeps and orders the members, but (`sort_first_prev`) the `prev` of
  the first member is not the last member afterwards, as README.md:219-220 says
  and `add_item_to_array` relies on: what is added next is dropped (when that
  `prev` is NULL) or put in the middle, cutting off the rest, while the call
  returns true.
* The printer never writes outside its block, whatever block it begins with, and
  what it returns is the text; one
  byte more than the text and its NUL suffices for `cJSON_PrintPreallocated`,
  where cJSON.h:168 advises five.  All of this is proved for every tree.
* It reads outside its block in one place (`prebuffer_zero`): `ensure` without
  `realloc` copies `offset + 1` bytes (cJSON.c:561), which is one more than there are
  in a block that `cJSON_PrintBuffered` has asked for with a prebuffer of 0
  (cJSON.c:1316).  `InBlock` names this case, and the proof shows that there is no
  other: a block that is not empty always has the byte at `offset`.
* The parser accepts exactly the texts of the grammar, up to the nesting limit,
  and the error pointer is at the offending symbol or one behind it (for a member
  name that is not a string, `parse_string` leaves the offset one behind,
  cJSON.c:940-943).
* Minifying gives back the text without white space and comments; but a string
  that ends in an escaped backslash does not end for `minify_string`
  (`minify_string`): in `["\\\\","//"]` the second string is taken for a comment,
  and so it is if it begins with `/*`, as in the trace of the run.
* Strings are decoded as RFC 8259 and RFC 3629 say and refused if they are none,
  except that `parse_hex4` takes an escape `\u` without four digits for `\u0000`.
  Whatever is swallowed that way, the output fits.  What `print_string_ptr` prints
  is read again as the same string, minified or not; this is proved for every
  string.
* Patches and merge patches do what their RFCs say, and what is generated leads
  from one document to the other, on documents whose lists are closed and apart
  from the cases of section 5.  A patch that fails removes at most what replace
  and move take out first.  Two comparisons, written independently, agree.
* What RFC 6901 designates is found by its pointer.  Something is found where it
  designates nothing, and only then, if an array meets a token that the code takes
  for an index (`TakenForIndex`): one with a digit and characters above `9` behind it,
  for the loop of cJSON_Utils.c:285 looks at `pointer[0]` where it should look at
  `pointer[position]`; an empty one; a number that wraps at 2^64.
* A merge patch that is generated without regard to case, for names in upper and lower
  case whose order is not that of `strcmp`, may lose members that both documents have,
  and nothing else (`LacksCommon`): from `{"a": 1, "B": 2}` to `{"B": 2}` it is
  `{"B": 2, "a": null, "B": null}`.  In all other cases it leads to the target.
* What `decode_pointer_inplace` gets wrong is visible from outside
  (`pointer_escape`): a member added at `/~1` is named `~` and is not found at
  `/~1` afterwards.

## 4. What is proved

All proofs are for every value of the constants that satisfies the assumptions
named in the modules (`ItemAssumption`, `NULLAssumption`, `LowerAssumption`,
`TreeAssumption`, `CircularAssumption`, `SortAssumption`, `PrinterAssumption`,
`HeightAssumption`, `ParserAssumption`, `TextAssumption`, `ValuesAssumption`; TLC
evaluates them in the runs).

* `ItemTreeProofs!Typing`, `Lists` and `NoDanglingPointers`: `CopySpec => []TypeOK`,
  `[]ListShape` and `[]NoDangling`.  `OneOwner` and `NoLeaks`: `CopySpec => []Ownership`
  and `[]NothingLeaks`, if the key of a reference can always be copied
  (`FALSE \notin ReferenceKeyMemory`).  That is no convenience: without it both are
  false, as the run `reference_key_leak` shows, and it is the only failure of the
  allocator that they exclude.
  `CopySpec` is the client that may also call `cJSON_Duplicate`; one that does not
  is a special case (`SpecCopies`).  None of the five is inductive.  The invariant
  `IInv` has two parts.
  - `Linked`: there are a set of roots and a function `owner`, which gives each item
    the container it hangs in or NULL, such that four local conditions hold for
    every item (`WellLinked`): each child pointer leads to an owned item whose
    `prev` is the last; a step along `next` stays with the owner and `prev` undoes
    it; and so on; everything that exists hangs below a root; and (`Claims`) the
    roots are those the client owns, or these and references that have been lost.
  - `Accounts`: there are as many strings as items that own a key or a text, and what
    a reference shows exists.

  `ItemLinksProofs` shows, for each list function, that `WellLinked` is kept (the
  owner of the moved item is changed, the conditions are checked at the few items
  whose pointers change).  That a walk along `next` meets no item twice, ends
  within as many steps as there are items, and ends at the `prev` of the first is
  then derived (`WalkInjective`, `WalkEnds`), by taking the least counterexample,
  because induction theorems with an operator parameter cannot be used.  So is
  `NothingLeaks`, which says of every order of deleting the roots where it ends:
  each deletion keeps the invariant and takes one root away.
  `cJSON_Duplicate` is the one call that works in many rounds and, in the middle,
  has a heap that is not well linked: until its loop ends, the first copy of a list
  does not show the last one, on every level of the recursion.  `CopyOf(h, g, n)`
  says what a finished copy is: `g` is `h` with new items that lead to new ones only
  (`Adds`), all of them below `n` (`HangBelow`), and if `h` is well linked but for
  the `prev` of some items, then `g` is, with `n` as one more root (`Hangs`, which
  speaks of all values these `prev` may have and so can be used on every level).
  `CopyBegun` is the same of a list whose `prev` is still open, and the lemmas
  `LinkBegun` and `CopyDone` say that linking one copy keeps it and that the end of
  the loop makes it a `CopyOf`.  Linking a copy and closing the list is what
  `add_item_to_array` does to a list that is closed (`LinkHangs`).
  A copy that fails is deleted, and `cJSON_Delete` then frees exactly what was added
  (`AddedRemoved`), so that the heap is the one of before.  That the recursive
  function `CopyChildren` has the value of its definition is shown first
  (`CopyChildrenSteps`, by `LeastNumber!Recursion` along the number of addresses that
  are left), and the argument is by the least counterexample along the same number.
* `ForestProofs!ImplementsForest`: `CopySpec => ForestSpec`, under the same
  assumption.  `Kids(h)` reads the lists off the pointers of a heap.  For each list
  function a lemma says what it does to them: `AppendedKids`, `InsertedKids`,
  `DetachedKids`, `DeletedKids`, `ReplacedChild`.  Trees that are created are new, a
  family of their own and leave every other list alone (`Planted`), whether the
  functions that create items made them (`GrownTree`) or `cJSON_Duplicate`
  (`CopyPlanted`).  The families of `JsonForest` are least closed sets, and
  `cJSON_Delete` frees exactly one (`RootFamily`, `ChildFamily`).  With that, one
  lemma per action of `JsonForest` says when a step of `ItemTree` is one
  (`CreateStep`, `GiveStep`, `SwapStep`, ...), and `NextForest` and `DuplicateForest`
  have one case per call.
* `SortProofs!SortedIsOrdered` and `SortKeepsLinks`: `Spec => []Ordered` and
  `[]LinkedFromSecond` of `ObjectSort`; `SortKeepsMembers` and `SortLeavesFirstPrev`:
  the action properties `KeepsMembers` and `FirstPrevAfterSort`.  All four follow
  from `SortInv`: the members that are read along `next` are an object, linked from
  the second one on and with names (`IsObject`), and in the order of the last sort
  (`Sorted`).  The merge and `sort_list` are recursive functions; `MergeUnfolds` and
  `SortUnfolds` show that they have the values of their definitions.  Then
  `MergeMerges` says that a merge of two sorted lists is sorted and has the members
  of both, and `SortSorts` the same of `sort_list` on the heap, with what splitting
  (`SplitStrung`) and relinking (`RelinkedStrung`) do to the links.  That the `prev` of
  the first member is lost is part of it (`FirstPrev`).
* `PrinterProofs!WithinBlock`: `Spec => []InBlock`,
  `PrinterProofs!BlocksAreReturned`: `Spec => []BlocksReturned`, and
  `PrinterProofs!Typing`: `Spec => []TypeOK`.  The invariant
  has, besides the room in the block (`Room`) and the owner of the block
  (`Ledger`), what the stack may contain (`Script`): where a step needs a NUL at
  the end of the text because `update_offset` takes its `strlen`, the step
  before it leaves one; that the byte at `offset` is in the block unless the block
  is empty, and what growing copies with it (`CopiesInvariance`).  The lemmas follow the code: what `ensure` grants
  (`EnsureGivesRoom`), what a piece writes, and one lemma per kind of piece.  For
  the types another invariant goes with it: the depth is at least the number of
  ends of containers that are still to be printed (`Nests`, a function on the
  positions of the stack instead of a recursive count), so that it never becomes
  negative, and no length exceeds `IntMax` (`EnsureNatural`).
* `PrinterProofs!TextOfTree` and `OneByteSuffices`: `Spec => []TextIsPrinted` and
  `[]SlackSuffices`, for every tree (`HeightAssumption`: no item is inside itself,
  for which the recursion of `print_value` would not end, though it may be in several
  lists).  The invariant (`TextInv`) is that the stack will print some part (`Prints`: a function
  from its positions to the texts and depths from there on) which, put behind what
  is in the buffer, is the text of the item (`Progress`).  `JsonTextSteps` says that
  the recursive function has the value its definition says, `ElementsPrint` and
  `MembersPrint` that the steps a list plans print what `JsonText` has between the
  brackets, `PrintsTail` and `PrintsConcat` how steps are taken from the stack and put
  on it.  That no text waits to be counted where a piece is written is `Pauses`: a
  value, a name or an end is followed by a step that calls `update_offset`.  When
  `ensure` refuses (`Refusal`), what was asked for and one byte exceed the limit,
  and the text is at least as long as what was asked for (`PutText`).
* `ParserProofs!Typing`, `ReadsAreInside`, `DepthIsNesting` and
  `FailureFreesAll`: `Spec => []TypeOK`, `[]ReadsInBuffer`, `[]Nested` and
  `[]NothingLeaks`, for buffers of any length.  None of them is inductive: that
  nothing is left after a failure needs that every block allocated so far belongs
  to one frame of the stack.  The invariant says so without a recursive sum: there
  is a function from the frames to numbers (`Owns`) that is 0 below the last
  frame, grows by what each frame owns and is `blocks` at the first.  With it go
  the shape of the stack (the root, and only it, at the bottom) and the bounds of
  the offset.  `Push`, `Pop` and `Grow` say what the stack operations do to
  `Owns`; `Skip`, that white space ends where it begins or later and never behind
  the last symbol, which the step back over one symbol relies on.
* `ParserProofs!ValueOfText`: `Spec => []ResultIsText`, for every buffer, every nesting
  limit and every allocation that fails: what is returned is the value whose text the
  buffer shows in front of `return_parse_end`, and owns exactly the blocks that were
  allocated.  The invariant (`TextInv`) is that what is shown in front of the offset,
  with the blocks allocated so far, is what the frames tell: those below the top one
  its text up to the list that is open (`Tells`, a function on the positions of the
  stack), the top one its text up to where the parser is (`AtValue`, `AtNext`,
  `AtElement`, `AtName`).  `ValuesSteps`, `BegunSteps`, `ShownSteps` and `JsonTextSteps`
  say that the recursive functions have the values their definitions say; `ValueFits`,
  that a value fits into a list as deep as `depth` allows; `Skipped` and `SaidSymbol`,
  what a skip over white space and over one symbol adds to the text.
* `ParserProofs!TextsAreAccepted`: `Spec => []RejectsOnlyBad`, the other direction, for
  every buffer, every nesting limit and every set of values: as long as no allocation
  fails, a buffer that begins with the text of a value nested at most `NestingLimit`
  deep is not refused.  The invariant (`GoalInv`) says, for every end `t` of such a text
  in the buffer (`Wanted`), that the parser has not failed and that what the buffer
  shows between the offset and `t` (`Left`) is what the lists of the stack still expect
  (`Awaits`, again a function on the positions of the stack): the rest of the value,
  name or element it is in front of, then for each list what is left behind the current
  element.  What is left behind each element of a list is a `Plan`; `Grammar` splits a
  text into its first symbol and the plan of its list, `ListGoesOn` says that behind an
  element come a comma and the next or the end.  `NextSymbol` is the step that all
  actions share: the symbol that is next of what is left is the one a skip over white
  space ends at.  That a NUL is found behind the last symbol, although it is skipped as
  white space elsewhere, is `NulIsFound`.
* `TextsProofs!Minifying`: `Spec => []InPlace` of `Minify`, for every text that ends
  in a NUL.  Inductive with it is that the characters from `json` to the end are
  those of `before`, the last of which is a NUL: each step that moves on has read
  something else, and one that moves on by two has read two characters that are not
  NUL.
* `TextsProofs!RoomSuffices`: `StringsSpec => []OutputFits`, for every buffer.
  The decoder does not meet the escapes where the scan has seen them, for an
  escape `\u` without digits may swallow the backslash of the next one.  The
  invariant is that no two skipped backslashes are neighbours (`Marks`), so that of
  `n` characters read at once at most `n / 2`, rounded up, were skipped, and that
  what is written and the skipped characters in front of `input_pointer` are
  together no more than what has been read (`Written`).
* `TextsProofs!LengthIsExact`: the two loops of `print_string_ptr` agree, for every C
  string; the length that the first one counts is the one of what the second writes.
  `Flattened` and `Counted` say what the folds of the model add up to, character
  by character (by `LeastNumber!Recursion`).
* `TextsProofs!TextStaysInPlace`, `TextFits` and `PrintedIsReadBack`:
  `TextsSpec => []InPlace`, `[]OutputFits` and `[]PrintedComesBack`, for a client that
  prints, minifies and parses in any order.  The last one is the round trip of a
  string.  Its invariant (`TextsInv`) follows the printed text through both machines
  by the positions of its escapes (`PrintedAt`): `cJSON_Minify` writes every character
  to where it was (`MinifyPrinted`); the scan is between two escapes or among the
  digits of one, so that it takes no quote inside for the end (`ScanPrinted`); the
  decoder is behind an escape and has written the characters printed up to there
  (`DecodePrinted`).  That the digits of `\u00XX` are read as what was written is
  `Hex4ComesBack`.
* `TextsProofs!KeepsTheRest`: `TextsSpec => []MinifyKeeps`, for texts of any number of
  pieces of any length.  The invariant (`CutsHandled`) is about every way to cut the
  block into pieces (`IsCut`, a function that tells where each piece begins and one
  that tells what is left of those in front of it): the minifier is at the beginning of
  a piece and has written what is left of those before; or it is inside a comment,
  not yet at its end, and has written no more; or inside a string, up to which all has
  been written, and the character that is read is a quote only if the string ends
  there.  `PieceKind` says that the first character tells what a piece is, `ReadsPart`
  what is read of it, and `CutOfJoined` that a text which is put together from pieces can
  be cut into them.
* `LeastNumber!LeastNat`, the least-number principle, serves all of these that
  need an induction.  `LeastNumber!Recursion` is built on it: a definition by recursion
  in which a measure decreases has a solution, so that a recursive function has the
  value that its definition says.  `UpTo` and `RecursionUpTo` are the same for numbers up
  to a bound and definitions that go from each number to the next.

Only model-checked: the properties that compare with a grammar or a text that is
enumerated by recursion (`ErrorPosition`, `StringsDecode`); `IndexIsPlace`;
everything about documents, whose operators are recursive; the liveness property
`Returns`.  Out of the prover's reach are liveness under fairness and `ENABLED`, what
a `RECURSIVE` operator computes for every input, and modules that declare such
operators, which are kept out of the modules proved about: `Pointers`, `JsonValues`,
`Patches` and the MC modules `MCDocuments`, `MCParser` and `MCTexts` have
them, no other module does.

## 5. What is abstracted or left out

### Behaviour that the properties keep apart

The models do what the code does; where that is not what an RFC says, a property
has a condition that names the case.

* `decode_pointer_inplace` (cJSON_Utils.c:367-390): only a last token that comes
  out right (`Unmangled`) is compared with RFC 6902.
* A token that the code takes for an index (`TakenForIndex`) may find an element
  where RFC 6901 has none; no path of a patch has such a token and an array long
  enough for it.  A pointer that does not begin with a slash is the whole document.
* A byte order mark is skipped if two bytes follow it (`Marked`), so that a mark and a
  text of one byte are refused where no NUL is in the buffer, although cJSON.c:1110 says
  "skip the UTF-8 BOM (byte order mark) if it is at the beginning of a buffer".
* `detach_path` looks the last name up without case, also for the functions that
  are case-sensitive (cJSON_Utils.c:466); `NoCaseClash` keeps names apart that
  differ only in case.
* RFC 6902 says that to move is to remove and then to add, and forbids to move a value
  into itself.  The code does the first and has no test for the second, and
  `RfcPatch` follows it: such a move finds no parent and loses the value, or, if the value
  is an element of an array, finds the element that came after it and succeeds.
* A patch that moves or copies to the path of the whole document ends with status 9;
  one that removes the whole document leaves an item of type Invalid (`InReach`).
* `cJSON_AddItemToObject` may fail in `apply_patch` (cJSON_Utils.c:1015), which
  ignores it: the status is 0, the member is missing and the value is lost.  Hence
  `refused = "none"` in `PatchFollowsRfc`.
* `replace` deletes the old value before it knows whether there is a new one
  (`FailureOnlyRemoves`).
* `test`, generating and merge-generating sort and leave the `prev` of the first
  member as `ObjectSort` shows (`OnlySortingOpens`); properties about the call that
  follows assume closed lists (`Sound`).  With a `Stale` one, adding writes to memory
  that has been freed.
* `generate_merge_patch` sorts in the mode it is given, compares names with
  `strcmp`, and ignores case below the first level (`SortedLoosely`, `SameOrder`).  Without a
  difference it returns NULL, which `cJSONUtils_MergePatch` takes for a patch that
  deletes the target.
* `compare_json` and `create_patches` take any two Raw items for equal; the
  documents of the run have none.
* `\u` with fewer than four digits (`Careless`); control characters in a string,
  which the parser accepts.  `\u0000` ends the C string that a reader of
  `valuestring` sees.

### Left out

* Bytes of strings and numbers in `Parser` (one symbol) and `Printer` (a count);
  strings have their own models.  `strtod` and `sprintf` are external, so numbers
  are one symbol: whether their round trip is exact is not checked.
* Process-wide state: `global_error` is the `position` of one call, and
  `global_hooks` does not change.  README.md:570-578 tells clients not to call
  `cJSON_GetErrorPtr` where several threads parse, and `cJSON_InitHooks` only before
  anything else; for a client that keeps to it there is one caller at a time.
* NULL arguments, which every function refuses before it does anything, and
  `cJSON_PrintBuffered` and `print` whose first allocation fails: nothing happens.
* `apply_patch` with a `from` that is no string (its `valuestring` is NULL and is
  read), and the allocations of `compose_patch` and
  `cJSONUtils_FindPointerFromObjectTo`, which the code does not test.
* The tolerance of `compare_double`; two numbers are equal or not.
* `cJSON_Is*`, `cJSON_SetNumberHelper`, `cJSON_SetValuestring`: one test or
  assignment each.
* Tests, fuzzers, Unity, the example and the build files.

## 6. Plan

Done: every part of section 1 that has state, with the runs and theorems above.
Worth proving next: `StringsDecode`, for a grammar that is written without recursion; the pointers, patches and merge patches, whose operators would
have to become recursive functions over documents of bounded depth.  Worth checking
on a larger instance: `Duplicate` on five and six items, whose states are too many
for the closures `cJSON_Delete` is written with.
