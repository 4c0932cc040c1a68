# A verification development for RDBMSImplementation

TLA+ models of the database program in this repository, the TLC runs that
check them on small instances, and the theorems about them that TLAPS proves.

Contents: 1 the system, 2 its components, 3 the plan, 4 the modules, 5 the
runs, 6 fairness, 7 the proofs, 8 disagreements between code and comments,
9 what is not modelled.

## 1. The system

Two programs share this repository.

*The SQL program* is what `SqlParser/compile.sh` builds: a command loop
(`SqlParser/SqlParserMain.c`) reads a line, a recursive-descent parser over a
flex scanner with an undo stack turns it into one of three global structures
(`cdata`, `idata`, `qep`), and `core/` executes it on B+ trees in memory: one tree is the
catalog, and each table has a tree for its schema and one for its records.
Everything is one thread, and nothing is kept between two runs.

*The storage library* is what `low_level_test.cpp` and `list_test.cpp`
exercise: objects in a database file, reached by disk addresses, kept in pages
that are mapped into memory with `MAP_SHARED` and carved into blocks by an
allocator whose meta data live in the pages themselves. It is not linked with
the SQL program yet.

The root `compile.sh` is that of an earlier generation of the SQL program (`Parsers/`,
`core/qplanner.c`, `core/sql_where.c`, ...), which the code of `SqlParser/` has replaced. Its parsers
are whole programs of their own: one reads commands, one evaluates an arithmetic expression. Its query
engine no longer compiles (section 9).

    SqlParserMain -> parsers -> Parser.l (scanner, undo stack)
         |
         +-> sql_create      -> Catalog ----------+
         +-> sql_insert_into -> Catalog (lookup) -+-> BPlusTree, compared by
         +-> qep             -> Catalog (lookup) -+   rdbms_key_comp_fn (sql_utils)
              +-> sql_mexpr_intf -> MathExpressionParser (external)
              +-> sql_io (printing)

    mem (uapi_mem_alloc / free / get_vm_addr)
         +-> mem_allocator (blocks of a page, list of free blocks: glthread)
         +-> pager (page bitmap in the file, mmap, two hash tables) -> disk_io / c-hashtable

    SQLSelectParser.l (earlier main, scanner) -> ExpressionParser -> MExpr -> stack
         +-> SQLSelectParserCFG / SQLCreateParserCFG / SQLInsertIntoParser -> (engine: Tree/avl, c-hashtable)

## 2. The components

| component | state | operations | what is hard | what makes it correct |
|---|---|---|---|---|
| block allocator (`mem_allocator.cpp`) | the block chain in every page, the list of free blocks | init, reinit, deinit of a page; alloc, free | long sequences of splits and merges; `base_address` is stored in the page and goes stale when the page leaves memory; hard internal fragments too small for a block header | chains cover their page without overlap; the list is exactly the free memory; nobody's bytes are handed out twice |
| object memory and pager (`mem.cpp`, `pager.cpp`) | the file (pages, bitmap), the hash tables of mapped pages, the list | alloc, free, address of an object; open, close; swipe in, swipe out | a page leaves and comes back; the process dies between any two steps; calls composed of steps that can fail | objects keep their place until freed; bitmap, hash tables, list and pages agree |
| B+ tree (`BPlusTree.c`) | nodes, keys, leaf chain | insert, modify, delete, query, range query, cursor, destroy | borrowing and merging over levels; the smallest key repeated in the inner nodes; a cursor over a chain that is rewritten | behaves as an ordered map |
| select executor (`qep.c`) | one cursor per table, the row template, the started / finished flags | the nested loop join, driven by two recursive functions | cursors wrap around; a filter rejects all rows; rows left over from an iterator that failed | the accepted combinations, each once, in key order; the query ends |
| catalog, create, insert (`Catalog.c`, `sql_insert_into.c`) | the catalog tree, per table the schema tree, the record tree and the column list | create, insert, lookup, show | one step of several fails; keys compared by `rdbms_key_comp_fn` | unique keys; records that agree with their key; a failed statement changes nothing |
| resolving names (`sql_mexpr_intf.c`, `qep.c` where / asterisk / select init) | the expression trees of the plan | alias substitution, resolution against one or all tables | loops of aliases, half-built plans that are taken down again | every operand is bound to a column of the right table |
| scanner (`Parser.l`) | `curr_ptr`, the undo stack, flex's own position | token, rewind, reset | rewinding over white space; entries and tokens counted apart | position, stack and scanner in step |
| parsers (`Sql*ParserCFG.c`) | the structure being filled, partly, when a parse fails | one function per nonterminal | backtracking that keeps what it wrote | exactly the statements of the grammar in the comments |
| hash table (`c-hashtable/`) | slots with chains of entries, count, load limit, prime index; an iterator with entry, parent and slot | create, insert, search, change, remove, destroy; iterate, advance, remove and search through the iterator | growing that fails, entirely or half way; removing under an iterator | a map; every entry in the chain its hash selects; a walk meets every entry that stays |
| AVL tree (`Tree/avl.c`) | nodes with links and balances; root, first, last, height | insert, lookup, remove, replace, first, last, next, previous | a removal that rotates at several levels; the successor taken from far below | an ordered map; balances are the heights' differences |
| earlier parsers (`Parsers/`) | the syntax tree being built, a position shared with flex | one function per nonterminal, infix to postfix to tree to value, the command loop | conditions and operands that both begin with a bracket; bounded stacks; statements executed before they are known to be well formed | the grammars of the comments; arithmetic |

The other parts are listed in `PROJECT.json` and in section 9.

## 3. The plan

Done in this order, the storage and the execution cores first:

1. `PageBlocks`, `FreeList`, `MemAllocator`, with the abstract `ObjectStore`. Proved.
2. `Mem`: the same blocks under the pager, with crashes. Proved.
3. `BPlusTree`, with the abstract `OrderedMap`. Proved.
4. `Join`, with the abstract `QueryAnswer`. Proved.
5. `Catalog`, with the abstract `Relations`. Proved.
6. `Scanner`, `Parsers`, with the grammars in `Statements`.
7. `QueryPlan`: from a parsed select to one that can be executed. Proved.
8. The libraries: `AvlTree` and `HashTable` with its iterator, against `OrderedMap`. `HashTable` is proved.
9. The earlier parsers: `MathExpr`, `LegacyParsers`, with the grammars and the meaning of
   expressions in `LegacyGrammar`.

Not proved, for the reasons in section 7: `AvlTree`, `Parsers`, `LegacyParsers`, and liveness.

## 4. The modules

**`PageBlocks`** is the layout of one page: a chain is a function from the
offset of a block's `block_meta_data_t` to its fields, and `Split`, `Release`,
`MergeWithNext` and so on are what the functions of `mem_allocator.cpp` do to it.
Bytes handed out are never read by the allocator and have no contents here.

**`FreeList`** is `free_block_list_head`: a sequence of blocks `<<page, offset>>`
and `glthread_priority_insert` with the allocator's comparison.

**`MemAllocator`** has one action per call, and the loops of `allocator_reinit`
and `allocator_deinit`, whose asserts are of interest, go block by block (`walk`). The
caller is as free as the interface allows: any request size, any live object freed, any page
brought in or taken out when no call runs.

**`ObjectStore`** says what an allocator promises: objects lie inside their
page, behind the headers, without overlap; alloc adds one, free removes one,
nothing else moves.

**`Mem`** puts the same pages in a file. `vm_page` and
`allocated_pg_bitmap` are the file and survive `Kill`; `free_block_list` and `mapped`
are the process's memory and do not. A call that takes several steps on the file
(`uapi_mem_alloc` of a new page, `uapi_mem_free` of the last object in a page,
`db_file_close`) is as many actions, so that the process can die between any two; the walks over
the blocks of a page that is swiped in or out write into the file block by block, and go block by block
(`SwipeInStep`, `SwipeOutStep`, and `SwipeInAborts` for the assert in the first of them). `stale`
is a history variable: pages that were mapped when a process died. Undefined behaviour
ends in `proc = "wild"`, from which the model goes nowhere. `mem_mgr_destroy` removes
entries from the hash table it iterates over; the iteration of this hash table works in
practice because it saves what it needs, and it is modelled as taking the pages in any order.

**`BPlusTree`** translates `BPlusTree.c` function by function: `Split`,
`Insert`, `Resort`, `Redistribute`, `Delete`, `Find`, the queries and the cursor are
functions from trees to trees, with the nodes in a function from node ids, and each
interface function is an action. Where the code calls itself, `Find` and the queries are recursive functions over the nodes.
`Insert` and `Split` call each other, as the last thing they do, and so do `Delete` and `Redistribute`: each pair is a loop whose turns
(`Enter` or `Split`, `TakeOut` or `Redistribute`) hand on the tree, the node and whether the other is called, at most once
for each level and once for a new root. What ancestors `Delete` corrects is `Outdated`. `key0` says whether the key that the empty root still
points to was freed: a comparison with freed memory is a nondeterministic choice.

**`AvlTree`** is `Tree/avl.c`. The library writes every case twice, once for each direction; here
the direction is a parameter, and `Tilt`, `Single`, `Double`, `Retrace` and the three ways of unlinking a node are
one operator each. A node is any member of `Node` that is not linked yet; its caller owns it. `avltree_next`, which
the iteration macros of `libtree.h` call, is `Neighbour`. `answers` is an auxiliary variable: what lookups find after each call.

**`HashTable`** is `c-hashtable/`: the chains are sequences, so that the order in which
`hashtable_expand` reverses them shows. Each `malloc` of an insert may fail, alone. When only the
enlargement of the old table succeeds ("plan B"), its `memset` is given the content of a slot that was never written as
its address, and the process is undefined from there. One iterator may be at work; `due` is a history variable, the keys
it has yet to meet. Removing the entry under the iterator and then advancing it, as `mem_mgr_destroy` does, reads
the link of a freed entry (`AdvanceFromFreed`): the old link, or nothing is known. A key is inserted at most once, as the library asks.

**`OrderedMap`** says what an index promises: the B+ tree, the AVL tree and the hash table all implement it.

**`Join`** is `qep_execute_join` and its two recursive iterators,
one action per turn of a loop around `BPlusTree_get_next_record`. `phase` and `table_id`
say which loop runs for which table. The expression trees are an
external library; what a query does with them is data of the query, chosen freely in
`JoinInit`: the rows of each table its own tree lets through, and the combinations the
whole clause accepts. The contract between the two: an accepted combination is made of rows that
pass. Of a query of one table the clause as a whole is not evaluated (`qep.c:527`): what is accepted is what passes.

**`QueryAnswer`** says what a query promises: the smallest row not
printed yet, until none is left. **`LexOrder`** is the order of the rows.

**`Catalog`** has one action per outcome of a statement: `CreateTable`, `CreateExists`,
`CreateWithoutKey`, `CreateAborts`; the same for inserts; `SelectAborts` for the selects that
follow a NULL tree (all others change nothing); `ShowTables`. The B+ trees are the maps that
`BPlusTree` is shown to be: `catalog` is the catalog tree, `schema_table` a function from column names,
`rdbms_table` a set of keys with their records. Keys and records are sequences of bytes, because
`rdbms_key_comp_fn` compares bytes under types that are not theirs: `SameKey` is that
comparison. `NULL` trees are those a create without a primary key leaves behind. IP addresses, which are
numbers of four bytes, and values that compare equal with different bytes (a negative zero)
are left out.

Two auxiliary variables, `statement` and `reply`, hold what the last statement asked, of which table, and what was printed.

**`Relations`** says what the statements promise. Each step is that of one statement about one name: a create makes this table
or takes the name, an insert adds one row to this table, never two with the same primary key, and no other table changes; the
reply says what was done; and the program ends, losing everything, only where `LoseAll` is a disjunct. Two limits
are parameters of the promise and not hidden by it: names are known by `Id`, here their first twelve characters, so that names that begin alike
are one table; and a name whose create was refused for want of a key is a table that is `HalfMade`, which every statement after sees.

**`Scanner`** is `Parser.l` without its regular expressions: a line is a sequence of lexemes with
their lengths, and a parser's state has flex's position, `curr_ptr` and the undo stack, which are three
different things: white space moves all three (a tab moves `curr_ptr` by four characters), a character that begins no token moves
only flex, and a rewind pops entries, moves `curr_ptr` by their lengths and makes flex start again there.

**`Parsers`** has one operator for each nonterminal of `SqlCreateParserCFG.c`, `SqlInsertIntoParserCFG.c` and
`SqlSelectParserCFG.c`, from the parser's state to the parser's state, and one action for each way the loop of `main`
handles a line. An expression is one operand, a logical expression compares two: the expression library
reads them. The nonterminals are built with `Then`, which goes on unless something has failed, and `Ended`, which takes a failed
attempt back to its checkpoint. A string that does not fit its array (`MaxString`, 256 in the program) is refused. Where the code loses
something it has read, the model keeps it aside, so that it can be compared: `built` has every column of a select, with the aggregates that are not entered in its
list, and `aliases` the tables' aliases at the places where they are stored. A write behind an array ends in `wild`, an assert in `aborted`, from which the model goes nowhere.

**`Statements`** holds the grammars of the comments, as far as the parsers are written, as predicates on
sequences of lexemes, without reading or taking back anything, and what each statement says.

**`RecursiveDescent`** is what the macros of `ParserExport.h` make of a parser's function: checkpoint,
success, failure, sequence. `Parsers` and `LegacyParsers` are both written with it.

**`MathExpr`** is `Parsers/MExpr.c` over `stack/stack.c`: infix to postfix, postfix to tree, and the value.
Numbers are integers on which `Computed` does the arithmetic. A `push` takes one element more than there are slots,
which is a write behind the array (`wild`).

**`LegacyParsers`** has the nonterminals of the expression, select, create and insert parsers in `Parsers/`, and one action for each
kind of line in the command loop. Its `main` is one of the two mains of `SQLSelectParser.l`: the preprocessor selects the command loop
(`#if 1`) and has the expression evaluator under `#if 0`; for select, it has `parse_select_query_cfg` in the `#else` branch
of a `switch`. Both alternatives are modelled, because they are the only callers of the grammar's functions. `eax` is what the caller of `F` finds
when `F` ends without a `return`: either result. A line is given as it is typed, and `Scanned` is what flex makes of it: a minus directly before a
number becomes the number's sign, because the rule for numbers is the longer match.

**`LegacyGrammar`** is the reference for it: which sequences of lexemes are statements and expressions, cut at their
outermost operators, commas and keywords, and what they mean, without reading from left to right. It has the grammars as the comments have them.
What the code words differently is in operators of its own: `Reworded` (the two clauses of a select), `Bracketed(rest)` in `ColumnsSaid` (a column behind
another), `InsertBegun` (the values of a line that is no insert).

**`QueryPlan`** is `sql_query_init_execution_plan`, one action per turn of its loops: expanding the
asterisk, replacing aliases, resolving the where clause for each table and as a whole, resolving the columns,
taking the plan down, and the two calls of the expression library that may fail. The catalog finds a table by the first twelve characters of a name
(`Prefix`, `CatalogTable`), the clause compares what the catalog found with the joined tables (`Joined`, `Place`), and its clone for a table compares names
in full (`NamesInFull`). Of an expression tree it keeps the operands, in order; the trees are the library's. `ResolveOperand`
keeps the variables of `sql_resolve_exptree` that outlive a turn of its loop. The initialisers of group by,
having and order by do nothing, as no parser fills these clauses. What `QueryPlan` delivers is what `Join` starts from: that a
combination the whole clause accepts is made of rows the tables' own trees let through needs `PerTableAgrees`, and holds as far as that property goes: an operand that is in the clause but in no clone, because its table was found by
twelve characters, takes no part in a query of one table (section 8).

`AllocatorCalls`, `MemAllocatorProofs`, `MemProofs` (of `Mem` and of `HashTable`), `SelectProofs` (of `QueryPlan` and of `Join`),
`CatalogProofs`, and `BPlusTreeView`, `BPlusTreeCalls` and `BPlusTreeProofs`, which extend each other, hold the theorems of section 7.
As two pairs of components share a module of proofs, `Join` and `HashTable` have names of their own for what every module has:
`JoinInit`, `JoinSpec`, `HashInit`, `HashSpec`, and so on.

The operators marked *Wrong* next to a definition are that definition with a plausible
mistake; putting one in the definition's place must make the property of a run fail,
which shows that the property looks at that code.

## 5. The runs

`MCx.tla` only closes module `x` for TLC; the values are in the `.cfg`.

| run | instance | what it shows |
|---|---|---|
| `unique_key` | as `catalog`, one table with a key of a string and an int | the disagreement of section 8 |
| `two_pages` | two pages of 10 units: header 1, meta data 2, requests 0 and 3 | up to four blocks in a page; remainders smaller than a header, as large and larger; one list over pages that come and go, block by block; `ObjectStore` implemented |
| `db_file` | a file of three pages (one is the header) of 8 units, requests 0, 2, 6 | create, open, close, kill and abort in every order; 6 is more than a page holds, and is refused; the smaller ones leave remainders with and without room for a block; 107334 states |
| `tree_map` | eight keys, one with two records, at most four children | every sequence of operations on trees of up to three levels behaves as an ordered map; queries and scans |
| `tree_shape` | ten keys | trees in which inner nodes, too, borrow and merge: balance, smallest keys, leaf chain |
| `join` | up to three tables of up to three rows, at most eight combinations past the per-table trees | every content, filter and clause; the odometer never skips; the answer is whole, in order; every query ends |
| `catalog` | three table names, two with the same first twelve characters; five column lists: keys of one column and of two of mixed types, no key, a column named twice; integers of 2 bytes, doubles of 3, strings of 2, a byte is 0 or 1; at most two records | over every order of creates, inserts, selects and listings: primary keys unique, keys made of the same bytes as the records, rows read back as inserted; `Relations` implemented: no statement reaches a table that it does not name |
| `parsers` | ten statements; each with a lexeme of twenty put in, replaced or left out at every place; each again with a type begun and not finished; zero to three blanks between the lexemes; arrays of two elements and strings of one character; some lines with tabs and unknown characters | every statement of the grammars is accepted and read as meant, and nothing else but for two prefixes that are swallowed (section 8); strings too long are refused; too many elements, and only they, are written behind the arrays; a refused line is taken back to its start. Compared are all columns, with aggregates and aliases, the condition, and where tables' aliases are stored |
| `avl` | twelve keys and a second node with the key of the fifth; at most two gaps in the keys | every order of inserts, removals and replacements, up to removals that rotate at two levels: balances and links right, walks in order from both ends and while nodes are removed, `OrderedMap` implemented |
| `hash_table` | five keys with four hashes, two values; tables of two, three and five slots | growing, failing to grow and failing to insert; walks that remove through the iterator or under it; `OrderedMap` implemented |
| `legacy_parsers` | all expressions of three operands, with brackets; deeper ones with functions, and 62 nested brackets, the most a line holds; eight statements; each changed by one lexeme at every place, also by a minus; with one or two blanks, and with those only that divide words, where a minus is a sign | lines whose tokens are an expression are valued as arithmetic says, the others abort; a select is accepted if it is one when its two clauses are reworded, and read to its semicolon; what creates and inserts carry out, also those that are answered with an abort or an error, is what was typed; what a failed attempt has read is given back; the stacks are large enough |
| `query_plan` | three tables, up to two of them joined (one joined with itself, under two names, too), sharing a column name; a second name that the catalog takes for the first table; up to two columns with and without aliases; where clauses of up to two operands, and of three that begin with one of the first table, some of tables not joined or not existing | every operand bound to what the last joined operand names, itself if its table is joined; the tables' clones have what the clause names in full, and only that; planning ends, done or refused, unless aliases lead back to themselves |

Why the bounds are enough: a block's merge reads and writes its two neighbours
and the neighbour behind them, so four blocks in a page show all of it; two pages
share a list as many do. A node of the tree is split at four children and
merged below two, so an inner node can only lend a child when there are ten keys, and the code
treats the inner nodes of every level alike. The odometer's step for a table looks at that
table and the one before it; three tables have a first, an inner and a last one, and with three
rows a rejected one lies before, between or behind those that pass. An insert into a table
looks at one other record of it at a time, so two records show every pair; types of different sizes, and a
key column behind another column, are what makes offsets and comparisons disagree if they can. The parsers take back
at most four tokens, so up to three blanks can stand where a token is meant, and they decide by one token, so one wrong
lexeme takes every error path. Resolution passes from one operand to the next; three operands show one that is passed over two others.

Twelve keys are the fewest with which one removal rotates an AVL tree at two levels (33 would be
needed for three; the loop treats each level alike). A hash table that grows twice passes through every
case of the load limit, and five keys of four hashes make chains with a head, a middle and an end. Expressions of three operands show every pair of
operators in every grouping. A stack has 64 slots and a line fewer than 128 characters, as 256 is to 512: in an
expression each slot in use takes at least two characters, a bracket and the one that closes it or an operator and its operand.

`ShapeSound` and `TreeSound` are conjunctions of invariants that are named and explained one by one. The type
invariants of `Mem`, `Catalog`, `QueryPlan` and `BPlusTree` are checked as the first conjunct of `QueueIsFreeMemory`, `KeysMatchRecords`,
`BoundAsNamed` and `ShapeSound`; all are proved, those of `Catalog`, `HashTable`, `QueryPlan` and `BPlusTree` with another invariant.

Deadlock is not checked where the system may really stop: after undefined behaviour or
an abort, after the destruction of a tree, at the end of a query. In `Catalog` the program is
started again after an abort. `HashTable` stops after undefined behaviour, `LegacyParsers`
after an abort, an exit or the expression it evaluates. `Parsers` stops at an assert and at a write behind an array, `QueryPlan` at the end of a query.

In `parsers`, tabs stand only where the three characters they make the scanner lose are not the end of the
line: behind it the buffer holds what an earlier line has left.

## 6. Fairness

`Mem` assumes `WF` of `Continue`: the steps of a call that has begun. The program is
sequential, a begun call goes on unless the process dies (and `Kill` may always
happen). Nothing is assumed of the callers. `Join` assumes `WF` of `Next`: one
thread that never waits; so does `QueryPlan`, for the same reason, of all its steps but the two failures of the library, which need not happen. `Parsers` needs none: a line is parsed in one step.

## 7. The proofs

Each proof is for every value of the constants. TLC has checked each inductive invariant on the
run's instance before it was proved, but for that of `BPlusTree`: it says that a view of the tree exists, of which TLC
can only check what `ShapeSound` states.

**The blocks.** The first part of `AllocatorCalls` are lemmas about the operators: what a split, a
fragment taken back or a merge does to a good chain, what an insertion does to a sorted list.
The second part puts them together: what one call, or one iteration of a loop over a page, does to the pages and
to the list, for any set of pages of which any are in memory. The two models of the allocator's
callers rest on it.

`MemAllocatorProofs` proves, for every set of pages, page size, header sizes and
request sizes (assumptions `PageLayout` and `PagesAndRequests`: a page has room for one header), that
`IInv` is inductive: `Inductive == Spec => []IInv`. `ChainsGood` alone is not inductive:
that a free merges with the right neighbours needs the links and the sizes
of the whole chain, that the merged block leaves the list needs the list to be
sound, and that in turn needs to know how far a walk over a page has come, which of
its blocks are bound to an address and which are queued. From
`IInv` follow `TypeCorrect`, `ChainsStayGood`, `QueueStaysSound`, `QueueStaysSorted`,
`BasesStayRight` and `EmptyPagesAreWhole`. `OnlyFailuresDrop` adds that free memory leaves
the list without being handed out only by an allocation that fails, and `AllocatorIsStore` that
every call is a step of `ObjectStore` or changes no object: blocks of a good chain
lie apart, so a new object overlaps no other.

**The file.** `MemProofs` proves the same of `Mem`, for files of every number of pages (`FileAndRequests`), with a process that dies
between any two steps of any call. Its `IInv` says in addition where each call stands; of a page that was in memory when a
process died it claims less: its blocks may hold any `base_address`. From it follow `PagesStayAllocated`
(a page with an object, or in memory, is allocated), `QueueStaysComplete` (the list is exactly the free
memory of the pages in memory, but for what a walk has still to reach), `CleanPagesReturn` (no process fails
the assert on a page that was not in memory when another died), and `FileIsStore`: whatever happens, the file takes
the steps of `ObjectStore`. The last one is what a crash must not break: dying in the middle of a walk loses no object and moves none.

**The join.** The second half of `SelectProofs` proves, for every bound on tables and rows (`JoinAssumption`), that the
invariant of the odometer is inductive (`JoinInductive`): in each loop, the tables before
the one that is turning show a row that passes, those behind it are reset, and what has been
printed is exactly the accepted combinations up to the reading. From it follow
`JoinTypeCorrect`, `RowsAreComplete`, `NothingIsSkipped`, `WholeAnswerPrinted`, and
`ExecutorImplementsAnswer`: every step maps to printing the least row left, to the end, or to a stutter.

**The catalog.** `CatalogProofs` proves, for columns of any number, types and sizes and any inserts
(`CatalogAssumption`: a create has a column, sizes are natural numbers, values are bytes), that keys and records agree.
The loops that add up offsets, fill a record, put a key together and note its types are recursive functions; a lemma for each says
what its turns do, and `FieldKept` that no column of a record is overwritten by a later one, because `FieldsApart` holds
of the offsets. `PrimaryKeysUnique` alone is not inductive: a duplicate is looked for by its key, so `IInv` says that
every record is made of values of one insert, its key of the same values; then equal columns make equal keys, and equal keys are
the same to `SameKey`, whichever types it compares them with. From it follow `KeysMatchTheirRecords`,
`PrimaryKeysStayUnique`, `InsertsReadBack` (the values inserted are the values read) and `CatalogIsRelations`: every statement is a step of
`Relations`, about the name that it names.

**The hash table.** The second half of `MemProofs` proves, for all keys, hashes and ascending primes (`HashAssumption`), that every entry is in the chain
of its hash, once, and the count is right, through every enlargement (`EntriesStayInTheirChains`); that an iterator that was not
led astray meets every entry that is not removed (`WalksStayComplete`), which needs to know what lies behind it: the rest of its chain and the
slots above (`BehindIn`), or, after the entry under it has been freed, what the freed entry's link still says (`GoodRest`);
and that the calls are those of a map (`CallsAreMap`).

**The plan.** The first half of `SelectProofs` proves, for any schemas, select lists, lists of tables and where clauses (`PlanAssumption`: columns
of a table have different names, a lone operand is the whole tree, and no two tables of the catalog have the same first twelve characters), that an operand that is bound is bound to a column of a joined table
(`TypeOK`), and, when rows are evaluated, to what the last operand up to it names whose table is joined (`EveryOperandIsBound`): itself, if its own is. The loop of `sql_resolve_exptree` keeps
variables from one operand to the next: the proof carries through its turns that what they hold is the column of that operand (`HeldIs`, `LastJoined`), and that there is none only as long as
every operand so far is of a table that is not joined. No operand is left out. `ClonesAgreeWithClause` relates the clauses that two functions resolve at different times:
`IInv` says what each clone was made of while the clause is still unbound, and the loops over clause and clone are gone through side by side (`MineLoop`). A clone has the operands that name
its table in full. What the two functions disagree on is part of the statement: an operand that the catalog finds by its twelve characters only is bound in the clause and in no clone; and of a
table that is joined twice the clause looks at the first place only, while there is a clone for both.

**The B+ tree.** `BPlusTreeView`, `BPlusTreeCalls` and `BPlusTreeProofs` prove, for any keys and records and every even limit on the
entries of a node from four on (`TreeConstants`), all that the runs check. The limit is 4 in the program (`MAX_CHILD_NUMBER`,
`BPlusTree.h:4`; nothing calls `BPlusTree_SetMaxChildNumber`); with an odd limit two nodes that merge can have as many entries as the limit, and
the next insert would pass the limit without a split.

`ShapeSound` is not inductive: that every inner key is the smallest one below it says nothing of where a key belongs that is not there yet.
So the proof looks at a tree through a *view*, without arrays: for each node its children as a function from its keys, its father, its level, and
its *area*, the numbers that a search takes through the node. The root's area is everything; what goes on at a key of an inner node is the
area of that child; and the keys of a node lie in its area, the first one of each child being the father's key for it (`Shape`). Two nodes of a level
have areas that are apart, every number leads to one leaf, and a leaf is the next one exactly when no leaf's area lies
between (`Linked`). Nothing of this is recursive. `TreeInv` says that the tree has a view which its arrays and pointers show (`Sound`), and
that the nodes are as full as they should be; `TreeInvHolds` that this is an invariant. A call takes many steps on the tree between which it does not hold:
`BPlusTreeView` says, for a split, a merge, a new root, a root that goes, a key that is undercut or raised along the ancestors, what becomes of
the view, and `BPlusTreeCalls` that each turn of `Insert` leaves a sound view in which at most one node, one level higher, is full
(`Entered`), and each turn of `Delete` one in which at most one node is short.

From `TreeInv` follow `ShapeSoundHolds`, `QueriesFindHolds` (the leaf to which a search comes is the only one that can have the key) and `StepsOfMapHolds`
(every call changes the records by at most the one it is about). For `ScansInOrderHolds` each step of the cursor, and each turn of a query for a range,
is shown to pass exactly one record: the number of records with smaller keys (`Before`) is the number of steps so far, at the first record of the next leaf
as well, because the chain goes on at the leaf whose area comes next. So the walk ends, and every record is at its place in `InOrder`.

The library's induction theorems take an operator as a parameter, which none of the provers installed here can instantiate. Where a proof needs
induction it takes the smallest member of a set of counterexamples instead (`SmallestOf`, from `WFMin`, and `UpTo`), and
what a recursive function computes follows from the existence of a function that solves its equation (`LoopExists`; for the functions over the nodes
of a B+ tree, such as `LevelsAre` and `WayExists`, the solution is read off the view). Not proved, and only model-checked, is:

- liveness (`CallsEnd`, `QueryEnds`, `PlanEnds`): `ENABLED` and fairness are out of the prover's reach;
- `AvlTree`: its operators are `RECURSIVE` over the tree, and no module with such an operator can hold or reach a theorem. The way of the
  B+ tree would have to be gone again, with heights in the place of levels and a view for every rotation;
- `Scanner`, `Parsers` and `LegacyParsers`: a nonterminal calls others and itself, and what is to be shown (`StatementsAccepted` and the like) is an
  induction over the statement that is read, for which the reference grammars are recursive too: induction over data.

## 8. Disagreements between code and comments

The run `unique_key` finds a violation of what a message says: `rdbms_key_comp_fn` never advances to the
next column's type and size. In a key of a string and an integer the integer is compared as a string, too, up to its first zero byte: 256 and 512,
stored with the low byte first, are the same, and an insert is refused for "duplicate key value" (`sql_insert_into.c:154`) although no row has its key.

The others are written into the models as the code has them, and met by the runs:

- `uapi_get_vm_addr` looks the page up, swipes it in ("Disk page is loaded in memory"), and adds the offset to the
  NULL of the first lookup (`UapiGetVmAddrSwipeIn` of `Mem`).
- `sql_resolve_exptree` finds the table of an operand in the catalog but not among the joined ones, and binds the
  operand to the column of the operand before it, where a comment (`sql_mexpr_intf.c:87`) says that the column is resolved against the named
  table only (`Lookup` of `QueryPlan`; `SetBy` in `BoundAsNamed`).
- The clause finds a table by the catalog's twelve characters, its clone for the table by the whole name (`sql_mexpr_intf.c:122-134`, `:177`). So with
  `customers_2023` made, `select a from customers_2024 where customers_2024.a = 1` is a query of `customers_2023` whose condition is in
  the clause and in no clone, and of a query of one table only the clone is evaluated (`NamesInFull` of `QueryPlan`; `Expected` in `PerTableAgrees`).
- The select parser accepts `sum (a)`, a column by the grammar in its comment (`SqlSelectParserCFG.c:141`), and never enters it in the select list; with nothing else in
  the list the query becomes a `select *` (`SelectColumn` of `Parsers`; `SelectListOf`).
- The alias of a table is stored with the table behind it (`SqlSelectParserCFG.c:96`, where the table has been counted already; `StoreAlias` of `Parsers`; `AliasesOf`).
- The grammar of expressions (`ExpressionParser.c:17-21`) has `E - T`, but the scanner takes a minus directly before a number for its sign
  (`SQLSelectParser.l:476-482`): `5-2` is the two tokens 5 and -2, which is no expression, and the program aborts; `5 - 2` is 3 (`Scanned` of `LegacyParsers`).
- The earlier select parser wants the type keyword `int` behind `limit`, where the comment (`SQLSelectParserCFG.c:32`) says
  an integer and the queries it is said to be tested with (`SQLSelectParser.l:1205-1215`) have one: all of these are refused (`LMT` of `LegacyParsers`; `LimitReworded`). The direction
  behind `order by`, which the grammar (line 30) demands, may be missing, as another comment (line 106) has it (`Direction`; `OrderingReworded`).
- The earlier create parser accepts a column nested in another, as in `a int (b int)`, which its comment does not have
  (`Attribute`), fills the node of `not null` through a pointer that was never set, creates the table before it asserts that
  the line has ended (`CreateOutcome`), and executes an insert that did not parse (`ParseInsert`).
- In the earlier parsers a statement behind a blank is scanned a second time from its start, but the blank stays counted: `curr_ptr` and flex
  disagree from there on (`Rescanned`; the condition `Indented`).

The modules also show behaviour that has no run of its own:
`uapi_mem_free` maps a missing page without `allocator_reinit` and walks from an address of 0 (`UapiMemFreeUnmapped`); a page
in memory when a process died fails the assert of `allocator_reinit` in the next process (`result = "base_address was set"`); the first insert
into an emptied tree compares its key with a freed one (`BPlusTree_InsertRefused`); a create without a primary key fails but leaves its entry in the
catalog (`CreateWithoutKey`); aliases that lead back to themselves, as in `select a as a from t where a = 1`, are replaced for ever (the
condition of `PlanEnds`); an `as` before something that is no name, and the beginning of a `varchar` before another type, are
swallowed when there are enough blanks (`Forgiven`); a line that begins with a tab fails an assert (`KeywordLost`); the command to quit is an
error (`NoStatement`); the arrays' sizes are not checked (`Written`);
`uapi_mem_alloc` fails although a new page would satisfy the request, as long as any block is free
(`UapiMemAllocAborts`); `BPlusTree_Destroy` frees a key once for every node it is repeated in; the same comparison
of keys makes two table names equal that share twelve characters (`CatalogKey`); the
listing of tables fails an assert as soon as there is a table (`ShowAborts`), and an insert into, or
select from, a table left behind by a failed create follows a NULL pointer (`InsertAborts`, `SelectAborts`).

## 9. What is not modelled

Output formatting (`sql_io.c`) has no state. `disk_io.cpp` is one system call per function
and has no caller but a test. The tracer is logging, the flex and bison files are examples from a book. The expression
library of the live program is not in this repository. Of the linked list, what only its test calls is left out, as are the functions of the
stack that nothing calls.

The earlier query engine (`qplanner.c`, `sql_where.c`, `sql_groupby.c`, `select.c`, `sql_intf.c`, `sql_delete.c`) does not compile at this
commit: it reads members of `qp_col_t`, such as `schema_rec`, that `rdbms_struct.h` no longer has. There is no program whose behaviour a model
could follow. `SqlMexprIntf.cpp` is a variant of `sql_mexpr_intf.c` that nothing builds. Of the earlier parsers, the hand-written select with its group by, delete,
the create parser that `SQLCreateParserCFG.c` has replaced, and the memory of the syntax trees are left out.

Of the live program, aggregation is not modelled: no statement reaches it, because no aggregate gets into a plan. After the end of its input the command loop goes on
executing the line it has read last; the loop of `Parsers` has lines for ever.
