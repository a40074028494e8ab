# multilang in TLA+

`multilang` is a C++ library (`mll`) through which a host program drives
script interpreters: it loads an interpreter as a shared library, sets and gets
global variables, evaluates scripts, calls script functions and registers its
own functions for scripts to call. Two interpreters are in the repository, Lua
5.2 (`mll-lua`) and Javascript on Duktape 1.5.1 (`mll-js`), and a demo host
(`mll-demo`). There are no tests and no documents: the references for the models
are the source and its comments.

No code of the library starts a thread, and nothing that is shared between threads
(the vectors of libraries and interpreters, the callback table, the class registry)
is locked; that it keeps a context per thread for its callbacks shows that hosts may
have several. What is hard in it is mostly the order of calls: who owns a buffer
after a chain of copies and assignments, what a call leaves on an interpreter's stack
for the next one, which static object exists first, what two overlapping loads make
of a vector. That is what the models explore.

## Inventory

| Part | State | Operations | Hard behaviour | What makes it correct |
|---|---|---|---|---|
| metatype registry (`metatype_t`, `mlVariable.cpp`) | `user_types`, a static vector | static construction, `generate`, `find`, `get` | the vector and the built-in metatypes are static objects of two translation units; a scan that restarts inside its loop; exhaustion | identifiers unique; refusal exactly when none is left; termination |
| `mlVariable` | `data`, `data_size`, `type`, `type_info`, `is_auto`, `fields`, the heap | constructors, copy, assignments, `operator[]`, `uinion`, `get`, `cast`, `operator()`, destructor | memory owned by hand; indeterminate members; memcpy of string objects; fields shared by copies | exclusive ownership; no double free; `get` returns what was stored; copies independent; no memory lost |
| `mlCallbackMgr` | the static callback table, a context per thread | registration of functions, methods, names; `call` | keys of three kinds in one table; a `return` before the code that stores | a call runs what was registered under its key |
| Lua bridge (`iLua`) | one `lua_State`: stack and globals | `set`, `get`, `eval`, `exec`, `call`, callbacks | every operation shares one stack and leaves something on it; errors and exceptions that cross Lua | an answer is the value asked for; the stack stays within its guarantee |
| Javascript bridge (`iJs`) | one Duktape heap: stack and globals | `set`, `get`, `eval`, `exec`, callbacks | `get_from_stack` pops a value or leaves up to two, depending on the type; errors thrown from inside a conversion | arguments arrive in order; the loop over them ends; the stack stays within its guarantee |
| `mlFactory`, `mlLib` | loaded libraries, their handles and runtimes | `load`, `create_interpreter`, `search`, `dump` | vectors without a lock; a check and a store that are two steps; failure paths that use a deleted library | a library is loaded once; every interpreter is found by its id; a name keeps its meaning |
| `mlInterpreter` | streams, search path, class registry | `set`, `get`, `callback`, `class_register`, `method_register`, `exec`, `search_file` | a class registry shared by all interpreters; fields shared by copies; an inverted file test | a script that exists is found; instances keep their object and see their methods |
| `mlException` | a pointer to a message | `what` | the message's lifetime | the message is readable when caught |
| interpreter descriptions, introspector stub, demo, vendored interpreters | none of the library's | | | |

How they interact: a host calls `mlFactory::load` and `create_interpreter`, then
`set`, `get`, `eval` and `call` of the interpreter, all with `mlVariable`
arguments passed by value, so that every call copies and destroys variables.
Building a variable from a function registers the function with `mlCallbackMgr`;
so does setting it as a global, under the global's name. When a script calls such
a function, the bridge's C callback asks `mlFactory::search` for the interpreter
of the running state, reads the arguments off its stack and asks
`mlCallbackMgr::call`, whose answer it pushes. `mlCallbackMgr` marks its entries
with built-in metatypes of the registry.

## Modules

**`IdAllocator`** is what a caller of `generate` may rely on: fresh identifiers
while there are any, an exception only when there are none.
**`MetatypeRegistry`** is the code: `user_types` as a sequence of identifiers, the
locals `i` and `type_id` of `generate`, one action per branch of its loop
(`ScanOccupied`, `ScanThrow`, `ScanOther`, `ScanReturn`), and the construction of
the vector as an action that happens before or after the three initialisers of
`mlCallback.cpp`, because C++ leaves the order of the two translation units open.
Before its construction the static vector is zero-initialised, which reads as an
empty vector. It implements `IdAllocator` from its construction on (until then
`taken` is empty).

**`VariableHeap`** is `mlVariable` as an owner of memory. `Vars` are the variables
of the program, temporaries and arguments included; `Nodes` are those
`operator[]` creates; `Blocks` are addresses. A block is free, or holds an int
(any value that lives in its buffer), a string object, the characters of a long
string, a binary buffer, or nothing (`malloc(0)`). A string object carries its `home`,
the address its character pointer leads to: for a short string its own block when it
was constructed there, another one when memcpy moved it; for a long one a block of
characters, which stands for whatever a value may own. `free` runs no destructor, so
that this block outlives the object. Binary buffers may be as long as an int or a
string object is: only the type tells them apart. The fields of a variable are never
deleted; `Reached` are the variables the program still gets at, `Lost` the blocks that
none of them holds. `GetCopies` and `GetReturns` are the two halves of `get<T>`: it
copies the value once the size is right and compares the type afterwards
(`mlVariable.inc:68-77`).
There is one action per operation of the class, each the whole operation:
`AssignOther` is `to_nil`, the allocation and the copies; `AssignValue` also
constructs and destroys its temporary. A copy of an empty variable has an
indeterminate pointer: `CopyConstruct` chooses between `None` and `Wild`. Once
`free` has been given a pointer it may not get, `health` is `"undefined"` and the
behaviour ends.

**`CallbackTable`** is the table of `mlCallbackMgr`: registration under the address
of a function, under the address of the parameter that carried a method, and
under a name. `Stored` is `mlCallback_table::set`, which returns before it stores;
a lookup therefore never succeeds, and `call`, which is not modelled, answers nil
(`mlCallback.h:240-243`). `registered` is history.

**`LuaBridge`** is the host's part of the Lua stack, the globals and the tables, with
one action per outcome of each of the host's calls. `answers` is history: what `call`
has answered since the bottom of the stack was placed. `Back` is what becomes of a
value: whole numbers, booleans and long strings arrive (`Plain`), fractions are cast to
int, a short string is copied out of a temporary and points to freed characters, and a
table is a reference, which reads as its `contents` are at that moment (nil when it is
empty). What scripts do is external: any assignment of one global, any change of
the tables, any results, any error value. A callback runs in a frame of its own and answers
nil (`CallbackTable`), so it leaves no trace here unless it throws. Duties of Lua
that the model relies on: `lua_setglobal` pops one value, a protected call leaves
its results or one message, an unprotected error ends the process.

**`LuaMarshal`** opens what `LuaBridge` takes as one step when a value is read:
`get_from_stack` with its recursion (`walking` and `fields` are its activations), and
the argument loop of `lua_callback` around it; `get` is the case of one argument. Every push and pop is there, so
that a wrong count would be seen by the entry or the argument that is read next.
Tables are sequences of entries in the order in which `lua_next` walks them, and any
table may be an entry of any, itself included. Scalars are converted as in `LuaBridge`: a
value that is read is a temporary, copied to its field or to the vector of arguments
(only what `get` itself returns is not). `Slots` is what Lua guarantees:
`LUA_MINSTACK` in a callback, and what earlier calls have left of it in `get`. A key
that is neither string nor number throws before or after its value is read, because
C++11 does not order the operands of the assignment.

**`LuaPush`** does the same for writing: `set`, `push_to_stack` with its recursion
(`walking`, `done`), and the registration of functions under the names of their fields.
Host objects are the field maps that variables share and may contain themselves. Only
the argument of `set` itself may have the type CLASS or NONE, which nothing but
`mlInterpreter.h:32` gives to a variable: it is `Valueless`, nothing is pushed for it, and
`lua_setglobal` pops what an earlier call has left. Fields always have a value, so that
`lua_settable(-3)` works on the table that was made for their object (`Target`,
`OldTableKept`); `Old` is a table of a script that must stay as it is.

**`JsBridge`** is the Duktape heap under `iJs`: `depth`, how much the host's own calls
have left on the stack, and the frame of a callback, on which `js_callback` reads its
arguments with one action per round of its loop and kind of value
(`ReadPopped`, `ReadUndefined`, `ReadObject`, `ReadEnumerator`, `ReadNested`,
`ReadOverflowing`). Values
are told apart by what `get_from_stack` does with them: scalars and null are popped,
undefined stays, an object stays under its enumerator, and an object with a nested
property, or with a getter that throws, makes `duk_next` throw. Each round at an object
pushes one more enumerator: `Room` is the number of places Duktape guarantees beside the
arguments (64), beyond which a push may throw or not. `Reading` is what the host gets for
a value (numbers cast to int; of a string the bare `char*`, which dangles once nothing
holds the string any more),
`Echo` what it gets when the loop reads the enumerator instead (an enumerator is an
object that has the enumerated keys, all true). These duties of Duktape were observed
on the vendored library. What the globals hold is left open: `get` reads any value.

**`LibraryCatalog`** is what a host may rely on from the factory: loaded libraries stay,
every interpreter belongs to a loaded library, identifiers are unique.
**`Factory`** is the code of `mlFactory` and `mlLib`: `load` (`LoadMissing` to
`StoreEnd`), `create_interpreter` by name and of a library (`CreateByName` to
`AddEnd`), and `search`, each by any number of threads, with one step per round of a
loop over the libraries. The loop of `search` over the runtimes of one library
(`mlLib.cpp:56-58`) is part of that step, and so are both accesses of
`mlFactory.cpp:75-76`: vectors only grow, so that what the step sees is what some
interleaving of the accesses sees, and a store under way makes it a race all the same. A `push_back` is two steps; a thread that touches the vector between them, or
continues a `find_if` after the vector has moved to a larger storage, is in a data
race (`Interference`), after which `health` is `"undefined"` and nothing more is
claimed. `CheckDone` and `CheckMoved` are the two orders in which C++ may evaluate
`find_if(..., end()) != end()`. Libraries are the shared objects behind the paths
(`Image`): the same one may be reached by several paths, as `dlopen` does it.
`chosen`, `unfound` and `outcome` are history, and so is `seen`, how far a load had
compared when it stored its library. An interpreter is its identifier; `Coroutines`
are states that scripts make, which are of no interpreter. It implements
`LibraryCatalog`, races included.

**`ClassRegistry`** is `class_registry` with `class_register`, `method_register`,
`constructor_callback` and the host's assignments to fields. A variable is the map
from names to the addresses of its fields (`heap`), which copies share. `generation`,
`type`, `born` and `inherited` are history: from which registration of a class a
variable was made, and with which fields.

**`FileSearch`** is `exec`: `search_file`, one `stat` at a time, and the open that
follows, while others create and remove files. `FileOf` maps a name and each
directory of the path to a file. `mlFactory::search_file` is the case of an empty
path (nothing fills it), where it returns the name whatever `stat` says; `Factory`
therefore opens the name itself.

**MC modules.** `MCFactory` gives the libraries behind the paths and their names; `MCLuaMarshal` and
`MCLuaPush` the contents that tables and objects may have; `MCFileSearch` the files
behind the names; `MCClassRegistry`, `MCMetatypeRegistry`, `MCVariableHeap`,
`MCCallbackTable`, `MCLuaBridge` the symmetry sets; `MCJsBridge` nothing (its run
checks liveness). The other constants are in the `.cfg` files.

**Proof modules.** `VariableHeapProofs`, `LuaBridgeProofs`, `LuaMarshalProofs`,
`LuaPushProofs`, `JsBridgeProofs` and `FactoryProofs` hold the theorems about the module
of their name, `RegistryProofs` those about `MetatypeRegistry`, `InterpreterProofs` those
about the parts of `mlInterpreter` (`ClassRegistry` and `FileSearch`, whose specification
is named `SearchSpec` because the two are extended together).

How the modules fit together: `LuaBridge` takes each conversion as one step that adds
or removes one value; `LuaMarshal` (`Balanced`) and `LuaPush` (`Converted`) show for
which values that is so. `LuaBridge` and `JsBridge` take a callback to answer nil,
because the table in which it would be found stays empty (`mlCallback.cpp:18`, the run
`callback_alias`). That copies of short strings dangle, which the conversions rely on, is
the subject of `VariableHeap` (`AliasedOnlyByTexts`, `TextLostWithOriginal`). `ClassRegistry` uses copies that
share fields and never free them, which is what `VariableHeap` (`FieldsAlive`) shows.

Definitions marked `Mutant` are plausible faults of the code (a dropped line, an
off-by-one, a commented-out line restored). No action uses them; each shows that a
property notices the fault.

## Runs

| Run | Bounds | Shows |
|---|---|---|
| `registry` | `MaxTypeId` = 7 | Seven identifiers leave four for the program after the three built-in ones: the registry fills up in both orders of construction. `generate` ends (`GenerateReturns`), identifiers are unique (`RegistryInjective`), the program is given built-in identifiers exactly when the vector was constructed late (`ReissueExactlyWhenLate`), and the loop implements the allocator (`AllocatorSpec`). |
| `heap` | 2 variables, 4 blocks, a number, 2 short strings and a long one, buffers of 3 lengths, no fields | An original and its copy, the temporary of an assignment with the characters of a long string, a buffer that is taken again. `get` returns exactly what was stored as a T, although a buffer may be as long (`GetSound`), `free` is misused in one way only (`UndefinedOnlyFromEmptyCopies`), a step changes what one variable reads as, and else only copies of short strings (`AliasedOnlyByTexts`), which are lost with the original and not otherwise (`TextLostWithOriginal`). |
| `leaks` | 2 variables, a field, 2 blocks, a number, a short and a long string | A field that two variables share, that one or both of them leave behind, with a value in it. Memory is lost in four ways only (`LeaksAccounted`): blocks of length 0, a second `get` of an automatic variable, the characters of long strings, fields that no variable leads to. |
| `fields` | 2 variables, 2 nodes, 1 block, 1 name | Two fields that can be shared, contain each other or themselves: cycles come from assignments to an own field only (`CyclesFromOwnFields`). |
| `callback_alias` | 2 functions, 2 methods, 2 addresses, 2 names | Violated: the alias that `mlCallback.cpp:25` announces is never generated. |
| `lua` | 2 globals, 2 plain values and one of each other kind, a table with 2 readable contents (one empty), depth 3, 2 results | `call` answers what the oldest leftover reads as, always the same unless it is a table that scripts change (`OneAnswer`); that leftover stays until the stack is drained (`BottomStays`). Depth 3 leaves room for a bottom with leftovers above it, a drain and a new bottom. |
| `lua_marshal` | 2 tables with up to 2 entries, keys 1, "1" and true, short strings in them, 5 argument lists with a fraction, a function and a userdata, 8 places | All pairs of tables: nested, shared, containing each other or themselves. Everything given is read in its shape, the last of two keys with one name counting, fractions cut and short strings dangling (`ResultsRead`); the stack is as before (`Balanced`); only tables nested deeper than a quarter of the places overrun it (`OverrunOnlyDeep`: two nested tables just fit into 8, cycles do not); an exception comes from the key true and leaves four places per table (`ThrownLeaves`); every conversion ends (`ConversionEnds`). Types with it (`TypeOK`). |
| `lua_push` | 2 objects with up to 2 fields, a plain value, a function, nil, a valueless argument, 4 kinds of leftovers, 5 places | Objects become tables that look like them, with the stack as before (`Converted`); a table that a script has made and an earlier call left on the stack is never changed on the way (`OldTableKept`); every callback in a table was registered before (`CallableIsNamed`). Two nested objects just fit into 5 places (`OverrunOnlyDeep`). Types with it (`TypeOK`). |
| `js` | one value of every kind, 4 arguments, 4 places, depth 3 | The argument loop never reads below its frame (`FrameSuffices`) and ends (`CallbackReturns`). The last argument that is not popped stands for all before it (`ArgumentsReceived`); strings that were popped dangle unless the frame still holds them (`TextsDangle`); reading throws only for a nested argument that nothing hides, or because the enumerators do not fit into the frame (`ErrorsFromNestedOrFull`). Four arguments hold such a value with one behind it and two before it, two of them in either order, or the same string twice. With 4 places three enumerators of the last argument do not fit, as happens with the 64 of Duktape from 63 arguments on. |
| `factory` | 2 threads, 2 libraries (one lacks a symbol), 4 paths (two to one library, one to nothing), 1 interpreter, 1 coroutine | Every way a load can end, against every step of another load, creation or search. A library is stored twice only by loads that overlapped (`DuplicatesOverlap`), no interpreter is missed by `search` (`SearchComplete`), a name keeps its meaning (`OneLibraryPerName`), NULL under exceptions is explained (`NullMeansLoaded`), all is a catalogue (`CatalogSpec`), and every operation ends (`OperationsReturn`). Overlapping loads store the library twice, so that the vector grows and moves under the other thread. |
| `classes` | 2 types, 2 names, 2 values, 3 variables, 3 fields, 2 registrations | A class, an instance and one of another type or of the class before. The constructed object is lost (`ObjectsLost`); instances share what they inherited for good (`SiblingsAgree`); a step concerns one class, and what is registered later never reaches an instance (`StepsStayInClass`). |
| `file_search` | 3 files, 2 directories, a relative and an absolute name | A script that was there before is run only under its own name, and only if all directories hold it too (`OldScriptIsOwn`); if none of the candidates ever goes, it is run (`StayingScriptRuns`). |

Variables, blocks, values and names are interchangeable, so two of each show every
pattern of equality between two objects of a step, and the properties speak of at
most two objects and a block. `MaxDepth` and `MaxResults` bound the stacks, `MaxArgs`
the arguments of a callback, `MaxFields` and `MaxClasses` the fields and the
registrations of classes, for TLC only; the theorems hold for every value of them.
`Slots` and `Dirs` are parameters of the code. The state of `Factory` is bounded by
its constants: identifiers are never reused, and a thread adds a library twice only
while another load of it runs. Deadlock is not checked where a behaviour really ends:
after undefined behaviour, after an abort, at the end of the one conversion that a
behaviour of `LuaMarshal` or `LuaPush` is, and at the bounds.

The type invariants and a few more invariants (`Owned`, `FieldsAlive`,
`IssuedInjective`, `AloneIsSafe`) are theorems for every value of the constants, and
no run repeats them on a small instance.

Fairness: `MetatypeRegistry` states `WF_vars(Scan)`: a call of `generate`, once begun,
goes on, because it runs to its end in the thread that called it. `JsBridge` states
`WF_vars(Step)`, `LuaMarshal` `WF_vars(Next)` (all of its steps are those of one
call), and `Factory` `WF_vars(Proceed(t))` for each thread, for the same reason: what a
thread has begun, it goes on with. Nothing is assumed of the host or of scripts, which
need not ever act or stop acting. All other runs check safety.

## What the runs say about the code

* `mlCallback.cpp:18`: a `return` without a condition precedes the code of
  `mlCallback_table::set` that stores. Host functions are registered without effect
  and every call of one answers nil.
* `mlCallback.h:276`: a method's key is the address of a local parameter, although
  line 275 wants it unique. Registered one after the other, two methods have the same
  key; today that has no effect, because nothing is stored.
* `iLua.cpp:117`, `186`, `201`: nothing is ever popped from the Lua stack, and `call`
  reads its answer at the bottom of it. The first answer is right if nothing was
  left over before; all later ones repeat it, or, if it was a table, say what scripts
  have made of that table since.
* `iLua.cpp:155`, `iJs.cpp:175`: numbers are cast to int. `iLua.cpp:14`, `165`, `201`:
  what is read is copied out of a temporary, so that short strings, as arguments, in
  fields and as answers, point to freed characters. `iJs.cpp:159`: only the `char*` of a
  string is kept; it dangles if nothing else in the script holds the string.
* `iJs.cpp:19`: `(undefined, 1)` arrives as `(nil, 1)`, but `(1, undefined)` as
  `(nil, nil)`, and `(1, {x: 2})` as `({x: true}, {x: 2})`: arguments are right only
  from the last undefined or object on. Each round at an object pushes an enumerator; with
  62 arguments before it, that may be more than Duktape has room for.
* `iLua.cpp:186`, `iJs.cpp:201`, `218`: what the host's calls leave on the stacks stays
  for good. Lua guarantees 20 places (`lua.h:92-93`), Duktape 64 (`duktape.h:246-249`),
  and neither bridge asks for more, so a host that evaluates or reads often enough
  uses more than it may.
* `iLua.cpp:140`: setting a variable as CLASS or NONE, by the `set` of `mlInterpreter.h:32`,
  pushes nothing: the global gets what an earlier call has left on the stack, and an
  empty stack is popped otherwise.
* `iLua.cpp:159`, `59`: reading a table takes four places of the stack per level of
  nesting and writing an object two, without a check. 20 places are enough for
  tables nested 5 and objects nested 9 deep, if nothing is left over from earlier calls; a
  table or object that contains itself overruns any stack.
* `iLua.cpp:165`: the keys 1 and "1" of a table become one field, and the one that
  `lua_next` finds last counts. The key true throws from the middle of the walk.
* `mlFactory.cpp:47-60`: two overlapping loads of one library store it twice; with one
  thread that cannot happen. Overlapping loads and searches are data races on the
  vectors; what `search` answers before one is met is right nevertheless.
* `mlFactory.cpp:33`: a load that runs while another library is stored may answer NULL,
  as if its own were loaded.
* `mlInterpreter.cpp:25`, `28`: the test for a file is inverted. The path never finds a
  script, and a script that exists is hidden by every directory that lacks it; scripts
  named relative to the working directory are run because `./` holds them too, and
  the search ends where it began.
* `mlInterpreter.h:61-62`: the object that `constructor_callback` makes is
  unreachable when it returns, because `uinion` replaces the field that holds it.
* `mlInterpreter.h:72`, `81`: instances share the methods their class had when they
  were made. Methods registered later reach no instance, an assignment to a method of one
  instance is one to all, and a class registered again starts without methods.
* `mlCallback.cpp:5-7`: if the linker puts `mlCallback.cpp` before `mlVariable.cpp`,
  the program's first metatype has the identifier of `C_CALLBACK_TYPE`.
* `mlVariable.inc:70`: `get` copies the value before it checks its type: a binary buffer
  as long as a `std::string` is copied as one first.
* `mlVariable.cpp:299`, `301`, `62`, `303`: fields are never deleted, buffers of length 0
  are not freed, and no value is destructed: all that they hold is lost.
* `mlVariable.cpp:86-105`: a copy of an empty variable must not be assigned to, and a
  copy of a short string must not outlive the original.

## Proofs

The theorems hold for every value of the constants; the named assumptions are

* `RegistryAssumption`: `MAX_TYPE_ID` is larger than the number of built-in metatypes;
* `HeapAssumption`: variables and nodes, numbers, short and long texts are distinct,
  `None` and `Wild` are not addresses;
* `BridgeAssumption`, `JsAssumption`: the kinds of Lua values, and of Javascript values,
  are distinct, unreadable contents of a table are not nil, and neither an enumerator nor
  a `char*` is a value;
* `MarshalAssumption`: the kinds of Lua values are distinct, no key is nil, and no table
  has an entry twice (a table is a map, `lua_next` walks each entry once);
* `PushAssumption`: the kinds of values are distinct, `lua_callback` and the script's
  table among them, fields always have a value, and no object has a field twice (fields are
  a `std::map`);
* `ClassAssumption`: `_binary_data` is a name;
* `FactoryAssumption`: every path leads to a library or to nothing; a coroutine's state
  is not an interpreter's;
* `SearchAssumption`: every name has a candidate for each directory, which is a file.

Each proof module defines an inductive invariant (`IInv`, or several, one upon the
other), shows that it holds initially and that every step keeps it, one step per
action, and draws the theorems from it. Every invariant and every action property that
a passing run checks is proved.

* `RegistryProofs`. Uniqueness is not inductive: a scan that starts at
  index 1 could miss the identifier at index 0. `IInv` adds that the n-th entry
  carries identifier n (`ContentInv`) and that everything below `type_id` is taken
  (`ScanInv`), from which the scan ends with `type_id` equal to the length of the
  vector (`EndOfScan`). Theorems: `TypeCorrect`, `RegistryUnique`, `IssuedUnique`,
  `ReissueLate`, and `Refinement`: every step is a step of `IdAllocator` or a
  stutter (a scan that throws has seen all identifiers). `ScanAdvances` and
  `ScanBounded` are what `GenerateReturns` rests on beside fairness: each step of the
  scan raises `Progress`, although `i` goes back to 1 on every hit, and `Progress` is
  bounded.
* `VariableHeapProofs`. `Owned` needs that unconstructed variables hold nothing
  (`DeadReset`) and the types; `TextStays` also that the characters of a string
  are at an address of the heap (`Homes`). `GetIsSound` follows from `Owned`, which ties
  what a block holds to the size and the type of its variable. The assignments share their reasoning in a
  lemma about a variable that takes over a block nobody owns. The action properties are
  proved operation by operation: which block it frees, which it fills and which it
  leaves without an owner; for `LeaksKnown` also whether
  what held it is still reached. `CyclesExplained` reasons about sets of nodes closed under
  "has a field in": an assignment closes a cycle exactly when its target lies in every
  closed set that holds the fields of its source. Theorems: `TypeCorrect`,
  `ExclusiveOwnership`, `FieldsStayAlive`, `GetIsSound`, `NoDoubleFree`,
  `ValuesIndependent`, `TextStays`, `LeaksKnown`, `CyclesExplained`.
* `LuaBridgeProofs`. `IInv` says that every answer so far is what the bottom of the
  stack may read as: one value, or any contents if it is a table. The lemma `StepEffect` says what any step does to the bottom.
  Theorems: `TypeCorrect`, `AnswersFrozen`, `BottomIsStable`.
* `JsBridgeProofs`. `ArgumentsReceived` speaks of the end of the loop; `IInv` says
  where the loop is: either all it has read was popped and the frame is what is left
  of the arguments (`Clean`), or it is stuck at a value that stays, with that value or
  its enumerator on top (`Stuck`). There is one lemma for each kind of value read,
  two for the causes of an error (`Stuck` also counts the enumerators) and two for the
  end of the loop, of what was read and of which strings are still on the frame. `LoopGoesOn` and `RoundsCounted` are what
  `CallbackReturns` rests on beside fairness: every round finds a value that it can
  read, and reads one more of the same arguments. Theorems: `TypeCorrect`,
  `FrameNeverShort`, `ArgumentsKnown`, `TextsKnown`, `ErrorsExplained`, `LoopGoesOn`, `RoundsCounted`.
* `FactoryProofs`. `SearchComplete` speaks of what a search has answered; `IInv` says
  of every thread what it has found out and that this stays true while others append:
  the libraries a load has compared are others than its own (`Compared`), those a
  creation has passed have other names (`Passed`), the interpreter looked for lies
  ahead (`Ahead`). `Writer` says that one thread at most is storing, and has room.
  Theorems: `Types`, `Duplicates`, `Searches`, `NamesStay`, `AloneSafe` (from a second
  invariant for one thread), `ImplementsCatalog` (every step is one of `LibraryCatalog`
  or a stutter) and `NullsExplained`.
* `LuaMarshalProofs`. `IInv` says how high the stack is for the number of tables being
  walked (`Height`), what is at the places of each (`Layout`), and that the tables lie in
  each other (`Descent`), so that a ranking of the tables bounds their number. What is read
  needs a second invariant, `RInv`: `Counted` (how many arguments have been read) and
  `Collecting`, that each table being walked has collected what its entries so far say,
  and was found where its parent stands. What a table reads as
  (`Reading`) is a recursive function of the depth to which it is followed; that it
  unfolds as defined is an induction, made by the least number outside a set
  (`SetInduction`), and `ReadsAs` says that a value read stays right however much
  deeper the table is followed. Theorems: `StackRestored`, `NestedTablesFit`,
  `ThrownTables`, `ReadSoFar`, `TypeCorrect`, `ArgumentsRead`.
* `LuaPushProofs`. The same for objects; `OnTop` says that a callback is never anywhere
  but on top of the stack, above the name under which it was registered. A second
  invariant, `SInv`, says what the tables hold (`Clean`): each object being walked has its
  table where it belongs on the stack, filled as far as it is walked, all other tables
  are finished, and Old is as it was. It names for every table the object it was made
  from, which is the witness that `Converted` asks for. Theorems: `NestedObjectsFit`,
  `CallablesNamed`, `PushedRight`, `TypeCorrect`, `OldTables`, `ConvertedRight`.
* `InterpreterProofs`. `SiblingsAgree` compares values; `IInv` says which addresses
  are shared (`Common`) and that variables of different classes or generations share
  none (`Apart`). Theorems: `TypeCorrect`, `ObjectsAreLost`, `InstancesAgree`,
  `LaterMethodsUnseen`. Of the file search, `SearchInv` says what the `stat`s have
  established: all candidates before the one looked at were there (`Skipped`), and the
  one chosen was missing at some time or is the name itself, after all others had been
  seen (`Choice`). Theorems: `PathFindsNothing`, `StayingScripts`.

Only model-checked: the liveness properties `GenerateReturns`, `CallbackReturns`,
`OperationsReturn` and `ConversionEnds`, because liveness under fairness is outside what
the prover handles (for the first two, the progress that they rest on is proved); and
the violated `AliasGenerated`.

## Not modelled, and why

The implementation files of the repository have some 11,000 lines, of which about
9,000 are the vendored headers of Lua and Duktape: declarations and configuration
macros that state no behaviour of this system. The bridges' modules state what they
rely on of the libraries behind them. Of the library's own 2,000 lines the following
are not modelled.

* `callback_helper` and `function_caller` (`mlCallback.h:150-260`), with the padding of
  arguments and the context per thread: they run only after a lookup in the callback
  table has succeeded, and it never does (`mlCallback.cpp:18`).
* `mlVariable::operator()`: it has no caller, and it uses the member `owner`, which no
  constructor sets. `operator==` (which ends without a return for two variables of one
  type), `cast` and the metadata buffers of metatypes change no state or are never used.
* `push_to_stack` of objects in `iJs`: the same loop as in `LuaPush`, but functions are
  registered under themselves, not under the name of their field. Buffers of `iJs`, whose lifetime is up to
  Duktape's reference counts, and what the globals of `JsBridge` hold.
* `iLua::call` of a variable, which throws on every function variable or changes
  nothing, and the state of Lua after a C++ exception has crossed its frames.
* The text of error messages and its lifetime (`mlException`, `mlLib::error` of a
  deleted library): a read of freed memory has no outcome to model beyond what it
  prints.
* Reading and formatting (`operator<<`, `dump`, the streams, the demo), the introspector
  stub, the interpreter descriptions (constants).

`operator=(T)`, `iLua::set` and others end without the `return` their type asks for;
the models take the unoptimised build, in which they return.

## What could follow

1. An abstract store of globals that both bridges implement as far as they do, and the
   globals of `JsBridge` with it.
2. The conversion of objects by `iJs` in the detail of `LuaMarshal` and `LuaPush`.
3. A ranking for `ConversionEnds` and `OperationsReturn`, as there is one for
   `GenerateReturns` and `CallbackReturns`.
