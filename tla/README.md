# MonoBoxedLua in TLA+

MonoBoxedLua is LuaInterface, a bridge between Lua 5.1.5 and the Common Language
Runtime, together with the Lua it embeds (with a few additions of its own, such as
errors raised as CLR exceptions). This directory holds TLA+ models of its core, TLC
configurations that check them on small instances, and proofs checked by TLAPS.

`PROJECT.json` is the index: components, runs, the definitions mapped to the source
lines they translate, the hazards of the code with the properties that cover them, the
defects found and the theorems. Source paths below are relative to `src/`; `lua/`
stands for `lua-5.1.5/src/`.

## Running it

    tlc -workers 2 -config LuaGC.cfg MCLuaGC.tla        # any run of PROJECT.json
    tlapm LuaReferences_proofs.tla                      # the proofs, also of the other *_proofs modules

Each run takes between a few seconds and about three minutes with two workers.

## The system

| Component | State | Operations | Hard part |
|---|---|---|---|
| Registry references, `lua/lauxlib.c` | the free list threaded through the registry table | `luaL_ref`, `luaL_unref` | memory errors between two stores; `lua_objlen` returns any border |
| LuaBase and leak cleaning, `LuaInterface/LuaBase.cs`, `Lua.cs` | `Reference` and `Owner` of each object, `_leaked_refs`, `_has_leaked_refs`, its lock | constructor, `Dispose`, finalizer, `Lua.Leaked`, `Lua.CleanLeaks`, `Lua.Dispose` | the finalizer thread against the thread that runs Lua; two builds (`NET_4` or not) |
| CLR object handles, `LuaAPI/luaclr.cs`, `ObjectTranslator.cs` | GCHandles inside userdata | `newref`, `freeref`, `getref`, the `__gc` of references, `lua_close` | two garbage collectors, handle values that are used again, `__gc` code that runs during `lua_close` |
| Lua collector, `lua/lgc.c`, `lfunc.c`, `lstring.c` | marks, gray lists, string table, `tmudata`, phase | `singlestep`, barriers, `luaC_fullgc`, `luaF_findupval`, `luaF_close`, `luaS_newlstr` | incremental: the program runs between any two steps |
| Calls, errors, coroutines, `lua/ldo.c`, `lvm.c`, `LuaInternalException.cs`, `LuaThread.cs`, `luanet.cs` | `errorJmp`, `nCcalls`, CallInfos, `allowhook`, `errfunc` of each thread; `Lua._L`; the host stack | call, protected call, throw, resume, yield, hook, `__gc` call, `entercfunction` | one host stack shared by all threads; CLR exceptions as Lua errors |
| Tables, `lua/ltable.c` | array part, node part, free pointer | get, set, rehash, next, getn | iteration while entries change, borders, main positions |
| Virtual machine and stack, `lua/lvm.c`, `lfunc.c` | registers, open upvalues | the instructions | reallocation of the stack under live pointers |
| Parser and code generator, `lua/lparser.c`, `lcode.c` | registers in use, pending jump lists, block scopes | statements and expressions | lists threaded through the code being emitted |
| Precompiled chunks, `lua/ldump.c`, `lundump.c` | none | dump, undump | the two sides agree on the layout |
| C API, `lua/lapi.c` | none of its own | stack operations | index arithmetic |
| Strings, memory, streams, `lua/lstring.c`, `lmem.c`, `lzio.c` | string table, allocation debt | intern, grow, fill | a resize in the middle of a sweep |
| Auxiliary library, `lua/lauxlib.c` | `luaL_Buffer` | add, push result | the pieces a buffer keeps on the stack |
| Standard libraries, `lua/lbaselib.c`, `lstrlib.c`, `ltablib.c`, ... | almost none | pattern matching, sort, ... | back-tracking limits, an invalid order function |
| Debug interface, `lua/ldebug.c`, `ldblib.c` | hook fields | `sethook`, `getinfo` | symbolic execution of code |
| Native additions, `lua/luaclr.c` | the tag, `ftry`, `fthrow`, the bytecode switch | accessors, `luaclr_checkstack` | the protected stack growth |
| Lua (host object), `Lua.cs` | `_L`, translator, hook delegate | `DoString`, globals, `SecureLuaFunctions` | life cycle |
| Entering C# from Lua, `LuaAPI/luanet.cs` and the P/Invoke files | `Lua._L` | `entercfunction` | restoring it on every exit |
| Method dispatch, `MethodWrapper.cs`, `CheckType.cs` | the last method called and its converted arguments | call, overload search | re-entrant calls through one wrapper |
| Metatables, member cache, `Metatables.cs`, `ProxyType.cs` | `__index` caches | lookup | what may be cached, and for whom |
| LuaTable, LuaFunction, LuaThread, LuaUserData, ... | one reference each | forward to the C API | stack discipline when a callback throws |
| Events, delegates, generated classes | pending events | add, remove handlers | removal of a handler that was never added |
| Registration attributes, exceptions, stack assertions | none | reflection, debug checks | none |
| Interpreters, tools, tests, sample | - | - | outside the library |

How they interact: managed code calls the C API through P/Invoke on the lua_State in
`Lua._L`; Lua calls managed delegates, which point `_L` at the running thread with
`entercfunction` and put it back. A LuaBase keeps a Lua value alive through a registry
reference; a userdata keeps a CLR object alive through a GCHandle; so each collector
holds roots of the other. Only two threads touch shared state: the one that runs Lua and
the finalizer thread of the CLR, which may not call Lua and leaves references in a queue
or a list. Lua errors inside managed frames are CLR exceptions thrown by `fthrow` and
caught by `ftry`.

What makes each modelled component correct is stated as the properties below; the rest of
the list is in the plan.

## The modules

| Module | Models | Instance |
|---|---|---|
| `RefPool` | what `luaL_ref` and `luaL_unref` promise: an abstract pool | |
| `RegistryRefs` | the free list in the registry; implements `RefPool` | `MCRegistryRefs` |
| `RegistryRefs_proofs` | theorems about `RegistryRefs` | |
| `LuaReferences` | LuaBase objects, the finalizer thread, `CleanLeaks`; uses the operators of `RegistryRefs` | `MCLuaReferences` |
| `LuaReferences_proofs` | theorems about `LuaReferences`, built on those about `RegistryRefs` | |
| `ClrHandles` | GCHandles in userdata under both collectors | `MCClrHandles` |
| `ClrHandles_proofs` | theorems about `ClrHandles` | |
| `LuaGC` | the incremental collector and the program | `MCLuaGC` |
| `LuaGC_proofs` | theorems about `LuaGC` | |
| `CallState` | calls, errors, hooks and coroutines on one host stack | `MCCallState` |
| `CallState_proofs` | theorems about `CallState`: errors and `Lua._L`, `nCcalls` and yields, CallInfos, hooks and message handlers | |
| `LuaMap` | what a table promises: an abstract map | |
| `LuaTable` | the two parts of a table, its traversal, flags and dead keys; implements `LuaMap` | `MCLuaTable` |
| `LuaTable_proofs` | theorems about `LuaTable` | |
| `LuaCode`, `LuaParser` | the code generator and the parser: from tokens to functions | |
| `LuaCheck` | the code checker `luaG_checkcode` | |
| `LuaPrecompiled` | dumping a function and loading it again | |
| `LuaVM` | the virtual machine: one action per instruction | |
| `LuaSemantics` | the meaning of a program, written from the reference manual | |
| `LuaCompiler` | all of these together: compile, reload, run, compare | `MCLuaCompiler` |
| `LuaBuffer` | `luaL_Buffer` | |
| `LuaBuffer_proofs` | a theorem about `LuaBuffer` | |
| `LuaPattern`, `LuaStringLib` | the pattern matcher and the string functions that use it | |
| `LuaMatches` | what a pattern matches, without a search: the reference | |
| `LuaTableLib` | `sort`, `insert`, `remove`, `concat` | |
| `LuaLibraries` | a call of either library, or operations on one buffer | `MCLuaLibraries` |
| `MethodCalls` | calls from Lua to overloaded CLR methods through one wrapper | `MCMethodCalls` |
| `MethodCalls_proofs` | theorems about `MethodCalls` | |

Operators named after a fault (`...Unlinked`, `...Twice`, `...Missing`), each with a
comment that starts with "Mutant", are faulty versions of the operator that follows.
They are in no specification; put in place of the real one they make the property
`PROJECT.json` names fail, which shows that the property depends on that code.

The type invariant `TypeOK` of a module is a conjunct of one of its named invariants, so
that each run states it once, next to something that depends on it.

### RegistryRefs and RefPool

`reg` is the integer part of the registry: index 0 (`FREELIST_REF`) leads to the first
free slot, each free slot to the next, and the end of the list is nil, because the first
`luaL_unref` copies the still empty index 0. `Ref` and `Unref` are the two functions;
`RefFails` and `UnrefFails` are the memory errors their stores can raise, which only a
slot that holds nil can (its key may be gone after a rehash). When the list is empty,
`luaL_ref` takes `lua_objlen + 1`, and `RefChoices` allows every border of the table.
`held` is a history variable: the references callers have.

Run `registry_refs` (five slots, two objects): the list is finite, meets no slot in use and loses none
that holds a value (`FreeListSound`); what is held resolves to an object and is never
chosen again (`SlotIntegrity`); as long as no store failed, no slot is lost (`Compact`);
and the table implements the pool under the mapping `live <- [r \in held |-> reg[r]]`
(`ImplementsPool`). Five slots give lists with every order of release and holes of any
shape; the proofs remove the bound.

### LuaReferences

Two processes. The thread that runs Lua (`main`) creates, disposes and forgets LuaBase
objects and runs `CleanLeaks` one statement at a time; the finalizer thread (`fin`)
runs `~LuaBase` and `Lua.Leaked` one shared access at a time. `NET_4` is the build:
with it the two share a `ConcurrentQueue`, without it a list, a flag that is read
without the lock, and `Monitor.TryEnter`. `rooted` and `registered` are the CLR
collector's view: what the program reaches, and what still has its finalizer to run
(`GC.SuppressFinalize` and `ReRegisterForFinalize` change it). Memory errors of
`luaL_unref` come out of `Dispose` and of the middle of `CleanLeaks`, and leave the lock.

Run `references` (two objects, two slots, one memory error, both builds):

- `WrappersResolve`: an undisposed LuaBase finds its own value;
- `ReleasedOnce`: no reference is due to be given back twice, and what waits to be given
  back is not in use again;
- `QueueLosesNothing`: with the queue every value in the registry has an owner;
- `FlagCovers`: with the list, the flag read without the lock agrees with the list
  whenever nobody is inside the lock;
- `NoThreadWaits`: under fairness of the finalizer thread alone a finalizer ends, even if
  the other thread is suspended in the lock (`FinalizerNeverWaits`); under
  `HostFairness` a call of `CleanLeaks` ends, however many finalizers run meanwhile
  (`CleanLeaksReturns`);
- `ForgottenIsReleased`, under `HostFairness`: with the queue, what the program forgot
  leaves the registry in the end.

Two LuaBases and two slots are the least in which a slot passes from one owner to
another while the first one's finalizer is under way. `WrappersResolve` and the others
that speak of values end with the first memory error (`Usable`): after it a slot may be
empty under a LuaBase that still has it. So a memory error of `luaL_unref` inside `CleanLeaks`, after which
references that were already given back may be given back again, is covered by no property.

Run `references_lost` expects a violation. In the build with the lock, a finalizer that
finds the lock taken calls `GC.ReRegisterForFinalize` "try again later"
(`LuaInterface/LuaBase.cs:82`), and then `Dispose(bool)` sets `Owner = null` all the
same, so the second finalizer returns at once and the reference stays in the registry.

### ClrHandles

Each userdata passes through `bare` (after `luaclr.newref`), `ready` (with the metatable
that has `__gc`), `condemned` (in `tmudata`), `finalized` and `gone`. `handles` is the
GCHandle table of the CLR, whose freed values are handed out again; `roots` and `alive` are
the CLR collector's. The Lua collector is reduced to what it does to userdata (`LuaGC`
has the rest). `Revive` is a `__gc` of a Lua program (`newproxy`) that finds a condemned userdata. `CloseBegin`
and `CloseEnd` are `lua_close`, between which `__gc` code may push, read and
revive. `CallGcFails` is an error between GCTM's marking of the userdata as finalized
(`lua/lgc.c:450-457`) and the first instruction of its `__gc`: a C stack overflow in
`luaD_call` (`lua/ldo.c:389`) or no memory for the stack or the CallInfos. That `__gc` is
never tried again, and the userdata is swept with its handle. The history variables say
which promises no longer hold: `revived` has what a `__gc` brought back without its contents,
and `lost` the handles that stay for good because of one of three failures: an error between
`newref` and `setmetatable`, a push during `lua_close`, or a `__gc` that could not be called.

Run `clr_handles` (the marker and two userdata, two objects, three handles): a userdata
never names a foreign or freed handle (`HandlesMatch`), what Lua reaches is usable
(`ReachableIsUsable`), no handle but those in `lost` is without a userdata that will free it
(`NoHandleLeak`), and dropped userdata have their handle freed unless one of these failures
befalls that very handle (`UnlinkedIsFreed`). Three handles are enough for one to be
freed and used again while another userdata exists.

Run `clr_handles_forgotten_lua` expects a violation: `Lua.Init` stores a userdata with a
Normal GCHandle of the Lua object itself in the registry (`LuaInterface/Lua.cs:97`), so
a Lua nobody disposes is reachable for ever, its finalizer never runs and its state is
never closed; the test `FinalizeLua` (`LuaInterfaceTest/Dispose.cs:92`) expects it to be.

### LuaGC

The heap is `alloc`, `refs` (fields, stack values, the value of an upvalue) and `open`
(the open upvalues with their threads). Every step of `singlestep` is an action:
`Start`, `Propagate`, the loops of `atomic` (`RemarkUpvals` and the others, between
which the program is blocked, as in the code), `SweepString`, `Sweep`, `CallGCTM`,
`CallGCTMFails`, `EndCycle`; `FullGC` is `luaC_fullgc`, which may give up a cycle at any point. The
program allocates, loads, stores (with the barrier of the object stored into), makes
closures over its variables and shares their upvalues, passes values to coroutines, and
closes upvalues.

What is abstracted: the gray lists and the lists of userdata are sets (any order of
traversal and of `__gc` calls; within the atomic step, which nothing can observe, the order is fixed); a sweep step visits one object
(`GCSWEEPMAX` is a matter of pacing) and there is one string in each bucket; the debts and
thresholds that decide when a step runs are left out, so a step may run at any time; the
two whites are named by the part they play, `white` for new objects and `dead` for what
the cycle left, and change their names when the atomic step flips them; the value of an
open upvalue is kept as `refs[v]` and is part of the stack of its thread; metatables are
fields, and every userdata has a `__gc`; tables are weak in their values or not at all.
Values are read through the program's own stack; the program runs on the main thread or
on a coroutine that is on a running stack.

Run `lua_gc`: no pointer from an object that is not dead to freed memory, and no object in
two gray lists or in one once it is freed (`NoDangling`); nothing black points to anything
white in the mark phase (`TriColour`); nothing reachable is dead (`OnlyGarbageIsDead`);
no userdata is freed before GCTM has taken it for its `__gc`, and none is taken twice
(`FinalizedBeforeFreed`); the `__gc` is called then unless `luaD_call` raises an error before
entering it, or its metatable has lost it (`CallGCTMFails`), which the history `missed` records and after which it never
is; garbage is
freed or brought back (`GarbageIsFreed`). `Heaps` bounds which objects a behaviour may
allocate besides the main thread and the registry: two of weak table, userdata, string and
coroutine, or a coroutine with a closure and its upvalue. One object of each kind is
enough for a barrier to matter, because the stacks and the registry are further objects.

### CallState

`host` is the one stack of the process: the frames of `luaV_execute`, of C functions,
`luaD_pcall`, `lua_resume`, `luaG_errormsg`, hooks and `__gc` calls, each with its
lua_State and the C locals it restores from. `th` has the fields of each lua_State.
A frame with `called` was entered through `luaD_call` and counts in `nCcalls`.
`Throw` is `luaD_throw`: it writes the error code at the handler in `errorJmp` of the
given thread; then the exception goes to the innermost `ftry` on the host stack
(`Caught`), whatever thread that is of, running the `Dispose` of each
`entercfunction` on its way (`Disposed`). `Survives` is the check of
`luaD_rawrunprotected` that exits the process. `ResumeThread` is `auxresume` and
`LuaThread.Resume` with `lua_setlevel` and `lua_resume`; `Yield` is `lua_yield`.
`process` is `torn` once a CLR exception has left Lua code without any `ftry`.

What is abstracted: values, results and error objects (with the status -1 of an
exception that is no Lua error); a message handler that is not a function is as none;
a dead thread keeps no fields; yields from hooks and the growth of stacks are left out;
the body of a coroutine is a Lua function, as `luaB_cocreate` demands. `Kinds` bounds
which functions are called: "native" ones differ from "managed" only in leaving
`Lua._L` alone, which calls of Lua functions on another thread do as well.

Run `call_state` (two interchangeable coroutines, hence the symmetry set; seven frames,
`MaxCCalls` 3 with 2 above it, no call of a Lua function by a thread with two CallInfos):

- `HandlersMatch`: the chain through `errorJmp` is the chain of protected calls of each
  thread, and the handler of the running thread is the innermost `ftry`, so an error is
  caught where it was thrown at;
- `LevelsCounted`: `nCcalls` is the number of nested C calls, those of the resuming
  threads included, after every error, and stays below the second limit;
- `FramesMatch`: a `luaV_execute` returns after as many functions as it has;
- `YieldsDirectly`: a yield never crosses a C call, a protected call or a hook;
- `CurrentThread`: `Lua._L` is the thread of the innermost managed function;
- `HooksAndHandlers`: hooks are off only within hooks and `__gc` calls, and `errfunc`
  is the handler of the innermost protected call.

Seven frames hold a coroutine inside a coroutine that was called from a managed
function, with a further frame on top, and protected calls around the first; the limits
of three and five levels are reached with frames to spare.

Run `call_state_exit` expects a violation: `lua_checkstack(co, narg)`, before the values
are moved, raises its memory error on `co`. The comment in `LuaThread.Resume` says that
errors on the target thread are to be avoided; when `co` waits for another coroutine, its handler is marked,
another `ftry` catches, and when the marked one returns later the process exits.

### LuaTable and LuaMap

`t` is the table: `array`, `node` (a node has a key that may be dead, a value and the
position of the next one) and `lastfree`. `Place` is `newkey` when there is room, `Rehash`
and `Resize` rebuild both parts in the order the code re-inserts entries, `Find` walks the chains
as the loops of `luaH_get` and `findindex` do; these run without interruption, so they are operators, and
the actions are what happens between two of them: `RawSet`, `RawSetI` and `SetTable` (on
a table that is its own metatable), `FastTM` (`luaT_gettm`), `SetList` in a constructor, the
collector's `Traverse` and `ClearWeak`, and a traversal (`ForEach`, `NextEntry`) that is open
meanwhile. A store of a new field during a traversal makes it undefined, as the manual
says, so the model stops following it. `lua_next` of `LuaTable.Clear`, `Count` and `ForEach`, and the shifts of
`table.insert` are sequences of these actions.

Run `lua_table` (integers 1 to 3, a string, an object, four nodes; the hashes make an
object collide with integers and push the loser to the main position of the string):

- `NodesSound`: the main invariant stated at the top of `ltable.c`, chains that end, no
  free node behind the free pointer, and no rehash within a rehash;
- `LengthIsBorder`: `luaH_getn` for every distribution of the integers over both parts;
- `CachedAbsence`: the flags tell the truth;
- `TraversalVisits`: the entries that stay are visited once each. An object cleared,
  marked dead and stored again is in its chain twice; `findindex` finds the live node
  first only because `newkey` puts it at, or directly behind, the main position;
- `ImplementsMap`: under `map <- [k \in Keys |-> Get(t, k)]` every step changes what its
  operation was asked to change and nothing else. The history `asked` has the keys and values
  that were given: the key of a store, the first integers for the list of a constructor, the key
  the collector clears, none for a lookup, a traversal or the mark phase, nor for a store
  that `luaV_settable` refuses because a `__newindex` may exist. A rehash that dropped
  another entry would not be a step of the map.

`asked` decides no action, so the run's `VIEW` leaves it out: two states that differ in it
only have the same steps, and each step is compared with its own `asked`. `Getn` leaves out the linear
search of `unbound_search` for a table whose doubling overflows an int (`lua/ltable.c:539`),
which takes keys beyond 2^30.

Four nodes are the fewest in which a node is moved out of another one's main position,
three integers the fewest with an array of four and a hole in it. `Watched` bounds only
whose visits are counted: an integer that may be in either part, and the object.

### The compiler: LuaCode, LuaParser, LuaCheck, LuaPrecompiled, LuaVM, LuaSemantics

A behaviour of `LuaCompiler` takes one program of `Programs`. `Compile` is
`luaY_parser`: `LuaParser` has one operator for each production of `lparser.c`, which
reads tokens and emits code with the operators of `LuaCode` (`lcode.c`) into a FuncState
that is passed along; jump lists are threaded through the code, `jpc` holds the jumps that
wait for the next instruction, registers are handed out and freed one by one. `Reload`
is `string.dump` and `loadstring` (`LuaPrecompiled`) and may happen any number of times.
Then `LuaVM` runs the code an instruction at a time: `L` is the thread with its stack,
CallInfos, closures, upvalues and tables, and each instruction of `luaV_execute` is an
action (with the metamethods it may call: what it does after such a call is kept in
`after`). `LuaCheck` is `luaG_checkcode`.

`LuaSemantics` is the other side: programs are syntax trees, `ProgramText` writes one down
as tokens and `Meaning` evaluates the tree by the rules of the reference manual, with
environments and cells instead of registers and upvalues. Where the manual leaves the
order of evaluation open it takes that of the code.

Run `compiler`:

- `RunsAsWritten`: what the program shows through the host function `emit`, and what it
  returns, is what the tree means, before and after dumping;
- `CodeIsSound`: no `lua_assert` of the parser and the code generator fails, and every
  function passes the code checker;
- `StackSound`: the assertions at the head of `luaV_execute`, at every instruction: the top
  is that of the frame unless an open list of values is under way, and frames do not
  overlap;
- `OpenUpvaluesInScope`: an open upvalue belongs to a variable in scope, or the next
  instruction closes it; a loop left by `break`, `return` or an iteration closes what its
  closures captured.

The programs are families, 2668 in all with their arguments: conditions of up to three operands in every
context an expression has; arithmetic, comparison and concatenation with constants (and
their folding); every list of up to three items where one, some or all values are wanted;
each kind of loop with its variable captured or not and left in each way; assignments to
two or three targets of every kind; and programs written by hand for methods, metatables,
varargs, constructors longer than one flush, recursion and tail calls.
`MaxIndexRK`, `FieldsPerFlush` and `MaxArgC` are 2 so that constants leave the range of an
operand, constructors flush and block numbers take an extra word within a few lines.
Thirty stack slots are more than any of the programs uses; `StackSound` would fail first.

What is abstracted: numbers are small integers and strings are concatenated for display
only; programs follow the grammar and raise no error; there are no collections, hooks or
coroutines (`LuaGC`, `CallState`); a table is a map (`LuaTable`); the limits of the
parser whose errors refuse a chunk are not reached.

`Compiler`, `Reloader` and, in the libraries, `Matcher` are operators the configuration
gives (`Compiled`, `Reloaded` and `match`): mutually recursive operators called directly
from an action make TLC's statistics of the model unfold every chain of calls.

### The libraries: LuaBuffer, LuaPattern, LuaStringLib, LuaTableLib, LuaMatches

`LuaPattern` is `match` of `lstrlib.c` with its helpers: it backtracks over one MatchState
whose captures failed attempts must undo. `LuaStringLib` makes one call: `find`, `match`
and the functions on positions in one step, `gmatch` an iteration at a time, `gsub` a
place at a time, with a step of its own for the replacement function, which may return
anything of `Returned`. `LuaBuffer` keeps the characters in the C array and the pieces on
the stack; its operations are actions, and `gsub` and `concat` use the same operators.
`LuaTableLib` runs `auxsort` one comparison at a time: in between, the order function is
Lua code, which may raise an error or, as `"any"`, answer anything.

`LuaMatches` defines what a pattern matches without any search: `Ways` lists every way to
match the items from a position in the order of preference, with captures as values.

Run `libraries`:

- `MatchesReference`: each call returns what the first way gives, `gmatch` and `gsub` the
  matches from left to right, or the error of a malformed pattern;
- `BufferSound`: a buffer holds what was added in order; neither its array nor the stack
  slots of a C function overflow; proved for the buffer by itself, for all sizes;
- `TableSound`: at every call of the order function each element is in the table once,
  whatever was answered before; with a real order the parts sorted so far are final and
  the recursion is logarithmic; `insert`, `remove` and `concat` do what they say.

Bounds: subjects of up to three or four characters, of a letter the pattern names and
another, or with spaces and brackets; every pair of repetitions and every
single item with a capture around it; three captures at most (`LUA_MAXCAPTURES`); a
buffer of three characters and six stack slots with nine characters added, which fills it
three times; all arrays of up to five elements out of three values, which makes `auxsort`
take a median, partition, and go on with either part. An order function that answers anything gets
distinct elements, up to five.
Characters are one-letter strings and numbers their digits. `string.format`, `lower`,
`upper`, `char`, `table.foreach` and `maxn` are left out. A subject is searched without
patterns when the pattern has none of `SPECIALS`, which does not contain `)`, so
`string.find("a)b", ")")` finds it where `string.match` raises an error; the model follows
the code.

### MethodCalls

`members` are the overloads of a method name, `cache` is `_LastCalledMethod`, `arrays` has
the arrays of arguments, which the cache and the calls name, and `calls` are the calls of the wrapper
that run inside one another. Lua may run, and call the same wrapper, wherever a call
leaves managed code: in the method, in a translator or an `IPushable.push`
(`LuaInterface/ObjectTranslator.cs:535`), and in every allocation of Lua, which may run the `__gc` of
any object; also the conversion of an argument allocates, as `luaL.getmetafield` does
(`LuaInterface/CheckType.cs:167`). So a call takes one step from each such point to the next:

- `CallMethod` begins a call, which will use the cache (`CacheUsable`) or search;
- `StoreArgument` stores one converted argument in the array of the cache and reads the cache for
  the next, or calls `Invoke` after the last one; it follows the code in what it reads once
  (the array, the type of the entry) and what again (the number of entries, `isParamsArray`);
- `TryMember` is one member of the search: `matchParameters` (`Matched`), the cache it
  leaves (`Found`), `memberIsAllowed` and `Invoke`;
- `MethodReturns` writes ref and out parameters back into the array of the call;
- `Pushed` is the end of the push of one value; then the next out value is read from whatever is in the cache;
- `Throws` is an exception in the way that uses the cache (`Thrown`: another search if there are
  several members), `Raises` one that ends the call, an error of Lua included;
- `Filter` adds or removes filters, between any two steps.

`matchParameters` converts arguments too, but keeps its results in local variables and stores
them at its end, so it is one step: calls that come in meanwhile are as those before it.
Filters are not supposed to call Lua, and the receiver of an instance method is left out. A history, `lost`,
has for each call the entries of its array that other calls wrote after it did.

Run `method_calls` (five families of overloads that share their numbers of arguments; two
arguments, two calls inside one another, one overload refused at a time). Its `VIEW` leaves
out what nothing reads any more: arrays in no use, arguments of a call that
cannot search again, and `results`, which the properties read in the step that leaves them.

- `ArgumentsOfTheCall`: an overload called from the cache gets each argument of its own
  call at its own parameter, converted as remembered, and as a search would convert it where
  that would remember the same;
- `ResultsOfTheCall`: a call leaves its own result and out values, as many as its overload has;
- `RunsAllowed`: none runs that the filters refused when its call asked them, and none but
  the one it asked about.

All three are proved for every instance. Two levels are enough for one call to change what another one reads.

The first two leave out what the code does not keep to, which no comment or test of
the repository speaks about:

- entries that a call through the cache wrote in between (`lost`): the two share one array. A method
  can so run with an argument, and leave an out value, of the call nested in it;
- calls in between that searched and put another array into the cache: the rest
  is then read from that one, with its number of out values and its `IsReturnVoid`;
- conversions that would be others today: an array parameter that was given a table once takes a
  single value for no elements afterwards, skipped optional parameters stay skipped, and a
  number out of the range of its parameter is cast where a search would refuse it.

And `RunsAllowed` allows two things: a filter that is added while arguments are converted does not
stop that call; and an exception while the result of an overloaded method is pushed has it
searched for and run a second time.

## Fairness

- `LuaReferences`: the finalizer thread is scheduled by the CLR (`FinalizerFairness`).
  Nothing is assumed of the thread that runs Lua, except in the two properties about
  `CleanLeaks`, which assume that the host calls it now and then, that its thread
  runs, and that the CLR collector gets to each unreachable object (strong fairness,
  since one finalizer runs at a time).
- `ClrHandles`: both collectors run; a push that has begun ends; `lua_close` gets
  through its list. The program owes nothing.
- `LuaGC`: weak fairness of the collector as a whole, because every allocation pays for
  steps. `GarbageIsFreed` allows that the program or a finalizer takes the object back.
- `CallState`, `RegistryRefs`, `LuaTable`, `LuaCompiler`, `LuaLibraries` and `MethodCalls` check
  safety only: they are sequential, or the program decides when to stop.

Deadlock is checked where the system can always go on (`RegistryRefs`, `LuaGC`, `LuaTable`,
`MethodCalls`) and where it may stop only at the end, which has a step of its own (`Finished` of
`LuaCompiler`, `Stopped` of `LuaLibraries`). In the others the program may end, with the Lua
closed or the process gone, so the check is off.

## What is proved

`RegistryRefs_proofs`, for every number of slots and every set of objects, from the
assumptions of `RegistryRefs` alone (`MaxRef` is a natural number; objects and nil are not numbers):

| Theorem | States |
|---|---|
| `TypeCorrect` | `Spec => []TypeOK` |
| `ListIsSound` | `Spec => []FreeListSound` |
| `SlotsKeepTheirObjects` | `Spec => []SlotIntegrity` |
| `TableIsCompact` | `Spec => []Compact` |
| `RegistryImplementsPool` | `Spec => ImplementsPool` |

The argument: that the slot `luaL_ref` takes is not in use rests on the shape of the
whole list, so `SlotIntegrity` is not inductive. `IInv` adds one witness, a list of
distinct free slots that index 0 leads through, with everything off the list empty,
and dense together with the slots in use unless a store failed. `RefIInv` removes the
first of that list or extends the table at its end, `UnrefIInv` puts a slot in front,
`RefFailsIInv` and `UnrefFailsIInv` follow the two memory errors; `ChoiceIsFree` gives
`SlotIntegrity` from the shape for any border `lua_objlen` may return; `FreeListFits`
bounds the list by a pigeonhole. The refinement follows step by step from `IInv`: a
`Ref` acquires, an `Unref` or its failure releases, a failed `Ref` stutters.

`LuaReferences_proofs`, for any number of LuaBases, values and slots, any pattern of memory
errors and both builds, from the assumptions of `LuaReferences`:

| Theorem | States |
|---|---|
| `ValuesAreKept` | `Spec => []WrappersResolve` (with the type invariant) |
| `NothingReleasedTwice` | `Spec => []ReleasedOnce` |
| `QueueKeepsAll` | `Spec => []QueueLosesNothing` |
| `FlagTellsTheTruth` | `Spec => []FlagCovers` |

The argument has two layers. `Control` says where the two threads are and what follows of
the lock, the flag and the LuaBase that is being finalized: the lock is held by the
thread that is inside it, and only the finalizer changes the LuaBase it is at. It is
inductive by itself and gives `FlagCovers`. `Ownership`, which holds until a store runs out of
memory or the Lua is closed, says that each value in the registry has one owner: a LuaBase
(`Owners`) or a place in the queue of references that wait (`Pending`). It needs the
shape of the free list: without it the next reference could be one that is in use. That
part is not proved again. `RegistryRefs_proofs` is instantiated with the slots that hold a
value for `held`, and `RefIInv`, `UnrefIInv` and `ChoiceIsFree` are cited for it (`TakesSlot`,
`FreesSlot`). Every step of the two threads does one of five things to the
references (`Quiet`, `Gains`, `GivesBack`, `PassesOn`, `Releases`), each a lemma; `OwnershipStep`
says which step does which.

`ClrHandles_proofs`, for any number of userdata, objects and handle values, from the assumptions of
`ClrHandles`:

| Theorem | States |
|---|---|
| `NoStaleHandle` | `Spec => []HandlesMatch` (with the type invariant) |
| `ReachableStaysUsable` | `Spec => []ReachableIsUsable` |
| `EveryHandleIsFreed` | `Spec => []NoHandleLeak` |

A userdata has contents from `newref` until its `__gc` (`ContentsOK`), so clearing them there
is enough for `Unshared`, and a freed value may be handed out again. The objects are alive
because a handle is a root of the .NET collector (`TargetsAlive`). `NoHandleLeak` is not
inductive: freeing a userdata leaks nothing only if its handle is gone by then, and for that
`PushOK` says of a handle that is not in `lost` that its userdata is not swept yet, is on the stack while its push
is under way, and is condemned once `lua_close` runs; and that no userdata that is still to be finalized has a lost
handle. A `__gc` that cannot be called ends like one that was, but for its handle, which `lost` takes over.

`LuaGC_proofs`, for any finite set of objects of each kind, any roots and heaps and any
bounds, from the assumptions of `LuaGC` (an object is of one kind, the objects are finitely many, the
registry is not weak):

| Theorem | States |
|---|---|
| `MemoryIsSafe` | `Spec => []NoDangling` (with the type invariant) |
| `BlackHidesNoWhite` | `Spec => []TriColour` |
| `OnlyGarbageIsFreed` | `Spec => []OnlyGarbageIsDead` |
| `NoFinalizerIsLost` | `Spec => FinalizedBeforeFreed` |

None of them is inductive. That a sweep frees only garbage depends on all that was marked
before the white flipped, and that on every barrier of the mark phase; so `IInv` has two layers.

*Between flips.* `Safe` says that what is not dead keeps nothing dead, an open upvalue's value and
the values of weak tables included, with no word about marks. A dead object is revived only by
the code that does so on purpose (`luaF_findupval`, `luaS_newlstr`), and only while it has
nothing dead below it; `Sweeping` says that what is not yet white is what the sweep has yet to visit.
One lemma, `MutatesStep`, shows for all actions of the program at once that they keep this,
provided they take the values they store from what is not dead (`ReadableAlive`, `AtHandAlive`).

*Before the flip.* `Marking` gives, for each stage of `atomic`, what has been done. Gray objects are those
in the three lists and open upvalues; a black object has no white child. `propagate` leaves open
upvalues, threads and weak tables out of it, since none of them is ever black; `remarkupvals` adds
the values of marked open upvalues, the second pass over `grayagain` the stacks of
marked threads, and the traversal from the userdata kept in `tmudata` (`SeparateUdata`) the userdata
themselves. At `FinishAtomic` all gray lists are empty and the set of what is not
white is closed under everything but the weak values that are about to be cleared: so `Safe` holds with white
for dead, and the flip is sound. Each barrier is a lemma: `ForwardStep` (`luaC_barrierf`), `BackStep`
(`luaC_barrierback`), and `CloseUpvalsStep` for `luaC_linkupval`, which blackens a
gray upvalue and marks its value, or whitens it in a sweep.

`OnlyGarbageIsDead` speaks of `Reachable`, a recursive function. `ReachableIsLeast` shows that the function exists
and is contained in every set that holds the roots and is closed, and what is not dead is such a set
(`Safe`). Before the proof the invariant was checked with TLC in all states of `lua_gc`.

`NoFinalizerIsLost` needs that `separateudata` moves a userdata off the list that is swept when it marks it as finalized,
and that `TakeDue` puts it back in the step that records whether its `__gc` is called or missed.

`MethodCalls_proofs`, for any overloads, values and depth of calls:

| Theorem | States |
|---|---|
| `OnlyAllowedRun` | `Spec => RunsAllowed` |
| `ArgumentsAreOfTheCall` | `Spec => ArgumentsOfTheCall`, the type invariant included |
| `ResultsAreOfTheCall` | `Spec => ResultsOfTheCall` |

For the first, a call that goes on through the cache keeps the member it asked about when it began, and the search asks in
the step that calls (`GoesIsOwn`, `ThrownIsOwn`).

The other two rest on what `matchParameters` gives, an induction over the parameters (`MatchedFits`):
the conversions it remembers go to different parameters, none of them an out parameter, each was
applied to the argument of its own number, the parameters it has none for got their default, and the out values are
those of `Outs`. The invariant (`Inv`) says that the cache still
holds all this, but for the arguments of some call (`CacheOK`), and of every call (`FrameOK`) that, while its array is that
of the cache, it is of the overload there, and that what it has done so far is still in the array, except where `lost` says
otherwise: the arguments stored up to now (`Filling`, `Stored`), the out values written and those already pushed (`Leaving`). It is
needed because the array is used in pieces, with any number of calls between two of them. One lemma says what
a call that writes entries does to all others (`WritingIsGood`): they lose just these; another that the array of a
search is no other call's (`NewCacheIsGood`). Each action then has its own (`CallIsOwn`, `StoreIsOwn`, `TryIsOwn`, `ReturnIsOwn`, `PushIsOwn`,
`EndIsOwn`), which gives the three properties and the invariant of the next state together. `Inv` was checked with TLC
in all states of `method_calls`.

`CallState_proofs`, for any number of threads, any limits and any depth and order of calls, from the assumptions of `CallState`:

| Theorem | States |
|---|---|
| `ErrorsArrive` | `Spec => []HandlersMatch` |
| `LuaIsCurrent` | `Spec => []CurrentThread` |
| `CallsAreCounted` | `Spec => []LevelsCounted` |
| `YieldsAreDirect` | `Spec => []YieldsCrossNothing`: what `lua_yield` reads off `nCcalls` and `baseCcalls` |
| `FramesAreFunctions` | `Spec => []FramesMatch`, the types of all variables included |
| `YieldsLeaveLua` | `Spec => []YieldsDirectly` |
| `HooksAndHandlersAgree` | `Spec => []HooksAndHandlers` |

The properties compare the fields of a thread with all frames on the host stack, and a step
that pops a frame restores from what that frame saved; so `IInv` speaks of every frame. Each
protected call saved the handler of its thread at that place of the stack (`Linked`), each
managed function the thread that was current there (`Entered`), and the frames of one thread lie
together, as only `lua_resume` changes the thread (`Together`). With the last, the innermost `ftry` of
all is the first in the chain of the running thread. Frames are only pushed, popped or
changed in fields the chains do not use; `PushFrame`, `PushTry`, `PopFrame` and `EditFrame` say so
once for all actions, and `CaughtGood` for errors, which pop many frames.

The levels are a second layer (`Steady`), which holds while the process runs. Each `lua_resume` and
each protected call has the level that will be restored, which is the number of C calls
below it (`LevelsBelow`). A thread that resumed another one keeps its level only because it is not
resumed again (`Apart`), which its status shows only if what yields leaves no frame but those
of `lua_resume` and its `luaV_execute` (`Leaving`); and that `lua_yield` can tell from `nCcalls` and
`baseCcalls` (`YieldsFromExec`). So `CallsAreCounted` and `YieldsAreDirect` come from one induction.

The third layer (`Exact`), on top of both, is about what the frames of a thread say of it. `View`
computes from the first n frames of the host stack whether the hooks of a thread are on, which
message handler it has and which CallInfos; the invariant is that the thread shows the view of
all frames (`Matches`), and that what a frame saved is the view below that frame (`Saved`), which is why
popping it, or cutting the stack there after an error, restores what the remaining frames say.
A view depends on few fields of the frames (`ViewSame`) and not on the frames of other threads
(`ViewSkips`), and only grows along the stack (`ViewGrows`), so that after an error the first CallInfos
are those of the frames that stay. `Rebuilt` turns this into one lemma for a changed stack, from which
follow those for a frame that is pushed, popped or edited (`PushExact`, `PopExact`, `EditTopExact`) and for an error
(`CaughtExact`, `ThrowExact`). A coroutine that yields keeps its CallInfos without frames; they are those of Lua
functions and the C function that yielded (`Waiting`, from `YieldLeaves`), which is what `lua_resume`
needs to enter them all with one `luaV_execute` (`ResumedCopies`). An exception that leaves the program through
Lua code leaves the fields torn, and there only the types are proved, as `FramesMatch` states.

`LuaTable_proofs`, for any keys, any hash functions, any number of nodes and integers and any order
of stores, constructors, traversals and collections, from the assumptions of `LuaTable` (an object or a string is no number,
`MaxInt` and `MaxNodes` are natural numbers):

| Theorem | States |
|---|---|
| `NodesAreSound` | `Spec => []NodesSound` (with the type invariant) |
| `LengthsAreBorders` | `Spec => []LengthIsBorder` |
| `AbsenceIsCached` | `Spec => []CachedAbsence` |
| `TraversalsVisit` | `Spec => TraversalVisits` |
| `TableImplementsMap` | `Spec => ImplementsMap` |

`NodesSound` speaks of the nodes that have a value. What `newkey` and `findindex` rely on is more, and `Sound`
says it: every node with a key, live or dead, is in the chain of its main position, which the
key there shares (`Home`); a live key is found before the dead ones that equal it (`First`); chains end
(`Ending`) and never join (`Single`), and a node that was never used is in none (`Unused`). A chain is given by a
function from positions to positions, and the statements about it are made without induction: q can be
reached from p if q is in every set that has p and is closed under that function (`Joined`), and chains end
if every set of positions is left by it. `SearchMeets` and `ChainEnds` carry this over to the recursive
functions of the model, for which they show that they exist.

*Stores.* `newkey` does one of three things, each a lemma: it takes the empty main position
(`PlaceEmptySound`), links a free node behind it (`PlaceChainedSound`) or moves the node that is out of its own
main position and relinks its chain (`PlaceMovedSound`); the two changes of a chain are studied on the function alone
(`ChainedNexts`, `MovedNexts`). `Put`, `Traverse` and `ClearWeak` leave all keys where they are (`UnmovedSound`). The keys with values
(`UsedKeys`) determine what `Get` returns (`GetIs`), so that a step is described by what it does to that set.

*Rehashes.* That none starts within another is a count: a table into which the keys of `W` are stored again
has at least as many nodes as `W` has members (`Roomy`), so that a key without a node leaves one free (`Room`, by the
pigeonhole principle), and `getfreepos` finds it, as the pointer has passed no free node. `ResizeSound` follows the entries through
`resize`, `RehashSound` takes the sizes of `computesizes`, and `SetListIs` does the list of a constructor.

*The map.* `Meant` says of two tables and of what was asked for that `Get` returns in the second what was given for
the keys asked for and what the first had for all others. The lemmas of the stores and rehashes give it for each
action (`MeantStore`, `MeantNothing`), and `TableImplementsMap` puts it in terms of `LuaMap`.

*Traversals.* While a traversal is open every key keeps its index, because a new field ends what the manual defines; a dead key
keeps it too, as `findindex` accepts it and `First` says which node it meets. `Counted` compares the
index of the entry that is watched with that of the key the traversal is at.

*Lengths.* Halving keeps a border between its two ends (`BetweenBorder`), doubling ends with such a pair
(`UnboundBorder`); neither goes on for ever, by induction on the distance that is left.

What is inductive is `IInv`. It was checked with TLC in all states of `lua_table` before the proof.

`LuaBuffer_proofs`: `BufferKeepsText` is `BufferSpec => [](BufferHolds /\ BufferFits)`, for any sizes of the array
and of the stack. `BufferSpec` is a buffer by itself; `BufferSound` of the run says the same of a behaviour of `LuaLibraries` whose
`task` is a buffer, and cannot be a theorem there, as the pattern matcher is recursive. Its proof is an induction on the
number of strings: `FlattenSeq` of two sequences is that of one and of the other (`FlattenConcat`),
so `lua_concat` changes no text (`ConcatIs`); and the loop of `adjuststack` ends at the least number that is
enough, which exists (`Adjusted`).

Model-checked only: everything about the other modules; all liveness (fairness and
ENABLED are outside the prover's reach), `GarbageIsFreed` of `LuaGC` included, and the compiler and, but for
its buffers, the libraries, which are recursive.

## What is not modelled, and why

- The lexer, syntax errors, line information and the names in error messages; of the
  libraries, what is listed above.
- Generic methods, constructors through `classCall`, delegates and interfaces made of Lua
  values; the member cache and the metatables of types, which cache what does not change.
- Input, output, the operating system, dynamic loading: external effects.
- P/Invoke declarations, reflection over attributes, IL generation: no state of their own
  that Lua depends on.
- Byte layouts of precompiled chunks, formatting and parsing of numbers.
- Command line programs, tests and the sample, which are read as statements of intent.
- Some hazards met while reading that no property covers, and which are therefore not in
  the list of `PROJECT.json`: `luaC_barrierf` asserts that the collector is not finalizing,
  while a userdata that waits in `tmudata` is black then (`lua/lgc.c:664`); a status that is
  no Lua error writes no error object (`lua/ldo.c:125`); a C stack overflow in `lua_resume` takes
  the function of a coroutine that never ran off its stack (`lua/ldo.c:442`); a memory error
  between the two parts of a table's resize (`lua/ltable.c:304`). Error objects, the contents
  of the stack under errors and memory errors of tables are what the modules leave out.

## Plan

What is left, in order of importance:

1. The reallocation of the Lua stack under the live pointers of `luaV_execute`, composed with
   `LuaVM`; errors and coroutines inside the programs of `LuaCompiler`.
2. Generic methods and constructors in `MethodCalls`; pending events.
3. Memory errors in the resize of a table.
