# A TLA+ model of plugger

plugger lets one Go program (the *host*) load Go libraries built with
`-buildmode=c-shared` (the *plugins*) and call them. Two Go runtimes share one
process and speak through C functions, so everything that crosses - results,
errors, configurations, events - is encoded to bytes and copied into buffers
whose size the other side cannot know beforehand. These modules model what
happens around that boundary.

Paths below are relative to the repository's root; `PROJECT.json` maps every
definition to the lines it models.

## 1. The system

| Part | Where | State | Operations |
|---|---|---|---|
| Request path | `plugger/plugger.go` (`Init` .. `Command`, `callEpNoArg`, `callEpWithArg`), `plugin/entrypoint.go` (`noArgBaseFunc`, `withArgBaseFunc`) | the locals of each call; `resultMap` of the instance | the six methods of a `PluginHandle`, from any goroutine |
| Event path | `eventListenerLoop`, `callEpELLoop`, `callEpEventResult`; `eventListenerLoopFunc`, `eventResultFunc`, `eventEmit` | `eventHandler`; `eventReqChan`, `eventMap` of the instance; the locals of one listener per CPU | `EventEmit`, `SetEventHandler`, the listeners' loop |
| Buffers, ids | `plugger/manager.go`, `plugger/generator.go` | `bufferSize` (no lock), `currentId` (mutex) | `getBuffer`, `glowBuffer`, `Get` |
| Names | `callEpGetName`, `GetName` | the `smallBufferMgr` of a `Plugger` | one question by each `Load` for each library |
| Instance table | `plugin/manager.go` | `instMap`, `instMapByPlugin` (RWMutex) | `setInstance`, `getInstance`, `getInstanceByPlugin`, `deleteInstance` |
| Registries | `plugger/plugger.go` (`Load`, `NewPlugin`, `Unload`, `FreePlugin`, `Free`), `plugger/manager.go` | `dynLoadLibs`, `pluginHandles` (an RWMutex each) | the methods of a `Plugger` |
| Example | `example/core/main.go`, `example/plugins/sample1`, `sample2` | a script; which handles it got | a client of all of the above |
| Loader, files, coder, version | `plugger/loader.go`, `plugger/filer.go`, `common/` | none | `dlopen` and friends, gob |

**Interaction.** A method of a handle offers the plugin a result and an error
buffer. An answer that does not fit is parked in the instance's `resultMap`
under the request id, the host doubles that buffer and calls again with
`recall = 1`. Events go the other way: the plugin's goroutine sends its event,
with a channel for the response, on the unbuffered `eventReqChan`; a host
goroutine that sits in `EventListenerLoop` takes it (with the same parking and
recalling), runs the application's handler and calls `EventResult`, which finds
the response channel in the `eventMap` under the event id. A handler may call a
method of the plugin that emits again. `FreePlugin`, `Unload` and `Free` close
the channel and delete the instance, waiting for nobody.

**What is hard here.** Several goroutines use one handle; sizes are shared
without a lock; a call is a loop of entries between which anything may happen;
instances are deleted under running calls and listeners; a panic on either side
of the boundary ends the process; handlers nest. `PROJECT.json` lists each
hazard at its line. What would make each part correct:

- requests: a method runs once however often its caller comes back, each caller
  gets its own whole answer, parked answers neither get lost nor stay, buffers
  are never overrun, a call ends;
- events: an event is carried by one listener, handled at most once, and its
  emitter - and nobody else - is told what the handler made; listeners end when
  the plugin is freed;
- both: nothing but a premature free ends the process;
- a handle as a whole: a call whose method emits, or whose event's handler calls
  the handle again, returns, and neither path disturbs the other;
- registries: no call through a closed library, a library closed once for each
  time it was opened, a handle stands for its own instance, and an instance can
  always be freed through a handle;
- names: a `Load` gets its library's whole name, whatever the other `Load`s do to
  the size they share;
- the example: it ends, leaves nothing open, and dies of nothing but what it
  cannot know.

## 2. The modules

| Module | Models |
|---|---|
| `IdGenerator` | the id generator with its wrap. Constant: `IdSpan` (2^64). |
| `CBuffers` | a buffer with the word that carries its capacity across and the length back, the comparisons of the plugin with that word, and what its C int leaves in it. Constants: `CIntMax` (2^31 - 1), `MaxAlloc`. |
| `Invocation` | the abstract specification: a call runs its callee at most once, in one step, and is told what it answered, or is refused. It serves both directions. |
| `RequestCall` | the request path of one handle; implements `Invocation`. |
| `EventLoop` | the event path of one handle; implements `Invocation`. |
| `Registry` | `Load`, `NewPlugin`, `FreePlugin`, `Unload`, `Free` of several Pluggers, with the instance table of each library. |
| `PluginName` | how the `Load`s of one Plugger ask libraries for their names, with one buffer size between them. |
| `PluginHandle` | one handle: `RequestCall` and `EventLoop` on the same instance and the same `bufferManager`s. |
| `Lifecycle` | the second abstract specification: names stand for libraries, instances live in them and end with them. |
| `Example` | `main` and the two samples, as a client of `Registry`. |
| `RequestCallProofs`, `EventLoopProofs`, `PluginHandleProofs`, `RegistryProofs` | the theorems about the four. |
| `LifecycleProofs` | that `Registry` implements `Lifecycle`. |
| `PluginNameProofs`, `ExampleProofs` | the theorems about `PluginName` and `Example`. |
| `MCRequestCall`, `MCEventLoop`, `MCPluginHandle`, `MCRegistry`, `MCPluginName`, `MCExample` | the instances TLC checks. |

### RequestCall

One program counter per caller; each action is the code between two points at
which another goroutine can matter.

| Code | Actions |
|---|---|
| the six methods, encoding of the argument, `requestIdGen.Get` | `NotOffered`, `EncodeFails`, `Begin` |
| the two `getBuffer` | `GetBigBuffer`, `GetSmallBuffer` |
| entry points without the plugin's function | `NotImplemented` |
| `getInstance` at every entry | `Enter`, `InstanceGone` |
| decode error / method, encoding, comparison, parking or copying | `RejectArg`, `Run` (both through `Answer`) |
| the `recall != 0` branch | `Recall` |
| `glowBuffer`: store of the size, then load and allocation | `GlowResult`, `MakeResult`, `GlowError`, `MakeError` |
| after the loop: error from its text, decoding of the result | `Rebuild` |
| `deleteInstance` | `FreePlugin` |

An answer is the request it was made for, the length of the encoded result,
whether there is an error and the length of its text; bytes are not modelled,
`got` records whose bytes a buffer holds. A nil argument is sent as no bytes and
so belongs to the undecodable ones. `made` and `runs` are history. `setup` says
which configuration functions are not nil; they are set before any call.
Because `bufferSize` is read and written without a lock and a build may use the
stored value or load the field again, `MakeResult` and `MakeError` choose.
The lookups in `resultMap` are under its lock and only the caller that holds the
id looks there, so a lookup is part of the action around it.

### EventLoop

Threads are the plugin's emitting goroutines and the listeners themselves: a
listener emits while its handler runs (`MayEmit`), down to `MaxDepth`. An event
is numbered by the call of `EventEmit` that made it, which also names its
response channel. `Receive` is the send and the receive on the unbuffered
channel in one step, with what `eventListenerLoopFunc` then does; `EventResult`
is `eventResultFunc`, with the send of the response and its receipt in one step.
`HandlerSeen` and `CallHandler` are the two reads of `eventHandler`. `FreePlugin`
closes the channel and deletes the instance (both under one lock, hence one
variable `live`). The error in a response is what the emitter is given, by kind
(`Replies`): the plugin's refusal, its coder's failure on the result
(`entrypoint.go:432`), or the handler's own - whose text is gob, so that the
plugin has it garbled. `ResponseTo` orders them as the code does: an undecodable
result replaces the handler's error. `quietFree` is history: whether at that moment no listener was
on its way to the plugin and nobody waited to send.

### PluginHandle

The paths share `live`, `bigSize` and `smallSize`; everything else is one path's
own, and an action of the handle is an action of one path that leaves the
other's variables alone (`FreePlugin` is an action of both). What it adds is who
may act when, from the code of both sides:

- a method that has called `EventEmit` does not return before it has its
  response (`Call` needs `epc[t] = "idle"`), and a caller emits only while its
  method runs (`InMethod`);
- a listener calls methods only from the handler it runs (`MayCall`), and its
  handler does not return before they have (`Listen` needs `pc[l] = "idle"`).

Thus the callers of the request path are the application's goroutines and the
listeners, and the emitters of the event path are the plugin's goroutines and the
application's callers. `RequestCall` and `EventLoop` each have an `OpenSpec`, in
which an environment moves the sizes anywhere within the C int between any two
steps (`Resized`); `OpenPaths` says that either path is no worse an environment to
the other than that. Every function is configured on both sides
(the other set-ups concern one path alone). Each path keeps a `halted` of its
own, to tell which of them ended the process; neither moves after either.

### Registry

No operation of a `Plugger` holds a lock from its check to its act, so an action
is one stretch under one lock, or one call into a library.

| Code | Actions |
|---|---|
| `Load`: `gatherPluginFiles`; `dlOpen`; symbols, name, version and `setIfAbsent`; return | `Load`, `OpenFile`, `Register`, `LoadReturns` |
| `NewPlugin`: `get` and the id; the entry point with `setInstance`; `set` | `NewPlugin`, `CallNewPlugin`, `SetHandle` |
| `FreePlugin`: `get` of the library; `get` of the handle; the entry point with `deleteInstance`; `delete` | `FreePlugin`, `FindHandle`, `CallFreePlugin`, `DeleteHandle` |
| `Unload`: `get`; the pass over the handles; each `delete`; `dlClose`; `delete` | `Unload`, `UnloadEach`, `UnloadDelete`, `UnloadClose`, `UnloadForget` |
| `Free`: the pass over the handles; `clear`; the pass over the libraries; `clear` | `FreeEach`, `FreeClear`, `FreeClose`, `FreeForget` |
| `SetVersionSafe` | `SetVersionSafe` |

A pass (`foreach...`) keeps its table's lock while it calls into the libraries,
so it is one action. What a library is - whether it opens, has its symbols, its
name, its version, whether it makes instances - is drawn from `Directories` and
does not change. `opens` counts how often the process has a library open, as
`dlopen` does; a Go library stays in memory after its last `dlclose`, so its
instance table survives. `given` remembers which handles the application holds,
freed ones included, because it may free them again. `stray` is history: a
library was called or closed while not open. Two constants say what is assumed
of the application: `Exclusive`, that nothing on a Plugger overlaps its own
`Unload` or `Free`; and `SharedValue`, that the plugin values of a library are
all equal, as pointers to structs without fields may be in Go. The lookups
`GetPluginNames`, `ExistsPluginNames` and `GetPluginInfo` change nothing and are
left out.

Seen from the application (`Loaded`, `Life`), a library is loaded until `Unload`
or `Free` goes through the handles, and an instance ends there or when it is
freed. `ImplementsLifecycle` says that the tables, locked one at a time, show
nothing but that: no instance is made in a library that is not loaded, outlives
its library, is made twice or comes back.

### PluginName

`Load` calls `callEpGetName` for each library; `Registry` takes the name for
known at once (`Register`), this module is what passes meanwhile. `GetBuffer`,
`GetName`, `Glow`, `MakeBuffer` and `Rebuild` are the loop; `AskName` is a `Load`
that has found the symbols of its next library, whose name may have any length
of `Lens`. Unlike an answer, a name is not parked: a recall is a new call. The
Loads share `smallBufferMgr` as the calls of a handle share theirs, but without
a bound on their number, and here the lengths are not kept within half of the C
int: capacities wrap (`AsCInt`), and `make` panics beyond `MaxAlloc`.

The word of the length has two widths. The host keeps it as a Go int of 8 bytes
(`plugger.go:690`, `:712`), the plugin writes it as a C int of 4
(`entrypoint.go:455`). `Written` is what that makes of the word: n, unless its
high half is not zero. Calls and events never get there (`SizesAssumption`); a
name buffer does, and `name` is the length of the name `Rebuild` then returns.
`DoublingAssumption` says that the initial size doubled meets 2^31, as 512 does.

### Example

`main` is a straight script; `Script` lists its calls in order and `step` is
where it is. The calls on the Plugger are the actions of `Registry` with one
Plugger, one user and equal plugin values (the samples are structs without
fields); it instantiates `RegistryProofs`, so that the lemmas of the Plugger can
be cited for its values. Results of calls are only printed and so left out. What remains is what
`main` depends on:

| Code | Actions |
|---|---|
| `Load`, whose two results are taken in the wrong order | `Load`, `LoadFails`, `LoadReturns`: a warning would end `main`, an error does not |
| `NewPlugin`, the branch on its error | `NewPlugin`, `PassOver` |
| `Init` .. `Fini` | `Call`, `CallInstanceGone` (the library made no instance) |
| `SetEventHandler`, `Command`, the sample's `EventEmit`, the assertion of the result's type | `SetEventHandler`, `Command`, `Listen`, `CommandReturns` |
| `FreePlugin(plugin1)`, also of nil; `Unload`, `Free` | `FreePlugin`, `Unload`, `Free` |
| the listeners `NewPlugin` starts | `Park` (all of an instance's are at the channel), `ListenerLost` (one enters after its instance is gone) |

The pauses in `main` promise nothing: a listener may still be on its way when its
instance is freed. The details of a call or an event are the matter of the
modules above.

What a handler or a method does beyond that, the formatting of errors, the
order of map iteration and the wording of messages are left out. Whether the
host decodes an event parameter only decides what the handler is given.

## 3. The runs

| Run | Question | Properties |
|---|---|---|
| `request` | two callers, answers up to the limit of the C int, every function configured and those of either side missing, undecodable arguments, a free at any moment; does a call end while another moves the sizes under it | `TypeOK`, `MethodRunsOnce`, `OwnAnswer`, `NoOverrun`, `ParkedWhileGrowing`, `HaltsOnlyAfterFree`, `ReplyTellsAnswer`, `ImplementsInvocation`, `FloorsHold`, `CallsReturn` |
| `request_emptyerror` | violated: an error with an empty text | `ErrorsSurvive` |
| `event_safety` | two emitters, two listeners, growth, handler set and taken back, free at any moment | `TypeOK`, `EventMapMatches`, `AwaitedIsCarried`, `HandlerSeesOwnEvent`, `NoOverrun`, `ResponseTellsVerdict`, `HaltsOnlyUnquiet`, `ImplementsInvocation`, `FloorHolds` |
| `event_live` | emission nested until it occupies every listener, both functions configured and each missing: are events answered, and do listeners end | `EmitsAnswered`, `ListenersFinish` |
| `event_handlererror` | violated: the handler's error arrives garbled, or replaced by the coder's | `HandlerErrorReaches` |
| `handle` | a method that emits, a handler that calls it again, a free at any moment, one pair of sizes | `OpenPaths`, `CallsReturn` |
| `registry_safety` | one Plugger, two goroutines, every kind of defective library | `TypeOK`, `OwnInstance`, `NoOrphans`, `EmitterFindsOwn`, `NoStrayCall`, `OpensMatch`, `ImplementsLifecycle` |
| `registry_notimplemented` | violated: a library without `newPluginFunc` | `NotImplementedRefused` |
| `registry_warn` | violated: a library is skipped without a warning | `WarnsOfSkipped` |
| `registry_unopened` | violated: a file `dlopen` refuses | `SkipsUnopened` |
| `name` | three Loads without end, names that are empty, make buffers grow, or are out of reach | `TypeOK`, `NameWhole`, `HaltsOnlyOfLongName`, `FloorHolds`, `LoadsGetName` |
| `example` | the example program, with no, one or two libraries in its directory, each a sample or one with a defect | `TypeOK`, `EmitterFindsOwn`, `DiesOfNilOrLateListener`, `LeavesNothing`, `Finishes` |

**Bounds.** Initial sizes are 1 and the answers up to 4 with `CIntMax = 7`, so a
buffer doubles once or twice and reaches the largest capacity the word can carry
(4; 8 would read negative), as 2^30 does in the code. With one size shared by
two callers every order of store and load is reached, and a growth is undone: a
caller stores 4, another that still has its first buffer stores 2. In
`event_safety` error buffers start at the small size and grow to 4 through the
big manager, so that they set back, or raise, the size of the parameters. Three request ids for two
callers give a call that overlaps two others in turn; `IdSpan` lies just above,
since a wrap in use needs 2^64 calls. Two emitters, two listeners and two to four
event ids give overlapping events, a listener that loops and takes a second
event, and a listener still on its way when the plugin is freed. The registries
run with two libraries: of one name, of two names, or a good one beside each
defect. `registry_safety` has three instances on one Plugger, so that the ids of
two concurrent `NewPlugin`s and of a third after a free meet. That openings are
counted right and no closed library is called when several Pluggers share one is
proved for any number of them (section 5); the run has one.
`handle` has one caller, two listeners and two events: the method emits, the
handler calls the method again on its listener, and that call's event needs the
other one; `CIntMax = 3` and lengths of 2 make every buffer of results and
parameters grow once; it asks about nesting, and leaves the floors of the sizes to
the runs of the two paths. `name`
needs no bound but the lengths: 0, 4 (two doublings) and 5 (in no capacity of
`CIntMax = 7` that doubling 1 meets); `MaxAlloc = 16` lets a capacity read as -8
and as 0 (16 stands for 2^32, where a name of 0 fits) before `make` panics; with three Loads two can undo a third's growth in
turn. The example is deterministic but for its libraries and its listeners, and
small. Symmetry (callers, emitters, listeners, users) is in runs without liveness
only (the refinements checked beside it are step by step and symmetric too). Deadlock checking is off: the program
may stop calling, stop at a bound, or be dead after a panic.

**Assumption on lengths.** `SizesAssumption` and `EventSizesAssumption` say of calls and events (nothing is
assumed of names) that an encoded answer is at most half of what a C int can say,
so that doubling reaches it in time. Beyond it the code doubles to a capacity that reads negative and
never ends well; the repository promises nothing there.

**Fairness.** `RequestCall`: weak fairness of each caller's own steps - the Go
scheduler runs every goroutine, no step of a call waits for another caller, and
methods of the plugin are taken to return. The application owes no call and no
free. `EventLoop`: weak fairness of each listener (its receive and its handler
included) and of an `EventEmit` that has its response or finds the channel
closed. Weak fairness is enough for the waiting senders because the number of
emissions is bounded; Go's channels serve waiting senders first come first
served. Nobody owes an emission or a free. `PluginHandle`: weak fairness of
all of these steps together (`Progress`): as long as some goroutine can run, one
does. That is less than the scheduler gives and enough, since calls and events
are bounded and a step of one goroutine never disables another's for good.
`Example`: the same, of `main` and the listeners. `PluginName`: weak fairness of
each Load's steps; nobody owes a Load.

**Nested emission.** A handler that makes the plugin emit occupies its listener
until another takes the nested event. When every listener is in such a handler
and waits for an answer, nobody is left to take the event nobody has taken: all
wait on each other for ever. `EmitsAnswered` and, for calls, `CallsReturn` except
just that state (`Starved`), which `event_live` reaches with two listeners and
depth two. With E emitting goroutines and handlers that nest D deep, E * D
listeners can be waiting at once, so that more than E * D are needed; the code
starts `runtime.NumCPU()` and documents no limit, so that on a machine with one
CPU an application whose handler makes the plugin emit hangs.

**Mutants.** Operators commented "Mutant of" are not part of the model: each
is the definition after it with a plausible slip (an id generator without its
mutex, a recall flag not looked at, a comparison off by one, a parked entry not
added or not deleted, a length word not reset, a buffer not grown, a channel not
closed), and shows that the property it is paired with in `PROJECT.json` is
about the code.

## 4. What the checks show

- Recalling is sound: whatever the sizes do, a method runs once, its caller gets
  its own whole answer, nothing parked is lost or left, no copy overruns.
- The unsynchronised sizes are harmless to a call's result: a caller may be
  handed a buffer smaller than the one it had, and goes round again. It ends
  because a stored size is always twice a capacity in play, and nothing goes
  below the smallest capacity in play (`FloorsHold`, `FloorHolds`): growth is
  undone, but never below that floor, and each growth raises it sooner or
  later, until every buffer offered is large enough.
- The floors of a handle are not those of its two sizes one by one. A listener
  grows its *error* buffer through `bigBufferMgr` (`plugger.go:312`), so that one
  long error of an event sets the size of every later result and parameter back
  to the double of a small buffer: with the code's 2048 and 512, to 1024, below
  where it started. No two goroutines together get it lower than that
  (`HandleBuffersNeverShrink`).
- An emission is answered once, by one listener, to its own emitter; an answer
  never meets a thread that has stopped waiting. The response is the handler's
  result where there is one to decode; where the handler failed, it is an error,
  but which one is disagreement 2.
- The process dies only of a premature free or of a handler taken back between
  check and call. A free at a moment when every listener is parked on the
  channel and nobody waits to send is safe - but the host has no means to know
  such a moment.
- The paths of a handle do not disturb each other: all they share are the sizes,
  and each path is right whatever the sizes do. Calls return although their
  methods emit and the handlers call again, unless the listeners are starved.
- Registries: if nothing overlaps a Plugger's `Unload` and `Free`, and one
  Plugger uses a library, then a handle stands for its own instance, an instance
  can be freed, an emitter finds its instance exactly while it lives, and the
  whole is a plain life of libraries and instances (`Lifecycle`). Two
  Pluggers may load the same libraries: each opening is matched by a closing and
  nobody calls a closed one. Their instances may not be mixed (below).
- A `Load` gets the whole name of its library, although the others may hand it a
  shorter buffer than it had, for the reason above; with a name beyond half of a
  C int it doubles its buffer until `make` panics, and so do, meanwhile, Loads
  whose names are short: the size they find reads negative. If `make` can go as
  far as 2^32, such a size reads 0 and the name that is empty fits it; the plugin
  then writes the low half of the word only, and the host makes a name of 2^32
  bytes of it. `NameWhole` excepts that state and no other (`LongNameAsked`).
- The example ends and leaves nothing behind, and no event finds it without a
  handler or an instance, although all its plugin values are equal: it frees an
  instance before it makes the next in the same library. It dies with libraries
  that cannot be opened or make no instances; without a `sample1`, in
  `FreePlugin(nil)`; and when a listener is late: `NewPlugin` followed at once by
  `Unload` (`main.go:192-195`) makes that likely. That it takes the results of
  `Load` in the wrong order is harmless only because `Load` never warns: with
  that repaired, a skipped library would end it with every library open.

**Disagreements** (each a run that TLC must refute):
1. an error of the plugin with an empty text is lost;
2. the handler's error is gob-encoded by the host and read as plain text by the
   plugin; beside a result the plugin cannot decode, as the nil result of a
   handler that failed, it does not arrive at all (`entrypoint.go:432`);
3. a plugin without a `newPluginFunc` answers 1, the host looks for -1: it gets a
   handle, and every call through it panics;
4. `Load` builds its warnings with `errors.Wrap(nil, ...)`, which is nil, and
   drops what it returns: a skipped library is never reported;
5. after a failed `dlopen`, `Load` calls `dlClose` on the nil handle it got,
   which ends the process where the file was to be skipped.

One more needs no run of its own: the panics marked `// not reached`
(`entrypoint.go:323`, `:405`, and in the base functions `:147`, `:229`) are
reached when the instance is freed under a listener or a call; `NewPlugin`
followed by `Unload`, as `example/core/main.go` ends, suffices. `HaltsOnlyUnquiet`,
`HaltsOnlyAfterFree` and, for the example, `DiesOfNilOrLateListener` say when,
and their runs reach it. Another is the exception of `NameWhole`: `Load` is to skip
a library whose name is empty (`plugger.go:537`), but in a buffer of 2^32 that name
does not arrive empty.

**Limits of use** that no document states, kept as assumptions of the passing
runs (change the constant and TLC breaks the property):
two Pluggers number their instances from 1 each while a library keeps one table
for the process, so that the second replaces the first one's instance
(`OwnInstance` with two `Pluggers`); plugin values of a type without fields may
be equal, and `instMapByPlugin` then holds one entry for all instances
(`EmitterFindsOwn` with `SharedValue = TRUE`); two `Unload`s of one name close
it twice (`OpensMatch`, `NoStrayCall` with `Exclusive = FALSE`), and an instance
made while `Free` runs stays behind, with no handle that could free it
(`NoOrphans`, likewise).

## 5. What is proved

With TLAPS, for any sets of goroutines and methods, any set-ups, any lengths
(those of calls and events within half of the C int), any initial sizes and any bounds.

**`RequestCallProofs`**

| Theorem | States |
|---|---|
| `Invariance`, `OpenInvariance` | `Spec => []IInv`, and of the open system |
| `TypeCorrect`, `RunsOnce`, `OwnAnswers`, `NoOverruns`, `NoParkedAnswerLost`, `OnlyFreeHalts` | the first six properties of `request` |
| `RepliesTell` | `ReplyTellsAnswer`, if no error text is empty |
| `Refinement`, `OpenRefinement` | `RequestCall` implements `Invocation`, if no error text is empty, also as an open system |
| `RequestFloorsHold` | `FloorsHold` of `request` |

None of the properties is inductive. `IInv` adds, for every caller, what its
program counter implies (`CallerInv`): it holds an id nobody else holds; its
buffers are as the host offers them, of a capacity the C int can say; while it
grows a buffer, its answer is the one parked under its id; when it rebuilds, the
length words are those of its answer. Two parts tie the callers together: the
shared sizes stay within the C int (`SizesInv`: a size is only ever twice the
capacity of a buffer that was too small, and answers fill at most half of the
range), and whatever is parked belongs to a caller that is growing (`ParkedInv`).
The uniqueness of ids (`HoldsId`) is what makes an action of one caller leave the
others' part alone. The premise "no error text is empty" is what
disagreement 1 is about: without it `ErrorsSurvive` and `ReplyTellsAnswer` are false.
`RequestFloorsHold` is an action property: `SourceOfSizes` says of every step
where its caller's capacities and the sizes come from - themselves, a size, or
the double of a buffer that was too short - and each of these is at or above the
floor if all of them were.

**`EventLoopProofs`**

| Theorem | States |
|---|---|
| `OpenInvariance` | `OpenSpec => []IInv`; `Spec` follows |
| `EventTypeCorrect`, `EntriesMatch`, `AwaitedOnce`, `OwnEvent`, `EventBuffersHold`, `ResponsesTell`, `HaltsUnquiet` | the invariants of `event_safety` |
| `EventRefinement`, `OpenRefinement` | `EventLoop` implements `Invocation`, also as an open system |
| `EventFloorHolds` | `FloorHolds` of `event_safety` |

Three identities have to be kept apart: the listener, the event id it took, and
the number of the event, which is its response channel. `IdsInv` gives every
listener an id of its own, `EventsInv` every thread an event of its own, and
`AwaitInv` makes the `eventMap` a bijection between the ids being carried and the
threads that wait: that is why a response meets exactly one emitter and why an
action of one listener leaves the others' events alone. `CarriedInv` says where a
carried event's bytes are, `RecallInv` that a listener comes back for an event it
carries, `RunsInv` that no handler has run for an event that still waits for one.
`ResponsesTell` says exactly which response an emitter has been given: the kind of
error that `ResponseTo` makes of what the handler returned, its own error only
where nothing went before it. That this error then is garbled is part of
what is proved, not excepted from it.
`QuietInv` says that a quiet free leaves the plugin quiet: a listener that is
parked on the channel can only end. The floor is proved as that of the request
path; it has to count error buffers by their doubles, those not yet made of the
small size included, since that is what may become of the big size.

**`PluginHandleProofs`** shows the composition; the invariant is that of both paths:

| Theorem | States |
|---|---|
| `HandleInvariance` | the invariants of both paths hold of the handle |
| `PathsOpen` | `OpenPaths` of `handle` |
| `HandlePathsSafe` | the safety properties of both paths, of the handle |
| `HandleCallsRefine`, `HandleEventsRefine` | in a handle each path implements `Invocation`: a call is one run of its method, an event one run of its handler, whatever they call in turn |
| `HandleFloorsHold` | `FloorsHold` of `PluginHandle`: the floors of calls and events together; it is proved and has no run |
| `HandleBuffersNeverShrink` | no buffer a handle offers is smaller than `smallBufferSize`, or for a big one than the smaller of `bigBufferSize` and twice `smallBufferSize` |

Each path's theorems hold of an open system, provided that its environment keeps
the sizes within the C int, which is what each path does for the other as long
as its own invariant holds. The circle is closed by induction on steps: a step
of one path keeps that path's `IInv`, hence `SizesInv`, hence is a `Resized` step
of the other, whose `IInv` it keeps as well. `PluginHandle` instantiates the
proof modules rather than the plain ones, so that their theorems can be cited
for its own values. An open system has no floor of its own (its environment may
set any size), so the floors go another way: a step of one path keeps that path's
floors, which are floors of the shared sizes, and leaves the other's buffers
alone. It needs both at once, `2 * m >= n`: calls lower the small size only to
`m`, whose double is what listeners may make the big size.

**`RegistryProofs`**, for any sets of Pluggers, goroutines, libraries and names,
under `Exclusive`:

| Theorem | States |
|---|---|
| `RegistryTypeCorrect` | `TypeOK` |
| `OpensMatchUses`, `CallsFindLibrary` | `OpensMatch`, `NoStrayCall`, also of several Pluggers that share libraries |
| `HandlesOwnInstances`, `InstancesHaveHandles` | `OwnInstance`, `NoOrphans`, of one Plugger (`OnePlugger`) |
| `EmitterFindsInstance` | `EmitterFindsOwn`, of one Plugger whose plugin values differ |
| `SharedValueFindsInstance` | `EmitterFindsOwn`, of one Plugger whose plugin values are all equal, if no library ever has two instances (`OneEach`) |

`LibraryInv` carries the first three: what a goroutine has looked up is still
registered when it uses it (`CallInv`), which is where `Exclusive` enters
(`ExclusiveInv`); a library is registered under its own name only (`LibsInv`), so
forgetting a name forgets the library; a handle's library is registered
(`HandlesInv`), and no handle is left when its library is closed (`TearInv`). The
opens are then counted action by action. `InstanceInv` adds the ids: one that is
being made was never given out (`IdsInv`), so a handle freed twice cannot meet a
new instance, and an instance is gone before its handle is (`MadeInv`).
`TablesInv` says that the two tables of a library agree. The premises are those
under which the properties are true at all: without `Exclusive`, with two
Pluggers on one library or with equal plugin values TLC refutes them.

**`LifecycleProofs`**, under `Exclusive`, of one Plugger:

| Theorem | States |
|---|---|
| `PluggerImplementsLifecycle` | `ImplementsLifecycle` |

It needs no new invariant. An instance lives in one library (`LivesInOne`, from
`NoOrphans` and `IdsInv`), so `Life` is well defined; a slot is fresh until the
plugin was called with its id (`FreshAfter`); a library counts as unloaded from
the pass over its handles (`TornDownAfter`). Five actions are steps of
`Lifecycle`: `Register`, `CallNewPlugin`, `CallFreePlugin`, `UnloadEach` and
`FreeEach`, and the passes end exactly the instances of the libraries they
unload (`TearingFindsHandles`). The others are not seen.

**`PluginNameProofs`**, for any number of Loads, any names, and any width of the C
int that the initial size doubled meets (`DoublingAssumption`):

| Theorem | States |
|---|---|
| `NameTypeCorrect`, `NamesWhole` | `TypeOK`, `NameWhole` |
| `DiesOfLongNames` | `HaltsOnlyOfLongName` |
| `NameFloorHolds` | `FloorHolds` |

`WordInv` ties the word to the buffer, also where the capacity wraps: what the
plugin reads is never more than the capacity (`AsCIntBelow`), and what it leaves in
the word is not either (`WrittenBelow`). The rest is about names out of reach.
`DoubledInv` says which sizes there can be: those that double to 2^31, 2^31 itself,
and multiples of 2^32. The large ones are read as -2^31 or 0, and the ones within
the C int are at most half of 2^31, so none holds such a name
(`OutOfReachNeverFits`): a Load that asks for one is stuck (`StuckStays`). Until a
Load is, no capacity leaves the C int and every name is exact (`CapacityInv`), and
`ReachInv` is the disjunction of the two.

**`ExampleProofs`**, with any libraries in the directory, of any number and with any defect:

| Theorem | States |
|---|---|
| `ExampleTypeCorrect`, `ExampleEmitterFindsOwn` | `TypeOK`, `EmitterFindsOwn` |
| `ExampleDeaths` | `DiesOfNilOrLateListener` |
| `ExampleLeavesNothing` | `LeavesNothing` |

`main` is a client of a Plugger, and what the Plugger's lemmas ask for is
discharged by what `main` is: its constants are valid (`Constants`), one user
overlaps nothing, and a step of `main` is to the Plugger a step of its own, none,
or the death of the process, which keeps everything (`PluggerStep`). So
`LibraryInv`, `InstanceInv` and `TablesInv` hold, and what is new is about the
script. `PlaceInv` puts each operation of the Plugger at its own lines,
`PluginInv` says that `plugin1` and `plugin2` are the instances there are
(`Held`) and that the first instance of `sample1` is gone before the last is made.
That is `OneEach`, the premise of `SharedValueFindsInstance`. `EventInv` says that
the handle of a `Command` has its handler and its event is its own, and `EndInv`
that no `Load` warns, so that `main` gets to its `Free`. A step walks past a line
of the script, stands, or enters an operation of the Plugger or goes on in one
(`StepKinds`); the parts of the invariant are preserved kind by kind rather than
action by action.

The proofs have one lemma per action group, under it one step per part of the
invariant the action can disturb; a refinement maps each action to a step or a
stutter of the abstract specification. They are as strong as their assumptions:
lengths of answers and events within half of the C int (names may have any
length), and bounds below the wrap of the ids (`MaxCalls < IdSpan`,
`MaxEvents < IdSpan`, `MaxInstances < IdSpan`).

**Only model-checked**: liveness (`CallsReturn` of both runs that have it,
`EmitsAnswered`, `ListenersFinish`, `LoadsGetName`, `Finishes`), since fairness and
ENABLED are beyond the prover. The floors are the safety half of why growth ends.
Every other property of a passing run is a theorem, under the premises named
above. What the five refuted properties say is false, and TLC shows it.

## 6. What is not modelled

The loader and the file search beyond what they answer, gob's encoding (whether
it succeeds and the length it makes are inputs), and the lookups that change
nothing. Lengths of calls and events beyond half of a C int are excluded by
assumption; those of names are modelled in `PluginName`. A library's instance table in `Registry`
and the `live` instance of `RequestCall`, `EventLoop` and `PluginHandle` are the
same thing seen from two sides: what happens to calls and listeners of a freed
instance is theirs. `Example` is the one module that has both, with its calls as
single steps. A dlopen or a directory that fails does so at once in the model,
whatever the reason.

## 7. Plan

Done: `RequestCall`, `EventLoop`, their composition `PluginHandle`, `Registry`
with its abstract view `Lifecycle`, `PluginName`, `Example`, and the proofs of
section 5. Left: `Registry` over several handles whose calls are those of
`PluginHandle`, so that a free meets a running call in one model.
