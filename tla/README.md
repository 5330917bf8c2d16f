# renirol: specifications, model checking and proofs

renirol is a Java library over Vulkan, GLFW and FreeType with a small native
part. This directory holds TLA+ modules translated from its source, TLC
configurations that check them on small instances, and TLAPS proofs of the
properties that matter most, for every value of the constants. Paths in this
document are those of the repository; `frontend/` stands for
`src/main/java/tfc/renirol/frontend/`.

Contents: [inventory](#1-inventory), [modules](#2-modules),
[runs](#3-runs), [proofs](#4-what-is-proved),
[divergences](#5-where-code-and-words-differ), [limits](#6-what-is-not-modelled),
[plan](#7-plan).

To repeat a check: `tlc -config MCBestFit.cfg MCBestFit.tla` (and so on), and
`tlapm BestFitProofs.tla`. `PROJECT.json` maps each definition to the lines it
models, each property to a mutant of the code that breaks it, and each hazard to
the properties that cover it.

## 1. Inventory

| Component | State it keeps | Operations | Hard behaviour | What makes it correct |
|---|---|---|---|---|
| Native memory manager (`best_fit_allocator.cpp`, `BestFitManager`) | block list, free list of pointers into it, the heap blocks live on | generate, allocate, release, free | pointers to freed list nodes, merging, rounding, who frees a block | list tiles the space, free list exact, grants disjoint, no block lost or freed twice |
| Java allocator (`BestFitAllocator`) | block list, `firstFree` cache | allocate, release | a stale cache, exact fits | no block missed, grants disjoint |
| Frame loop (`ReniContext`, `SwapChain`, `ChainBuffer`, `Framebuffer`, fences and semaphores) | chain, attachments, image index, two semaphores, a fence | prepareFrame, submitFrame, swapBuffers, checkResize, destroy | user, presentation engine and GPU act at any time; driver answers; recreation | nothing in use is destroyed, signals balance, sizes agree, the loop goes on |
| Window (`GenericWindow`, `GLFWWindow`) | cached size | pollSize, swapAndPollSize | stale size | the chain gets the window's size |
| Image (`Image`) | extents, handle | create, recreate, destroy | recreated with the chain | same size as the chain |
| Queue selection (`QueueRequest`, `ReniHardwareDevice`, `ReniLogicalDevice`) | options inside shared request objects, builder, logical device | prepare, requestIndices, create, look-ups | request objects reused on another device; partial failure | families serve the request, creation legal, look-ups find them again |
| Device query (`DeviceQuery`) | filters, scored requests, priorities | require, requireIfPossible, request, select | order of filters | best device selected, throws only if none qualifies |
| Set-up (`ReniSetup`, `ReniContext.withLogical`) | the device, its queues | the static initializer of `ReniSetup` | three components in turn | frames go to the queue they were recorded for |
| Memory types (`findMemoryType`) | none | find | bit positions | a suitable type is found |
| Text renderer (`Atlas`, `TextRenderer`, `DrawFont`) | atlases, their command buffers, instance buffer | preload, draw, destroy | copies recorded first and submitted before the frame; one buffer for all atlases | legal commands, glyphs apart, text shown |
| Command buffer (`CommandBuffer`, `ImageBarrier`) | clear flags, semaphores of its submit info | begin, end, transition, copy, draw, submit | layouts over several submissions | in part through the text renderer and the frame loop |
| Textures (`Texture`, `ImageUtil`) | image, staging buffer | create, load | upload by staging buffer | in part through glyph upload |
| Buffers, descriptors (`GPUBuffer`, `DescriptorPool`, `DescriptorSet`) | memory, sets | allocate, upload, bind, destroy | ownership | planned |
| Draw collections (`BatchCollection`, `InstanceCollection`, `QuantizedHashSet`) | groups of drawables and state callbacks, the set that counts them | add, setupState, reset, draw | skipped binds, drawables out of sight, slices of instances, collections inside collections | each visible drawable drawn as often as added, bound and in its state |
| Windows window (`WinNTWindow`) | modifier keys, sum of mouse motion, capture | swapAndPollSize, message procedure, captureMouse, freeMouse | notices handled late and several at once, a handler that causes its own message | the clip follows the window, motion is counted once, the pump ends |
| Collections (`CyclicStack`, `ReadOnlyList`) | - | add, remove, iterate | none | not planned: a list and a view of one |
| Format selector, pipelines, shaders, feature structures, enumerations, JNI headers | none or structures filled for the driver | - | - | not planned: no behaviour of their own |

Interaction: a program runs a *device query* over the physical devices, makes a
*queue request* to the chosen one, gives the logical device to `ReniContext` and
enters the *frame loop*. Each frame acquires an image, records a *command buffer*
(the *text renderer* submits uploads of its own meanwhile), submits it, waits for
its fence, presents, and recreates the chain and its *images* when the *window*
changed. A Windows window made without GLFW handles its messages between
recording a frame and presenting it; what a frame draws can be kept in *draw
collections*. Library code is single threaded; concurrency comes from the GPU
queue, the presentation engine, the window system and the user.

## 2. Modules

| Module | Models | Uses |
|---|---|---|
| `AddressSpace` | abstract: what a memory manager promises (grant, refuse, return, reject) | |
| `BestFit`, `BestFitProofs` | native memory manager; implements `AddressSpace` | INSTANCE `AddressSpace` |
| `BestFitHeap`, `MCBestFit` | its life, from `generate` to `free`, and the heap its blocks live on; proved in `BestFitProofs` | EXTENDS `BestFit` |
| `BitSets` | the bit operations two components need | |
| `FirstFit`, `MCFirstFit`, `FirstFitProofs` | Java allocator, with `AddressSpace`'s notion of disjoint grants | `BitSets`, INSTANCE `AddressSpace` |
| `FrameLoop`, `MCFrameLoop`, `FrameLoopProofs` | frame loop with user, presentation engine and GPU | |
| `QueueSelection`, `MCQueueSelection` | queue requests, builder, logical device | |
| `DeviceQuery`, `MCDeviceQuery` | the query | |
| `DeviceSetup`, `MCDeviceSetup`, `DeviceSetupProofs` | set-up: composes `DeviceQuery` and `QueueSelection`; all three are proved in `DeviceSetupProofs` | EXTENDS `QueueSelection`, `DeviceQuery` |
| `MemoryTypes`, `MCMemoryTypes` | choice of a memory type | `BitSets` |
| `Atlas` | packing of glyphs, and the images and commands they live by | |
| `TextRenderer`, `MCTextRenderer`, `TextRendererProofs` | text renderer, its loop and the GPU | EXTENDS `Atlas` |
| `WinNTWindow`, `MCWinNTWindow`, `WinNTWindowProofs` | message pump, message procedure and mouse capture, with the user and the window system | |
| `DrawCollections`, `MCDrawCollections`, `DrawCollectionsProofs` | a batch collection with an instance collection among its drawables, built and drawn | |
| `FoldFacts` | what folding a sequence computes, for any operator; for the proofs | |

### How state and actions correspond to the code

**BestFit.** `blocks` is the list from `root` along `next`, `free_blocks` the
`std::list` of pointers as a set, `reply` the last answer. `Ptr` are heap
addresses: `new` returns any address no block of the list owns, so that a pointer
left behind in `free_blocks` would be dangling and could come back as another
block. Each JNI call (`allocate`, `deallocate`) is one action, with every split
and merge it makes.

**BestFitHeap.** Adds the other two JNI calls, `generate` and `free`, and what all
four do to the heap: `owned` counts for each address how often `new` returned a
block there less how often `free` was called on it. What is freed is computed
from what the merge loop walks over, and at the end from the walk along `next`,
not from the list that is left. Blocks are counted and nothing else: the manager is
freed without its destructor, so that the nodes `std::list` keeps `free_blocks` in
leak (`best_fit_allocator.cpp:155`). `alive` is an assumption about the caller:
nothing in `BestFitManager` (lines 34 to 36) keeps a program from freeing a handle
twice or from allocating from one that is freed.

**FirstFit.** As above for `BestFitAllocator.java`; a reference is the number of
the block in order of creation, since no block is ever removed. Exceptions are
answers with `threw`.

**FrameLoop.** `pc` is the place of the program between two steps another actor
can see; a step is a stretch of code between two calls that block or let time
pass: the acquire of `prepareFrame`, the decision of `checkResize` with its
`await`, `SwapChain.recreate`, the depth image, the wait for the submission that
changes its layout (`Image.create`, `awaitLayout`), the second acquire, submission,
the wait of `submitFrame` with the reset of the fence, `pollSize`, the present,
the end of the loop, the catch block, `destroy`. `Resize` is the user; `Draw`,
`Present` and `Layout` are what the queue does. `Answers` is what the driver may
say: only a surface that changed is out of date or suboptimal, and the driver need
not say so; it may be lost at any time. Chain and depth image may be refused at any
size, and are at an empty one. `limits` is the kind of surface, which gives for
each size of the window the extents a chain may have; `Clamp` is `Math.clamp` of
`SwapChain.create`. A second signal of a binary semaphore is undefined behaviour:
from then on the semaphore is `Undefined`, and wherever a property depends on it, it
says so.

**QueueSelection.** `options` is what each request object keeps (`prepare` writes
it, and the same objects are used for several devices), `builder` the
`LogicalDeviceBuilder`, `logical` the device created. `requestIndices` is one
action with all the recursion of `prepare`; an exception sets `failed`.

**DeviceQuery.** One action per method of the builder, and `select`. Strings and
feature structures are reduced to the capabilities a device has.

**DeviceSetup.** The static initializer of `ReniSetup`, call by call: the two calls of
`require`, `reniRecommended`, the two of `request`, the selection, the request for
queues, `create`, `withLogical` and `setSwapQueue`. Each is an action of one of the
other two modules. What the query tests by `SUPPORTS_INDICES` is tied to the families
the request sees (`Seen`); everything else a device may have or lack (the swap chain
extension, dynamic rendering, being discrete, being Dozen). The first filter of the
initializer is left out: it prints the device and accepts it.

**Atlas, TextRenderer.** An atlas is a record of its Java fields; an image is its
layout and, texel by texel, the character it shows. `recorded` is the content of
the atlas' command buffer, `cmd` that of the frame, `gpu` what was submitted and
has not run. `add` is `Wrapped` (before the answer) and `Placed` (after it), with
`upload` in between, which waits for a submission of its own. A barrier has two
`Scope`s, the stages and the access `CommandBuffer.transition` and
`transitionBuffer` are given. `Ordered` says which of two commands waits for the
other: only what the scopes of a barrier cover waits for it, or it for that; two
commands without a barrier between them are not ordered. The GPU runs any command
that waits for none (`MayRun`), so that it overlaps them in every way the barriers
allow. Submissions are ordered by the host, which waits for each of them
(`submitBlocking`, or the fence of the frame). `Legal` says when a command is valid,
`After` what it does; both are Vulkan's, modelled from the library's use of it. One
thing `Legal` does not ask is in which layout an atlas is when a glyph is copied
into it, because the barriers around these copies order nothing (section 5).

**WinNTWindow.** `pc` is the place in the program's loop: making the frame
(`frame`), in `PeekMessage` (`pump`), in the message procedure (`dispatch`), in a
loop Windows runs inside it (`modal`), presenting. `sent` are the notices Windows
handles inside `PeekMessage` before it returns a message (`WM_SIZE`, which stands
for `WM_MOVE` too, `WM_SETFOCUS`, `WM_KILLFOCUS`, `WM_CAPTURECHANGED`), `posted` the
key messages in order, while `moved`, `typed`, `menu`, `closing` and `painting`
stand for messages of which there is one at most. `Environment` acts between any
two steps while the window exists.

- *Clipping.* `ClipCursor` cuts the area to the screen, as Windows does, and moves the
  cursor into what is left (`Cut`, `Confined`).
- *Listeners.* The program captures and frees the mouse while it makes a frame, and
  its listeners may do so whenever they are called: for a key, for a character, and
  for a move, after the cursor was put back (`Listen`).
- *Keys.* A message names a virtual key (`Code`), not a key: Windows sends the same
  one for both sides of Shift, Control and Alt, which have no case in the procedure
  (`Modifier`); the two Windows keys have codes of their own.
- *Modal loops.* `WM_SYSCOMMAND` and a click on the title bar are left to
  `DefWindowProc`, which returns when the user is done (`LeaveModal`) and handles
  notices and keeps keys meanwhile.
- *The other axis.* `x` and `y` are treated alike but for line 69, which returns only
  if both are at the centre. Of the other axis it is known whether the cursor is
  away from the centre (`aside`), which it may be at any time.

`Wrap` is the width of the `int` motion is added up in; `Ints` makes it small.

**DrawCollections.** `batches` and `instances` are the groups of both collections,
each with what `add` was called with; the group's number stands for the state its
callback sets. `draw` runs step by step: callback, drawable, and inside the
instance collection key, slice, instance. `last`, `current` and `qnty` are locals
of the loops (`QuantizedHashSet.iterator` among them), `bound` and `state` what the
command buffer has been set to. A callback may bind something of its own, which
stands in `bound` as `Nothing`. The callback `InstanceCollection.add` makes for a
drawable that is not instanceable binds and draws it in the buffer `add` was given:
that may be the one being drawn or another, so that `bound` may change or not, and
its draw, which asks nobody whether it is visible, is in no group's record. What is
visible is chosen anew for each draw.

## 3. Runs

| Run | Bounds | Shows |
|---|---|---|
| `bestfit` | 9 bytes, alignment 2, sizes 1, 3, 4, 9, every address including wrong ones, 5 pointers (interchangeable), `free` at any time | `BlocksTile`, `FreeListExact`, `HeapExact`, `BlocksInUseStay`, `ReleaseMergesRight`, `Implements` (refinement of `AddressSpace`) |
| `firstfit` | 9 bytes, mask 1, sizes 1, 3, 4, 9 | `BlocksTile`, `NoneBeforeFirst`, `RefusesOnlyWhenFull` |
| `frameloop` | window sizes 1..3, a surface that takes all of them (Wayland) and one that takes the size of its window only (Windows, X11), 2 images, a driver that answers success, suboptimal, out of date or lost | `DestroysIdle`, `SemaphoresBalanced`, `FenceFresh`, `AttachmentsFit`, `PresentsAcquired`, action property `OneSignal`, liveness `LoopGoesOn`, `Settles` |
| `frameloop_refused` | the same, the first surface only | counterexample to `FramePrepared`, see section 5 |
| `queues` | two devices with any of 13 family lists, ten request objects, two requests | `ChosenServe`, `CreatesLegal`, `FailsOnlyIfUnserved`, `LookupsServe` |
| `query` | every list of up to three devices over two capabilities, the empty one included; three filters, two scored requests, both priorities | `SelectedUndominated`, `SelectedScoresHighest`, `ThrowsOnlyIfNoneMeets` |
| `setup` | two devices of one or two families, each with all the program asks for or without one thing of it; three requests, that of the examples among them | `SwapQueueDrawsFrames`, `SetupFailsOnlyIfUnserved` |
| `text` | two atlases of 4 x 3 texels, glyphs of 2 x 2, 1 x 1, 0 x 0 and 1 x 3, texts of up to two characters, the GPU in every order the barriers allow | `CommandsLegal`, `AtlasesPacked`, `FrameShowsText`, `FailsOnlyIfTooHigh`, `TexturesFreed` |
| `window` | a desktop of three positions that reaches left of the primary screen; three client areas, one on it, one that leaves it on the right and one that leaves it on the left with its centre; two notices on the way, an `int` of three values | `ClipMatches`, action property `MotionCounted`, liveness `FramesGoOn` |
| `window_keys` | one position; two keys for one modifier, left and right, and a third key without a case, two key messages on the way | `ModifiersFollowKeys` |
| `draws` | two drawables, an instance collection, three instances of two keys, slices of two, four calls of `add`, three groups, callbacks that bind and callbacks that do not | `GroupShown`, `DrawnAsBound`, `InstancesShown`, liveness `DrawEnds` |
| `memtypes` | up to three memory types of two properties, every mask | counterexample to `FindsSuitable`, see section 5 |

Why the bounds are enough:

- *Nine bytes, alignment 2.* Sizes 1 and 3 are rounded and 4 is not, 9 is larger
  than the space rounded down and equal to it unrounded; up to five blocks exist
  at a time, so that a release can merge nothing, one or several blocks on its
  right while blocks on either side are in use. The list never has more than
  five, so that five pointers never run out, and while it has fewer the others are
  where a stale pointer would show.
- *Three window sizes, two images.* A size the window had, one it has and one it
  gets next; with two images the program can hold one and leak the other, after
  which acquire blocks, the shortest way to a leak that stops the loop. Width and
  height are treated alike, hence one number.
- *Two kinds of surface.* On the one the clamp never changes a size, on the other the
  chain has whatever size the window has when it is created, so that a window that
  changed since it was polled makes the size check ask for a new chain after an
  acquire that succeeded. Nothing bounds the queue, which never holds more than two
  jobs, nor the signals: after a second one a semaphore is undefined for good.
- *Two scored requests.* Sums of two scores, equal, opposite and negative, decide
  between devices one of them alone would not.
- *Devices of the set-up.* What a wish loses shows with one device that lacks what is
  required and one that lacks what is wished for, in either order of the list.
- *Queue lists.* Every order of specialised and general families up to three,
  with one or two queues; the requests are the one of the examples, each of its
  parts, the same family asked for twice, and a nested split.
- *Atlases.* Four texels wide, two wide glyphs do not fit in a row while a wide
  and a narrow one do; three high, the second row takes narrow glyphs only; one
  glyph is too high for every atlas, one has no bitmap; two atlases fill up. A frame
  of two atlases writes the one buffer twice, eight commands that overlap.
  `MaxAtlases` cuts behaviours that would create a third atlas. Two characters
  draw from one atlas twice, or from two.
- *Three positions, an `int` of three values.* The areas overlap, so that a cursor in
  one can be in the other or in neither; one has its centre on the desktop's last
  position and its edge beyond, one its centre off the desktop, where `Centred` is
  false, and windows move from each to each. Motion sums wrap. Two
  notices are enough for focus to be lost and regained, or a move to be followed by a
  loss, before either is handled.
- *Four additions, three groups.* A group can hold a drawable twice and another in
  between; a key can have three instances, one slice and a half, of which any are
  out of sight; a collection can follow another group, precede a drawable of its
  own group, or be added twice.

Fairness. `FrameLoop` assumes `WF(Program)`, the main loop runs whenever no call
blocks, and `WF(Gpu)`, the queue works off what it can. Nothing is assumed of the
user, so that `Settles` is conditional on a window that keeps a size its surface
allows, and nothing of the driver's answers. Both liveness properties except what
section 5 describes: a refused second acquire, after which the fence is never
signalled (`Hangs`), and a semaphore that is undefined. `WinNTWindow` assumes
`WF(Program)`: the pump is a loop of the program's own thread, and `PeekMessage`
returns at once. `DispatchMessage` does not when `DefWindowProc` enters a loop of its
own; leaving it is up to the user, `LeaveModal` has no fairness, and `FramesGoOn`
excepts a user who stays there. It speaks of behaviours in which nobody but the
program and its listeners acts from some point on, and in which the cursor can be
put back to the centre (`Centred`, section 5). `DrawCollections` assumes
`WF(Draw)`, that a draw once begun is gone on with. The other specifications have
no fairness: their properties are safety.

Deadlock is checked in the Java allocator, the queue selection, the query and
set-up. A native manager ends with `free`, a window with `WM_CLOSE`, a draw may
end in an exception; in `FrameLoop` and `TextRenderer` the program ends, and in
`FrameLoop` it really stops when a refused acquire leaves nothing to signal the
fence (section 5), so that `LoopGoesOn` names that case.

Split properties. `FailsOnlyIfUnserved`, and of `SetupFailsOnlyIfUnserved` what it
says of requests, speak of requests without a split: with one the code gives up
earlier (section 5).

## 4. What is proved

Theorems hold for every value of the constants that meets the assumptions the
modules state for them; where a theorem has a hypothesis of its own it is named
below, with what the code does without it.

**`BestFitProofs`**, for every space, alignment, heap and set of requests.
`BlocksTile` and `FreeListExact` are not inductive alone: `prepBlock` cuts a block
at the aligned start but sizes the rest from the unaligned one, so that tiling
depends on starts being aligned already (`StartsAligned`); and `release` finds a
block by its address, so that there may be one only (`BlocksOrdered`). `IInv` is
their conjunction with the types. One lemma says what collapsing a stretch of
the list into one block preserves, one per call that the call preserves `IInv`.
From `Invariance` follow `TypeCorrect`, `AlwaysTiled`, `FreeListAlwaysExact`;
`InUseStay` and `ReleaseMerges` are action properties from the same invariant;
`Refinement` maps each call to a step of `AddressSpace` (or to none), and
`GrantsAlwaysDisjoint` follows.

The heap, in the last part of that module. `HeapListIsBestFit`: with its heap a
manager does to its list what `BestFit` does, so that all of the above holds of
it. `HeapAlwaysExact`: the heap holds each block of the list exactly once, and
nothing after `free`. The invariant is `HeapExact` with `IInv`; the argument is
that a split takes no pointer off the list (`SplitKeepsPointers`) and that what a
merge takes off is exactly what its loop frees (`MergeDropsPointers`), which needs
that addresses and pointers of the list are distinct.

**`FirstFitProofs`**, for every space, requests and releases, and every mask that
rounds (`MaskRounds`: `(n + mask) & ~mask` is the next multiple of `mask + 1`,
which it is when the mask is one less than a power of two; TLC evaluates it for
the mask of the run). With another mask the list does not tile: with mask 8 the
rest of a split at 8 would start at 16 and more. `NeverPassesFree` is the
interesting one: `firstFree` moves by three rules (a split, an exact fit before a
reserved block, a release at a smaller address), each of which looks at one block
only. That no free block is left behind needs the order of addresses to be the
order of the list (`Ordered`), hence tiling and aligned starts, and references that
name one block each (`IdsOK`). `RefusesRightly` follows: the search from `firstFree`
misses nothing. `TypeCorrect`, `AlwaysTiled` and `GrantsAlwaysDisjoint` come from the
same invariant.

**`FrameLoopProofs`**, for every kind of surface, every driver, any sizes and any
number of images, with no hypothesis. `QueueDiscipline` says what queue and fence
hold at each point of the program (`QueueInv`); it gives `NothingDestroyedInUse` and
`FenceAlwaysFresh`, since `recreate` is only reached through `logical.await`.
`SizesAccounted` says how far chain, depth image and polled size are apart at each
point (`SizesInv`): chain and depth image are made for one polled size, which the
limits of the surface at that moment clamp for the chain alone. It gives
`AttachmentsAlwaysFit`. `SignalsAccounted` says which signals and images are out at
each point (`SignalInv`). On a clamped surface an acquired image is given up with its
signal pending; that signal is gone after the submission of the same frame, or the
second acquire has made it two, which is undefined. It gives `FramesBalanced` and
`PresentsOnlyAcquired`, and with `SizesInv` the action property
`SignalledTwiceOnlyIfClamped`: nothing but a clamped size makes the program give up an
image it holds, and only the second acquire after that signals twice. These
theorems say what holds on every surface; what does not is in section 5.

**`TextRendererProofs`.** For atlases and glyphs of any size and any number of
characters and atlases: `AlwaysPacked` and `FailuresAreTooHigh`. `add` only looks
at the place for the next glyph, so the invariant needs the shelf (`Shelved`):
every glyph is above the current row, or in it and to the left of that place.
Between a row that is wrapped and the glyph that is put there the program waits
for an upload; `HasRoom` is what is known meanwhile. `AtlasAssumption` says that
no glyph is wider than an atlas, which `add` does not check.

`CommandsAlwaysLegal`, `TexturesAlwaysFreed` and `FramesShowText` come from what is
known between any two commands the GPU runs (`GpuInvariance`). The queue holds
commands of the batch the program waits for and of no other (`QueueInv`), since every
submission is awaited. Within a batch nothing but barriers orders the commands. A
batch whose every command is ordered with the next runs from front to back, so that
what is left is its end: that this is so of what `Texture.create` submits and of what
a frame draws, and of the latter only because of the buffer barriers on either side
of each write, is shown scope by scope (`FillingChained`, `CommandsChained`). The
batch of an atlas is not ordered so: its copies run in any order, which is right
because they write apart from each other (`CopyKept`), and its two transitions are
ordered with each other and with no copy. How much of the batch has run tells the
layout of each image. The images are those of the atlases, the textures their
recorded copies read from, and the one being created. Each glyph of an atlas is in
its image already, or a recorded copy that has not run will put it there and no
other copy overwrites it (`ContentOK`), for which the shelf is needed again: a copy
recorded for a glyph whose character was given another place since lies apart from
all glyphs. The instances of a frame are as many of each character as the text has
(`BufferInv`), and the commands of the frame draw each group of them once in
whatever order the map has (`CommandsInv`).

**`WinNTWindowProofs`.** For every desktop, any client areas, on it or not, any keys and
codes, and any number of messages on the way. `ClipAlwaysMatches`: that the clip is
right once all notices are handled says nothing while they are not; `ClipInv` adds
that a clip that is wrong has a notice on the way, and that in a window with the
focus the last one is not the loss of it, so that handling it confirms the capture.
`ModifiersAlwaysFollow`: `KeyInv` says of each key whose virtual key has a case that
the last message under way for it tells what it is now; of the other keys nothing is
claimed (section 5). `SidesApart` is needed: were two keys of one side to share a
modifier, or a virtual key with a case to stand for two keys, releasing one would
clear the modifier for the other.

`MotionAlwaysCounted` is about each step of the program with a captured mouse, and
excepts what section 5 describes. The cursor is always on the desktop (`CursorInv`),
a capture or release that changes no clip does not drag it, and a centre on the
screen is inside what is seen of the window (`CentreSeen`), so that the cursor is
put back to where the message measures from: a step either leaves the cursor or adds
to the sum what it moves it by.

**`DeviceSetupProofs`.** *The query*, for any devices and wishes in any order.
`select` is two folds, one of the filters and one over the devices left;
`AnswersNeverStale` says that an answer is that of the folds for the devices and
wishes there are now. What they compute is proved by induction: a device as good
as the selected one on the wishes up to a place is still there when the filters
have run so far (`AsGoodIsLeft`), which gives `AlwaysUndominated`; the fold over the
devices keeps the best score so far (`BestOf`), which gives `AlwaysScoresHighest`;
and necessary wishes made first leave every device that meets them
(`RequiredFirstLeaves`), which gives `AlwaysThrowsForNone`.

*Requests*, for any hardware and any requests made of requests that exist
already, which is how the constructors make them (assumption `Constructed`).
`prepare` recurs over the members of a request; `RecursionOverMembers` shows that
the functions defined so exist and `FromMembers` is the induction that goes with
them. The request objects keep options from one device to the next, so the
invariant (`QueuesInv`) says that what builder and logical device hold is what
the request makes of their own device alone. From it follow `ChosenAlwaysServe`,
`CreatesAlwaysLegal` (a family is named once and no more of its queues are created
than it has), `FailuresAreUnserved` and `LookupsAlwaysServe`.

*Set-up.* `SetupInv` says how far the program is and what query and builder hold
there; its steps are steps of those two (`SetupSteps`), so their invariants hold of
it.

- `FramesAlwaysDrawn` has a hypothesis: requests each of which brings graphics
  whatever it falls back to (`Drawing`), as that of the examples does. Another program
  may get a device without such a family, and `setSwapQueue` finds none. `Drawable` in
  `MCDeviceSetup`, which TLC evaluates, says that the programs of run `setup` are of
  this kind.
- `SetupFailuresUnserved` has none. What the program requires stands before the
  requests, and the only wishes between are those of `reniRecommended`, whose own
  requirement comes before its soft filters; `NoDeviceSuits` follows the filters that
  have been asked (`AskedRequires`) and gives that a query that selects none had
  none to select. It does not say that the device selected can serve the request:
  the query looks for each type in any family, while a shared request wants all of
  its types in one, so that the request may be refused (section 5).

**`DrawCollectionsProofs`**, for any drawables, groups, instances, visibility and any
`maxInstances`. `AlwaysDrawnAsBound`: a bind is skipped only if the drawable is the
last one bound, and a nested collection, which binds what it likes, resets that;
`BindInv` says which drawable `last` stands for. A callback that binds is not noticed,
which the property excepts; the invariant says how far this carries (`CarriedOver`):
only through draws of one and the same drawable, from the start of its group.
`GroupsShown`: a group without sort is shown by counting, so the invariant (`GroupInv`) ties what has been drawn to what
the iterator of the set has returned of the group, drawable by drawable, and the
theorem is that equation when the iterator is at its end. `AllInstancesShown`:
`SliceInv` says that the slots filled so far continue the sequence of visible
instances at the place the calls have shown; how many of them are visible is a
fold (`Seen`) taken apart by `SeenOfFirst` and `SeenStays`.

**`FoldFacts`** says what `FoldLeft` of the community modules computes: `base` of an
empty sequence, and one application more for each element. Modules that fold
instantiate it with their operator. Induction over data, here and in the proofs
above, is by the least element of the set of numbers a formula fails for (`Least`,
`UpTo`), a set being something a lemma can take as a parameter where a formula is
not.

Type invariants of these components, and `GrantsDisjoint` of both allocators, are
proved and in no run. `IInv` of `BestFit`, `QueueInv`, `SizesInv` and `SignalInv`, and
the shelf were checked with TLC on the instances above before they were proved, and so
were the types of `WinNTWindow`.

*How far to trust the prover.* tlapm 1.4.5 gives its SMT solver an axiom about
lengths that also speaks of functions which are no sequences. The proofs do not
lean on it: all of them were checked as well with that axiom restricted to
sequences.

Every safety invariant and action property of the passing runs is stated by a
theorem. Only model checked is liveness (`LoopGoesOn`, `Settles`, `FramesGoOn`,
`DrawEnds`), for which the prover has no rule (nor for ENABLED). The type invariants
of set-up (`SetupTypeOK`) and of the text renderer are not proved; they hold on the
instances of runs `setup` and `text`. The first does not hold for every value of the
constants: a program whose requests bring no family for transfers or graphics has
nothing to look its queues up in.

## 5. Where code and words differ

With a run that shows it (it checks one property and is expected to fail):

- `frameloop_refused`, `FramePrepared`: `prepareFrame` does not look at the answer of
  its second acquire (`ReniContext.java:285`). If the window changed again meanwhile,
  or the surface was lost, the frame is recorded for an image the program does not
  hold, and `submitFrame` waits for ever for a fence nobody signals. `LoopGoesOn`,
  `Settles` and `PresentsAcquired` except this.
- `memtypes`, `FindsSuitable`: `type & i` is written for `type & (1 << i)`
  (`ReniLogicalDevice.java:95`).

Without a run; a definition named here stays in its module and can be put into a
configuration:

- `FreeBlocksMerged` (`BestFit`): a released block is not merged with the free
  block before it, though the comment at
  `natives/src/main/cpp/reni/best_fit_allocator.cpp:88` says what `earliestFree` is
  kept for: the walk resets it on the released block itself.
- `FailuresAnswered` (`FirstFit`): an exact fit of the last block when it is
  `firstFree` throws a NullPointerException (`BestFitAllocator.java:37`).
- `EitherFallsBack` (`QueueSelection`): `QueueRequest.java:71` calls a split member
  without options "invalid request" and answers no options, but the test before it
  calls `getFirst` on the empty list and throws, inside an `either` as well. On a
  device without compute families the request of the examples throws before its
  fallbacks are tried (`ReniSetup.java:90`). `FailsOnlyIfUnserved` is about requests
  without a split.
- `FrameLoop`, on surfaces that take the size of their window only: if the window
  changes between `pollSize` and the creation of the chain, extents are clamped
  (`SwapChain.java:76`) while the depth image has the polled size. The size check of
  the next frame then asks for a new chain after an acquire that succeeded
  (`ReniContext.java:282`), whose image is given up and whose signal is pending; the
  second acquire signals the same semaphore again, which Vulkan leaves undefined.
  `AttachmentsFit` and `OneSignal` say that it goes no further than that: sizes differ
  by the clamp alone, and nothing else makes a second signal. With `WideSurface` for
  `Surfaces`, as in run `frameloop_refused`, no second signal can occur.
- `WinNTWindow.pollSize` measures a window with its frame (`GetWindowRect`, line 297),
  which the client area such a surface allows never is, so that the size check
  asks for a new chain in every frame (`ReniContext.java:295`).
- `Legal` (`TextRenderer`): the barriers around the copies into an atlas pass
  `COLOR_ATTACHMENT_OUTPUT` with `TRANSFER_WRITE` (`Atlas.java:205` to `218`), which
  Vulkan does not allow, as that stage makes no transfers, and which does not order
  the copies: the transition that ends the modification may run before them.
  `CommandsLegal` does not ask for the layout of an atlas when a copy into it runs.
- `Serving` and `SupportsIndices` (`DeviceSetup`): the query looks for each type in any
  family, a shared request for all of its types in one. A device without such a family
  is selected, with another beside it that has one, and refused then.
- `GrantsSmallest`, `GrantsInside` (`FirstFit`): the first block that fits is taken,
  where `BestFitAllocator.java:78` says the smallest; and the alignment is used as
  a mask (line 76) where `MemoryManager.java:16` says bytes.
- `ErrorMeansNoneMatches` (`DeviceQuery`): a `requireIfPossible` made before a
  `require` can remove the only device that meets it (`DeviceQuery.java:133`), so
  that an error does not mean that no device matches. `ThrowsOnlyIfNoneMeets` is about
  queries that require first, as that of the examples does.
- `InstanceList.draw` (`DrawCollections`, answer `threw`): the size of a slice counts
  instances that are not visible (`InstanceList.java:21`) while they are passed over
  (line 27), so that with one of them in a key's last slice the index runs past the
  end, and draw throws with that slice set up and not drawn. `InstancesShown` says
  that it throws for no other reason.
- `DrawnAsBound` (`DrawCollections`): a callback of a group that binds something is not
  noticed (`BatchCollection.java:44`): if the group goes on with the drawable that was
  bound last, `BatchList.java:22` skips its bind, and it is drawn with what the
  callback has bound.
- `RunInstanceState` (`DrawCollections`): `InstanceCollection.add` makes a callback for a
  drawable that is not instanceable (`InstanceCollection.java:44` to `47`), which binds
  and draws in the buffer `add` was given, whatever buffer is drawn into, and does not
  ask `visible()`.
- `Centred` (`WinNTWindow`): the centre is halved from the width in one place and from
  the sum of the edges in another (`WinNTWindow.java:66` and `:72`); Java divides
  towards zero, so that on a screen left of (or above) the primary one, where the
  sum is odd and negative, the cursor is put next to the centre: each move adds one
  to the sum and causes another move, and the pump need not end. The same happens to a
  window whose centre is off the desktop: with a desktop of [-3, 2) and a client area of
  [-8, 0) the cursor cannot be put further than -3, one beside the centre at -4.
  `MotionCounted` and `FramesGoOn` except both.
- `MotionCounted` (`WinNTWindow`): a message has the position of the cursor when it was
  retrieved. What cursor or window move after that is lost, or invented, when the
  cursor is put back (`WinNTWindow.java:60`); and a change of the clip drags the cursor,
  which is counted as motion of the mouse.
- `WinNTWindow.java:70` returns, and so does line 81 with a listener, without freeing the
  native rectangle that `getClip` made.
- `KeepKey`, `ChangeKeyUnseen` (`WinNTWindow`): `WM_SYSKEYUP` has a case that only
  returns (`WinNTWindow.java:159`), losing the focus clears nothing and a loop of
  Windows keeps keys to itself, so that a modifier released then stays set.
- `Modifier` (`WinNTWindow`): the cases for sided keys (`VK_LSHIFT` and so on, line 97
  onwards) never run for Shift, Control and Alt, because messages carry the unsided
  codes: these modifiers are never set. Only the two Windows keys are.
- `LeaveModal` (`WinNTWindow`): the comment at `WinNTWindow.java:154` says that a case
  prevents Windows from pausing the program. It does for a key, not for the menu and
  the title bar, whose messages go to `DefWindowProc` (line 222): frames stop until the
  user is done.
- `free` (`BestFitHeap`): the list nodes of `free_blocks` leak
  (`best_fit_allocator.cpp:155`), and a second `free` of one handle, which
  `BestFitManager.java:34` does not refuse, would free the blocks again.
- `QuantizedHashSet.toArray` (`QuantizedHashSet.java:62`) stores every element in the
  first place of the array; nothing calls it.
- `BatchCollection` and `InstanceCollection` declare `pipeline` again
  (`BatchCollection.java:15`), which hides the field of `DrawCollection`.

## 6. What is not modelled

- *Widths.* Sizes and addresses of both allocators are unbounded integers: requests
  close to 2^31 that wrap when rounded are left out. So is a request of zero bytes,
  which no caller makes.
- *Native memory of call arguments* (leaked on some early returns), names, labels,
  logging; the nodes of `std::list`. Calls to a native manager that was freed.
- *Frame loop:* instance creation, off-screen surfaces, `addBuffer`; what a pass
  draws. The command buffer of a frame is one job.
- *Text renderer:* FreeType, metrics and where glyphs are put on the screen;
  `Atlas.reset` and `glyphBoundsByIndex`, which it does not use; the 65536 bytes
  `vkCmdUpdateBuffer` takes.
- *Command ordering:* memory is visible once it is ordered, and the two scopes of a
  barrier are taken for its whole effect; caches are not modelled apart.
- *Windows window:* creation, disposal and name; the size polled for the frame loop
  (`GenericWindow`, in `FrameLoop`); the listeners beyond their capturing and freeing
  the mouse; areas that are no intervals, as on screens of different heights. Of
  `win_user.cpp` only `GetClientRect` is called.
- *Draw collections:* what drawables do to the command buffer beyond binding
  themselves; `QuantizedHashSet` but for `add` and its iterator, which alone are used.
- *Devices:* extensions, features, names; queue flags other than the three types.
- *Vendored JNI headers* (`natives/src/main/include/jni`): nearly all of the native
  part's lines (9056 of 9384). They are declarations of the Java platform, with no
  behaviour and no state of this program; the share of native code that is
  modelled is therefore small although the memory manager is modelled whole.
- *Native bindings:* `performance_counters.cpp` and the rest of `win_user.cpp` are
  calls passed through one by one, which the library does not use (a tick count of
  32 bits among them, which wraps after 49 days).
- *Recording and resources.* Passes, barriers of their own, buffers and descriptors
  are planned below. Frames are awaited whole before the next one begins, so that
  what could go wrong there without a program's help is what `FrameLoop` and
  `TextRenderer` cover; ownership is the caller's throughout.
- Components without behaviour of their own (enumerations, structures filled for the
  driver, the format selector, pipelines and shaders).

## 7. Plan

In this order; the first seven are done.

1. Memory managers: `AddressSpace`, `BestFit`, `FirstFit`; refinement and its proof.
2. Frame loop with its actors; liveness; proofs of its safety.
3. Queue selection, device query and set-up, which composes them, with proofs; memory
   types.
4. Text renderer with the commands its atlases live by; proofs of the packing, of the
   commands and of what frames show.
5. The life of a native manager: `BestFitHeap` and its proof.
6. `DrawCollections`: both collections and the set between them, one inside the other.
7. `WinNTWindow`: pump, procedure, capture of the mouse, modifier keys, and proofs.
8. `Recording`: the life cycle of a `CommandBuffer` (initial, recording, executable,
   pending), passes and clear flags, layouts of chain and depth images over frames
   and recreation; composed with `FrameLoop`, whose `submitFrame` it refines.
9. `Resources`: ownership of `GPUBuffer`, `Texture`, `DescriptorSet`: what is
   destroyed, when, and by whom; uploads through staging buffers.
10. Proofs that are left: the type invariants of set-up and text renderer, and those of
    items 8 and 9.
