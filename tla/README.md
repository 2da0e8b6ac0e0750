# A verification project for OpenCOLLADA

OpenCOLLADA is a C++ library that reads COLLADA documents (a SAX parser generated
from the schema, loaders that turn elements into a data model, a writer interface
for clients) and writes them (a stream writer over a buffered file). This directory
holds TLA+ models of the parts of it that have state and an order of events, TLC
configurations that check them on small instances, and theorems about them that
TLAPS checks for every instance. `PROJECT.json` says for every definition which lines
of the source it models, which mutation of the code every property would notice,
and which hazards of the code the properties are for.

    tlc -workers 2 -config Loader.cfg MCLoader.tla     # a run: see "Runs" for the pairs
    tlapm LoaderProofs.tla                             # a proof module

## 1. The system

### 1.1 Reading

    XML reader ──> ParserTemplate ──> generated parser ──> loaders ──> IWriter (client)
    (libxml,        dispatch of        conversion of        FileLoader     ^
     expat)         elements           attributes, text     part loaders   |
                       |                    |                   |      postProcess()
                       |                    v                   v          |
                       |            StackMemoryManager        Loader ──────┘
                       v                                 (ids, sid tree, stored objects)
              handler of unknown elements ──> extra data handlers (client)

Everything is called from one thread: the reader calls the parser, the parser calls
the loaders, the loaders call the client's writer, and each returns before the next
event. What is hard is not concurrency. It is that almost every piece of state is
written in one callback and used in another, many elements of an arbitrary document
later; that clients decide in callbacks (go on or stop, want this or not, register
or unregister a handler); and that one `Loader` lives through several files, passes
and documents.

| Component (state) | Operations | What makes it correct |
|---|---|---|
| `StackMemoryManager` (frames of memory, position in each) | `newObject`, `growObject`, `deleteObject`, `top` | objects never overlap; the top object is found from the position alone; it is a stack |
| `ParserTemplate`, dispatch (stack of element data, three counters of skipped elements, stack of namespaces, handlers, function map) | `elementBegin`, `textData`, `elementEnd`, (un)registering handlers | the end of an element goes to whoever got its begin; prefixes keep their meaning |
| `ParserTemplate`, lists of values (unfinished value on the memory stack) | `characterData2Data`, `toDataPrefix`, `dataEnd` | values do not depend on where the reader splits the text; the stack of the enclosing elements is kept |
| extra data (handlers, a flag per handler) | begin of a technique, unknown elements | who wanted the technique, and nobody else, gets what is below it, with balanced begins and ends |
| `Loader`, `FileLoader`, `VersionParser` (file ids, unique ids, parsed flags, stored objects) | `loadDocument`, references, ends of objects, `postProcess` | each file once; ids name the right files; what is asked for is written; failure is reported and cancelled |
| `SidTreeNode`, `DocumentProcessor` (tree of elements with ids and sids, a map of descendants in each node) | `addToSidTree`, `moveUpInSidTree`, `resolveSid` | a sid is found if and only if it is below; the nearest one; addresses are resolved to what they mean |
| `NodeLoader`, `LibraryControllersLoader`, `DocumentProcessor` (joints of skins, instances of controllers, set of controllers) | reading nodes, skins and instances in any order; making controllers early or after the last file | every instance gets a controller, with the joints that the skin names below its own skeletons, in their order |
| `MeshLoader` (values of each semantic, where each source begins in them, offsets, index lists and counters of the current primitive) | inputs, `<p>`, `<ph>`, `<h>`, `<vcount>`, ends of primitives | index lists are the vertices of the text, short strips taken back from all of them; indices lead into the right source; nothing is left of the primitive before |
| `PostProcessor` | writes morph and skin controllers, animation lists, formulas, kinematics after the last file | that it runs once and last is part of `Loader`, skin controllers of `SkinControllers` |
| part loaders, animation, effect and kinematics loaders | begin/data/end of their elements | not modelled yet (section 8) |

### 1.2 Writing

    client ──> libraries, Source, Primitives ... ──> StreamWriter, TagCloser
               ──> CharacterBuffer ──> Buffer ──> FWriteBufferFlusher ──> file

| Component (state) | Operations | What makes it correct |
|---|---|---|
| `StreamWriter` (stack of open tags, two flags each, level, next index), `TagCloser` (an index) | open, close, attributes, text, values, closers | what is written is a well-formed beginning of a document; a closer that is used late closes nothing that was opened before its own element |
| `Buffer`, `CharacterBuffer` (bytes that wait, direct flush size, marks, overwriting) and its flusher | copies of data and of numbers, flush, marks and jumps | it cannot be told from an unbuffered file; after a failed write, what is in the file is in order |
| elements and libraries (`Library::mLibraryOpen`, ...) | sequences of calls of `StreamWriter` | not modelled: `StreamWriter` is modelled for every sequence of calls |

### 1.3 The rest

`COLLADAFramework` is the data model between loaders and writers; `COLLADABaseUtils`
has URIs, strings and mathematics; `COLLADAValidator` and `DAEValidator` are
programs over the library; `COLLADAMax`, `COLLADAMaya`, `dae2ma`, `dae2ogre`, `dae23ds`
are clients. What a client may do is nondeterministic in the models.

## 2. Modules

| Module | Models | Lines of the source |
|---|---|---|
| `ObjectStack` | what the memory manager promises (abstract) | its callers |
| `StackMemoryManager` | frames, positions, size words, moving an object to a larger frame | `GeneratedSaxParserStackMemoryManager.cpp` |
| `UnbufferedFile` | what the buffer promises (abstract) | its callers |
| `Buffer` | buffer, conversions of numbers in place, flusher, marks | `common/libBuffer` |
| `XmlReader` | what an XML reader makes of the text, piece by piece | external |
| `StreamWriter` | every call that writes | `COLLADASWStreamWriter.cpp` |
| `ParserDispatch` | begin, text and end of elements, namespaces | `GeneratedSaxParserParserTemplate.h` 1802-2340 |
| `CharacterData` | text of list elements in pieces | `GeneratedSaxParserParserTemplate.h` 651-912, 1436-1518 |
| `ExtraData` | extends `ParserDispatch` with the client's callback handlers | `COLLADASaxFWLExtraData*.cpp` |
| `Loader` | documents, passes, files, ids, stored objects | `COLLADASaxFWLLoader.cpp`, `...FileLoader.cpp`, `...VersionParser.cpp`, `...PostProcessor.cpp` |
| `SidTree` | building the tree, resolving addresses | `COLLADASaxFWLSidTreeNode.cpp`, `...DocumentProcessor.cpp` |
| `SkinControllers` | extends `SidTree` with nodes, a skin and its instances | `...DocumentProcessor.cpp` 219-476, `...LibraryControllersLoader.cpp`, `...NodeLoader.cpp`, `...Loader.cpp` |
| `Mesh` | the primitives of a mesh | `COLLADASaxFWLMeshLoader.cpp`, `...MeshPrimitiveInputList.cpp` |

`MC...` modules give constants their values for TLC. `...Proofs` modules hold the
theorems, those about `ExtraData` and `SkinControllers` together with those about the
components they extend: each step of theirs takes a step of `ParserDispatch`, or of
`SidTree`, with its own part, or leaves that component alone, so that their behaviours
are behaviours of the parser, or of the tree (proved, `ExtraDataIsAParser` and
`ImplementsSidTree`).

### 2.1 StackMemoryManager

`frames` is `mFrames` up to `mActiveFrame`; a frame has its blob as a function from
offsets to a byte, a size word or garbage, and its `mCurrentPosition`. `live` is what
callers believe they have: object, place and bytes. The loops that allocate frames
are one step, and leave empty frames between. `NewObject`, `GrowObject` (in place or by
moving) and `DeleteObject` are the three operations, `Refused...` what they do when
there is no frame left. An operation that returns 0 leaves the frames it allocated
with an empty one active, in which `top` and `deleteObject` have nothing to read; no
caller goes on after that, and the model has no step after it.
`TopIsLastPushed` and `LiveObjectsDisjoint` relate offsets to what callers believe;
`Layout` is the inductive invariant. `StackInMemory` reads the objects from the frames as
the code would find them, from each position downwards by the size in front of it
(`ObjectsBelow`); `ImplementsObjectStack` says that this is a stack.

### 2.2 Buffer

Bytes are numbered in the order in which they are handed in, so that a byte lost,
repeated or moved can be seen. `Write` chooses between the buffer, a flush before it,
and a direct flush; numbers and booleans are converted in place behind a check of
the room for the longest text; `fwrite` may take a part of the bytes and fail. A jump
to a mark makes the writer overwrite. `ImplementsUnbufferedFile` holds as long as
no write has failed (`broken` in the abstract module); `SurvivorsInOrder` says what
is left of it afterwards, and `TrueMeansKept` what a result of true means.
The counter `mBytesFlushed` is not kept: nothing but `getBytesWritten` reads it. (It
does not count what is appended after a jump that was refused, and counts what
overwriting appends as if it overwrote.)

### 2.3 StreamWriter

`openTags` is `mOpenTags` with both flags, `level` and `nextIndex` are `mLevel` and
`mNextElementIndex`. The text is not kept: `XmlReader` reads each piece at once, and
`reader` is what it has found. `CloseElements(index)` is what a `TagCloser` calls, with
the index of any element that was ever opened. `WellFormed` relates the reader's open
elements to the stack; `CloserClosesOwn` is the action property about closers used
late. When elements are open that were opened after its own, and its own is gone, code
and comments disagree: `closeElements` does nothing (`COLLADASWStreamWriter.cpp:1017`,
1026 and 1039 say so too), and by the comment at `COLLADASWStreamWriter.h:58` `close`
closes "all elements that have been open and not closed, since this object has been
instantiated". `CloserClosesOwn` says nothing of this case; it says that elements opened
before the closer's own stay whenever the closer is used, and that its own, if open, is
closed with all that were opened later.

### 2.4 ParserDispatch

`elementDataStack`, `ignoreElements`, `unknownElements`, `namespaceElements`,
`activeHandler`, `handlers` and `namespacesStack` are the members of the same names.
`open` is the document's: every open element with who was told of its begin, and the
prefixes the parser knew then. An element is skipped below a skipped one
(`BeginSkipped`), given to the implementation (`BeginKnown`), to the handler of its
namespace (`BeginNamespace`), or to nobody or the handler of unknown elements
(`BeginForeign`). Every callback may refuse (`ok`), which stops the parser (`live`).
The schema is a constant. An element the function map leaves out is looked up in the
complete map by the hash of its name (line 2008), though its keys are generated
hashes: `GlobalName` are the names for which they agree. Those for which they do not
go to the handler of unknown elements.
The function map and the handler of unknown elements are set before the document,
which is when `VersionParser` sets them.

### 2.5 CharacterData

`pieces` are the texts the reader has reported for one element, `stack` the objects of
the memory manager as the characters in them, `fragment` the place of the unfinished
value in it. A piece ends in one of five ways, the disjuncts of `TextData`: the
fragment and what follows it cannot be converted; something later cannot; nothing is
unfinished; the rest becomes the fragment; or the fragment is made longer from what
a deleted object left in memory. The last one is wrong unless exactly one character
of white space precedes the value (finding `character_data_split`): with pieces
`12` and `34` the value becomes 134. With more white space the longer fragment ends in
bytes that nobody wrote (`unwritten`), and the position after its value can lie before
the piece, so that the loop reads what is there (`Overrun`, `before`): both are any
characters. `PiecesDoNotMatter` therefore excepts pieces that
are wholly within a value that began before them, and says of all others that the
values are those of the unsplit text, at any moment: what was delivered, with what
is in the fragment. `NothingLeftBehind` excepts pieces that finish a value and leave
another unfinished, which leave two objects on the stack for good; `EnclosingKept`, and
in `TypeOK` that the fragment is the top object and is not all white space, hold of
every text. Values are integers, as `Utils::toInteger` reads
them; the array of values on top of the stack, allocated and deleted within a call,
is left out, and so are builds that validate.

### 2.6 ExtraData

`calling` are the handlers whose flag is set. Before the first technique the flags are
not initialized (`new bool[n]`), so `ExtraInit` takes any. `extra` records for every
open element who was told of its begin and who wanted it when asked. Flags stay set
after the end of a technique; unknown elements between techniques go to whoever
wanted the last one, and `WishesAreRespected` says nothing about those.
`TechniqueAssumption` says that the schema has no element below a `<technique>` that is
extra data: what is there is unknown, which is why it goes to these handlers.

### 2.7 Loader

A document is a set of objects in files, each with a kind (the flag that asks for it)
and a reference to another object, perhaps in another file. `OpenFile` takes the next
file id, computes the function map as `VersionParser` does from `mParsedObjectFlags`
and the flags of this pass, `ParseObject` parses one of the objects left in the file
in any order: it is stored, written or dropped, and its reference gets a unique id, and
a file id if its file is new. Files may be missing, refused by the client's decider, or
stopped in the middle by the writer. `StopIsFailure` is what the XML reader reports
then: true for expat, false for libxml (finding `loader_libxml`). The second
document with the same `Loader` starts with the file ids of the first, so its root
does not have id 0, as the code expects (`COLLADASaxFWLLoader.cpp:207`); a root refused
for that reason is in the model. `LoadStep` is what `loadDocument` does before it returns;
`FairSpec` says that it goes on doing so, and `LoadingEnds` that it returns.
`SinglePassesComplete` says of a single file in several passes what `RequestedIsWritten`
says of any number of files, for which it does not hold. Both leave out formulas, to which
no library belongs: the function map has them only if all flags are set. Left out: loading
from a buffer.

### 2.8 SidTree

`tree` has for every node its sid, its parent and all nodes above, `children` the maps
of the nodes by sid and level, `current` the node that elements are added below, and
`nodeOf` the map of ids. Loaders call `AddToSidTree` and `MoveUpInSidTree` in any
order that does not leave the root. The level in a map counts the steps by the sid of
the node whose map it is, and not of the nodes between (`COLLADASaxFWLSidTreeNode.cpp:80`),
so that a map of a node without a sid does not tell children from grandchildren;
`FindsNearest` states the promise of the header for trees in which every node has a sid.
`ResolvesWhatIsMeant` compares `resolveSid` with a definition of what an address means,
where no sid occurs twice.

### 2.9 SkinControllers

`objects` are the nodes of the tree that are `<node>` elements, `instances` the list of
instances of the skin, with their skeletons, the controller that each has been given and
whether it is still in the list, `joints` what the skin names, and `controllers` the set
of those made, in the order of writing. The input `JOINT` of the skin makes controllers
for the instances so far (`BeginInputJoint`) if the geometry has a unique id already;
those that fail stay listed and are tried again in `CreateAndWriteSkinControllers`, after
the last file, with the instances that came later. Each is one step of the code, a loop
whose outcomes (`Outcomes`) the model collects round by round (`Round`): an error handler
that stops or goes on, and a writer that fails, at each instance. `BeginInputJointMissing` is what happens when the
joints' source is missing, with the answer of the error handler taken the wrong way
round, as the code does. `InstancesGetTheirJoints` is an action property: when an
instance gets a controller, be it shared with another instance or its own, the
controller has the joints that the names can mean below this instance's skeletons, in
order, with none missing that can only be one node. Names that mean no node are left
out of the controller, which moves later joints against the indices of the skin; the
property allows that. One skin and one geometry are modelled, as each skin has its own
list of instances and joints.

### 2.10 Mesh

`values` are the lists of values of the mesh, each as the sequence of the sources
appended to it; `loaded` and `initialIndex` are the two members of a source that the
MeshLoader writes; `prim` has the members of the MeshLoader that concern the current
primitive, with `uses` for the index lists it will have, in place of a pair of members
for each semantic. A number of `<p>` is a step (`Data`), and is given a value that tells
its vertex and offset, so that index lists show what was written where. `element` is the
innermost open element and `text` records the vertices of each `<p>`, `<ph>` and `<h>`.
Strips and fans end at the end of `<p>`; a `<p>` below `<ph>` is an outline, and the `<h>`
after it are holes, counted negatively, unless it was empty. `IndicesAreTheText`
says what becomes of a primitive from the text alone; it excepts tangents and binormals
of a primitive with a strip that was too short, from whose lists `end__p` takes nothing
back. `IndicesFindTheirSource` is about sources that are `Plain`: only one semantic has
loaded the source, its stride is accepted for it, and the number of values before it in
the list is a multiple of its stride, as it is if the list has sources of one stride. So
it excepts sources that serve two semantics, for which there is one `mInitialIndex`;
sources behind others of another stride, when dividing the offset rounds; and positions
that are not the first, whose offset is not divided. In each of these cases the code's
indices are, or can be, wrong.
The schema's order of the elements is assumed, and that the numbers of a `<p>` are
complete vertices. Contents of `<source>` and the type of its values are left out.

## 3. Runs

| Run | Module, cfg | Bounds | Shows |
|---|---|---|---|
| `stack_memory` | `MCStackMemoryManager`, `StackMemoryManager.cfg` | 3 frames of 2, 4, 8 bytes with words of one byte, requests of 0, 1, 2, 8 | layout, no overlap, last in first out, refinement of `ObjectStack` |
| `buffer` | `Buffer`, `Buffer.cfg` | buffer of 3, 5 bytes handed in, 2 marks, one failing write | refinement of `UnbufferedFile`, order after a failure |
| `stream_writer` | `StreamWriter`, `StreamWriter.cfg` | 5 elements, 2 names | well-formedness, separate values, closers |
| `dispatch` | `MCParserDispatch`, `ParserDispatch.cfg` | 4 open elements, 3 types, 2 namespaces, 3 function maps | who gets what, namespaces |
| `extra_data` | `MCExtraData`, `ExtraData.cfg` | 6 open elements, 2 handlers | balanced calls, wishes |
| `character_data` | `MCCharacterData`, `CharacterData.cfg` | texts of 6 characters of 5 kinds, in pieces of 1 or 2 or a number behind 3 of white space | values independent of the pieces |
| `character_data_split` | `MCCharacterData`, `CharacterDataSplit.cfg` | texts of 5 characters in pieces of up to 3 | **violated**: a value in two pieces is damaged |
| `loader` | `MCLoader`, `Loader.cfg` | 2 files that refer to each other and 1 that stands alone, 3 calls of `loadDocument`, 4 combinations of flags | loading ends; ids, each file once, completeness of documents and of passes, cancelling |
| `loader_external` | `MCLoader`, `LoaderExternal.cfg` | 2 files, 1 pass | **violated**: libraries of the second file are left out |
| `loader_libxml` | `MCLoader`, `LoaderLibxml.cfg` | 1 file | **violated**: stopped loading is reported as success |
| `sid_tree` | `MCSkinControllers`, `SkinControllers.cfg` | 5 nodes, 2 ids, 2 sids, addresses of 3 sids; 3 nodes with `<node>` elements, a skin and 2 instances, lists of 1 or 2 joints, 0 or 2 skeletons | finding and resolving; controllers of instances |
| `mesh` | `MCMesh`, `Mesh.cfg` | 3 primitives, 5 vertices and 3 texts in each, 4 lists of inputs over 8 sources | index lists, sources, counters |

Why the bounds are enough. Frames: the third is needed for an object that skips one
and for popping two at once. Buffer: data of 2 fits, 4 does not, two numbers of 2 fill
more than the buffer, so each path of `copyToBuffer` is taken in each state of the
buffer, and two marks make an order of marks. Five elements let a closer be used
inside, beside and after its own element. Four open elements let a frame of namespaces
be pushed, counted and popped with another pushed inside. Six characters hold two
values and a piece boundary in each place relative to them, and a number behind enough
white space for a position before the next piece. Two files in a circle
are the smallest case of a file that is referred to before, while and after it is
parsed; three passes are the smallest number for a kind that was parsed, left out and
asked for again. Five nodes hold two that compete for a sid, at different depths
below a third. With skins, three nodes are a root, a skeleton and a joint in it, or two
skeletons; two instances are one before and one after the skin, or two that share a
controller or must not. Five vertices are a strip that is long enough and one that is
too short, in either order, or an outline with a hole; three primitives are one that
leaves something behind, one that is hurt, and one between them that loads other
sources. `SYMMETRY` in `SkinControllers.cfg` is sound: ids and sids are only compared.

Deadlock is not checked where the system may stop: after a callback that refuses, at
a bound, at the end of the last document or element. It is checked for `stack_memory`,
`buffer` and `stream_writer`, whose callers can always do something more.

**Fairness and liveness.** `Loader` is the one specification with fairness:
`FairSpec == Spec /\ WF_vars(LoadStep)`. `loadDocument` is a loop in the thread of its
caller, over files that are finite; whatever the XML reader and the client's callbacks
answer, the thread takes the next step, so weak fairness of the steps within the call is
what the code's own control flow gives. Nothing is assumed of the client, who may never
call, nor about which of several steps is taken. `LoadingEnds` then says that the loop
ends although files that refer to each other keep adding to the list it goes through:
because each file is listed once per document, and because a file that was stopped ends
the loop. The other components promise no progress of their own: every step is a call
by a client or by the XML reader, which may stop at any time.

## 4. What is proved

Theorems hold for every value of the constants that satisfies the named assumptions.

| Theorem | Says |
|---|---|
| `StackMemoryManagerProofs!LayoutInvariant`, `TypeCorrect`, `ObjectsNeverOverlap`, `TopIsAlwaysLastPushed`, `MemoryIsAStack` | for any number and sizes of frames, any word size and requests; the last is the refinement of `ObjectStack` |
| `BufferProofs!TypesAreRight`, `TrueAlwaysMeansKept`, `SurvivorsAlwaysInOrder`, `BufferingCannotBeSeen` | for any size of the buffer, any data, marks and failing writes; the last is the refinement of `UnbufferedFile` |
| `StreamWriterProofs!TypesAreRight`, `AlwaysWellFormed`, `StackAlwaysOrdered`, `ValuesAlwaysSeparated`, `ClosersCloseTheirOwn` | for any names and any number of elements; the last is what a closer keeps, and what it closes while its own element is open |
| `ParserDispatchProofs!TypesAreRight`, `ReceiverIsAlwaysBeginners`, `ImplementationIsAlwaysOnPath`, `NamespacesAlwaysRestored` | for any schema, depth, function maps, handlers |
| `ParserDispatchProofs!ExtraDataIsAParser`, `EndsAlwaysReachWhoWasTold`, `WishesAreAlwaysRespected` | for any handlers, over any such parser |
| `CharacterDataProofs!TypesAreRight`, `EnclosingAlwaysKept`, `NothingIsLeftBehind`, `PiecesNeverMatter` | for any characters, texts, pieces of them and enclosing objects |
| `LoaderProofs!TypesAreRight`, `FileIdsAlwaysNameFiles`, `EachFileIsOpenedOnce`, `LoadIsComplete`, `PassesAreComplete`, `AbortedIsAlwaysCancelled` | for any files, references, flags and passes |
| `SidTreeProofs!TypesAreRight`, `AlwaysFindsWhatIsBelow`, `AlwaysFindsNearest`, `AlwaysResolvesWhatIsMeant` | for trees of any size, addresses of any length |
| `SidTreeProofs!ImplementsSidTree`, `JointsAreSearchedInATree`, `SkinTypesAreRight`, `DoneIsComplete`, `JointsAreRight` | for any joints, skeletons, numbers of instances, answers of the error handler and the writer |
| `MeshProofs!MeshTypeInvariant` | for any sources, strides, inputs, numbers of primitives, and texts of any length |
| `MeshProofs!SourcesAreFound` | for any numbers of sources and primitives in any order, of the sources that are `Plain` (2.10): loaded by one semantic, with an accepted stride, behind a multiple of that stride, and positions first |
| `MeshProofs!IndicesAreAlwaysTheText` | for any inputs and texts of any length, of all index lists but those of tangents and binormals of a primitive with a strip that was taken back |

How the arguments go:

* **StackMemoryManager.** `Layout` says that the live objects of a frame follow each
  other from offset 0, each with its size in the word behind it, up to the position,
  and that objects of lower frames are older. It is inductive by itself; the other
  properties are read off it. Moving the top object to a larger frame is the case with
  most steps: the object leaves one frame's end and becomes the only one in another.
  `MemoryIsAStack` reads memory by two recursive functions, which exist because each size
  leads to a lower offset (`WalkExists`) and each frame follows another. By `Layout` the
  objects they find are those of `live` (`FramesAreRead`, `MemoryHoldsTheStack`): below the
  begin of an object is the end of the one pushed before it, or the begin of the frame
  (`Predecessor`). Each operation is then looked at on `live` alone.
* **Buffer.** `Content` is the file with the buffer put into it at the position, which is
  the abstract file. Every call either moves bytes from the caller through the buffer to
  the file (`Moved`: what was written and what waits now is the beginning of what waited
  and of the data, and all of it if nothing failed), or jumps. `copyToBuffer` has many
  paths, and each is shown once to be a `Moved`; types, the refinement and `TrueMeansKept`
  follow from it alone. `SurvivorsInOrder` needs in addition that the position is at the
  end of the file and that what waits is younger than what is there (`AtTheEnd`).
* **StreamWriter.** `IInv` adds to the properties that the reader is inside a start tag
  exactly if the top element has no contents, that elements below the top have contents,
  and that indices grow up the stack (`StackOrdered`, itself the theorem
  `StackAlwaysOrdered`; `closeElements`' early return relies on it). Closing down to an
  index is done once for all numbers of elements (`ClosingElements`).
* **ParserDispatch.** `IInv == TypeOK /\ (live => Structure /\ ToldRightly /\ OnPath)`: at
  most one counter is positive (`Structure`), the open elements are those on the stack
  followed by as many skipped ones as the counter says, all told to the same receiver
  (`ToldRightly`). `ReceiverIsBeginners` alone is not inductive: at the end of an element
  one has to know who was told of the one below it.
  `NamespacesRestored` is about bindings two elements apart, and needs that the frames
  of namespaces divide the open elements among them (`FramesDivideOpen`): each frame
  belongs to the element it was pushed for and to as many above it as its counter says.
* **ExtraData.** The parser's invariant is carried over by `ExtraDataIsAParser`, and
  `EInv` says that, while unknown elements are open, those told are those with a flag,
  since no technique can begin below an element that is skipped; `WishesAreCalling`, that
  the flags are then still those of the innermost technique.
* **CharacterData.** The conversions (`ToData`, a recursive function `Loop` over a text) are
  compared first for two texts that have a part in common; what the loop makes of a text
  is shown by looking at the shortest rest for which it is false (`Smallest`), which takes
  the place of an induction. Then the stack: the fragment is the top object (`Keeps`),
  whatever unwritten memory holds. `Faithful` is the invariant for `PiecesDoNotMatter`: if
  no piece was swallowed, the text so far is made of what the delivered values were made
  from and of the fragment (`Behind`), and is converted to those values.
* **Loader.** `IInv` has four parts: both maps between files and ids are inverse to each
  other on 0 .. next - 1 (`FileMaps`), unique ids have ids of their object's file
  (`UniqueIds`), the file that is open has an id (`Current`), and types (`Rest`).
  `EachFileOnce` is an action property and needs history: `OnceSince` relates what was
  loaded since the document began to the ids below the current one. The theorem about
  aborted loading assumes `StopIsFailure`; without it the run `loader_libxml` has the
  counterexample. For `CompleteLoad`, `FirstPass` says that an object whose element was
  seen was stored or written once (a file is opened once, so no object is seen twice), that
  what it refers to is in a file with an id, and that files with lower ids were loaded or
  refused. For `SinglePassesComplete`, `FileInv` says of the kinds that are left out when
  they were parsed before that their objects are stored or still to come in this file. The
  tables of the function map are compared for it: what is asked for is parsed or was
  (`AskedAreParsed`), and what is marked as parsed is, or was (`MarkedAreParsed`). The first
  of these is false for formulas, which is how they came to be left out.
* **SidTree.** `IInv` says that nodes above a node are older (`AboveIsBefore`), that
  entries of a map are nodes below (`EntriesAreBelow`), and that every node below with
  a sid has an entry with that sid (`BelowAreEntries`), its own or of one that came first.
  `FindsNearest` needs the nodes above a node to be a chain (`AboveIsChain`) and levels to
  be the numbers of nodes with sids on it (`EntriesHaveLevels`, `BelowHaveLevels`).
  `ResolvesWhatIsMeant` compares two recursive functions, on the code's side and on the
  definition's, both of which descend in `2 * Len(sids) + Hops`: an instance is followed at
  most once between two sids, because nodes with an id have no url (`IdsHaveNoUrl`). That
  such functions exist, and that they agree, is shown by a smallest counterexample.
* **SkinControllers.** Each step is a step of the tree or leaves it alone
  (`StepOfTheTree`), hence a refinement with the identity as mapping; the theorems about
  the tree then hold at every moment at which joints are looked for. The loops over names
  (`JointsUpTo`) and over instances (`After`, `Fares`) are functions of the number of rounds,
  which exist by `CountExists` and keep what each round keeps by `CountKeeps`. `SkinInv`
  adds to the tree's invariant that controllers consist of objects in the tree, that
  instances have controllers that were made, and that instances without one are listed.
* **Mesh.** `Consistent` is types and counters. It has to say, for `TypeOK`, that a list has
  grown by one number more than the vertices that were counted if its offset has been
  passed in the vertex that is read (`GrownBy`), and that no vertex is counted before the
  lists are made. For `IndicesFindTheirSource`, `Placed` says that a source which one
  semantic has loaded is at one place in the list, and that its `mInitialIndex` is the number
  of values before it; an offset divided by the stride can be multiplied again because that
  number is a multiple of the stride (`Plain`, `WholeOffset`). `IndicesAreTheText` says what a primitive is
  at its end, from the whole text. The invariant for it, `ReadsTheText`, says the same at
  each number: a list has the vertices of the elements that have ended, without those that
  were taken back, and as many of the open element as its offset says (`ListsFit`); the
  counts are those of the elements that have ended (`CountsFit`); `mEmptyP` and
  `mCurrentLastPrimitiveVertexCount` are about the outline and the element that is open
  (`Shape`); the list of the positions is there, from which the client takes the number of
  indices (`PositionsFirst`). That a hole is kept if its outline has vertices needs the
  outline that it belongs to, however many holes are between them (`OutlineExists`); that
  ended elements keep what they contribute while the text grows is `SameKeptUpTo`. A short
  strip takes back as many numbers from a list as it wrote (`ListTakenBack`).

Assumptions on constants are named (`SchemaAssumption`, `MapsAssumption`,
`TechniqueAssumption`, `SidTreeAssumption`, ...), stand where the constants are declared
and are evaluated by TLC in the runs.

Only model-checked: `LoadingEnds`, since liveness under fairness and ENABLED are out of
reach of the provers, and what the runs `character_data_split`, `loader_external` and
`loader_libxml` find violated.

## 5. Findings

* `character_data_split`: `GeneratedSaxParserParserTemplate.h:855` takes the size of the
  old fragment less 1.
* `loader_external`: `COLLADASaxFWLVersionParser.cpp:280` marks kinds of objects as parsed
  when the first file is opened, and so leaves them out of the other files of the same
  call.
* `loader_libxml`: `GeneratedSaxParserLibxmlSaxParser.cpp:116` returns true for a document
  that was stopped or malformed.

Other divergences that were met are hazards in `PROJECT.json`, each with a note: the
namespaces below a parent that allows no others, elements taken for unknown ones,
extra data flags that are not initialized and not reset, kinds without a library,
objects stored twice by later passes, levels of sids, the sid of `<newparam>` in `cg`, the
answer of the error handler taken the wrong way round in
`LibraryControllersLoader` (lines 349 and 460), tangents and binormals that are not taken
back from strips, the one `mInitialIndex` of a source with two semantics, and closers
whose own element is closed while later ones are open.

## 6. Mutants

Operators with the comment "Mutant of ..." are wrong on purpose: each is a plausible
bug in one definition, and `PROJECT.json` names the property that notices it when the
definition is replaced. No specification uses them.

## 7. Not modelled, and why

Generated parsers are tables, which `ParserDispatch` takes as constants. Contents of
objects (effects, lights, cameras, materials, the data model of `COLLADAFramework`)
are copied from one structure to another. Strings, URIs, mathematics and the digits
of floating point numbers are pure functions on data outside TLC's reach, or of little
gain from it. MathML is read by a vendored library. Plug-ins and converters are
clients. Builds with `GENERATEDSAXPARSER_VALIDATION` are not considered.

## 8. Plan

The order is by how much depends on a part, and by how much state it carries from one
callback to another. 1 to 8 are done.

1. `StackMemoryManager`, `ObjectStack`: all memory of the parser.
2. `Buffer`, `UnbufferedFile`, `StreamWriter`, `XmlReader`: all writing.
3. `ParserDispatch`: all reading.
4. `ExtraData`, `Loader`: what clients see.
5. `SidTree`: what references between objects rest on.
6. `CharacterData`: all numbers in a document.
7. `SkinControllers`: what is put together from parts of several files, in any order.
8. `Mesh`: nearly all of the numbers in a document go through it.
9. `PartLoaders`: which of the loaders the callbacks go to, how one takes over and gives
   back, who deletes whom.
10. The rest of `PostProcessor` and of the controllers' loader: weights and morph
    controllers, animation lists from intermediate data in any order; unique ids made
    after the last file; loading from a buffer.
11. `SourceArrayLoader`, over `CharacterData`; `TransformationLoader` and bindings of
    materials; `RawUnknownElementHandler`, over `XmlReader`.
12. `Library` and `Primitives` of the stream writer; lists in attributes; ids made
    unique by `IDList`; resolution of relative URIs against RFC 3986.

Each property of a passing run but `LoadingEnds` has its theorem. To prove next: what the
modules of 9 to 12 will say.
