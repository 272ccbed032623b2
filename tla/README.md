# go-ls-remote: a TLA+ development

go-ls-remote lists the refs of a Git remote, and reports the type and size of
its objects, over `file://`, `http(s)://`, `ssh://` and `git://`. For `file://`
it runs the server side itself, in a goroutine, on top of its own reader of
Git's on-disk formats. This directory models the parts where steps of several
actors, failures half way or long sequences of legal calls decide whether the
answer is right: the client session, the upload-pack server, the four
transports and Dial over them, opening a ref store and an object store, how the
refs in a repository become the refs a caller sees, and the lookups in Git's
binary files.

Paths below are relative to the repository's root, `objstore/` stands for
`internal/objstore/`, `server/` for `internal/server/`.

## The system

| Part | State it keeps | Operations | What is hard, and what has to hold |
|---|---|---|---|
| Session (`session.go`, `dial.go`) | connection, advertised refs, protocol version, the error that killed it | Dial, Refs (an iterator), ObjectInfo, Close | A caller may break out of an iteration, fail, or close from another goroutine: no response may be read by the wrong call, a dead session must be closed, no call may wait for ever |
| Wire codecs (`internal/wire`, `pktline`) | position in a packet stream | decode advertisement, ls-refs, object-info; encode requests | A stream that ends early must not pass for a complete answer |
| Server (`server/`) | request being read | advertise, command loop, ls-refs, object-info | A client may send anything and hang up at any packet |
| `file://` (`transport/file`) | two pipes, a goroutine, the store, a context | Open, Command, Close | Teardown against a goroutine that may be blocked in either pipe; the store must outlive it; the cause of a failure must not be lost behind the pipe error it provokes |
| HTTP (`transport/http`) | probe body, in-flight bodies, shared redirector | open, Command, Close | Concurrent commands, Close draining bodies others read, redirects, one authenticated retry, a body to dispose of on every path |
| `git://` | one TCP connection | Open, Command, Close | A peer that falls silent; the context ending at any moment |
| `ssh://` | agent, TCP connection, client, session, three goroutines | Open, Command, Close | A watchdog that closes the connection under the handshake, possibly when it has just succeeded; six ways out of Open, each of which has to give everything back; Close waiting for a goroutine |
| Dumb HTTP (`internal/dumbhttp`) | position in `info/refs` | read | Lines that are skipped, refused or too long for a packet; the result must parse as an advertisement |
| Ref store (`objstore/loose_refs.go` ...) | a snapshot of refs and HEAD | open, list, look up | Many reads of a directory tree that Git may be changing; peel hints; symbolic refs in chains and cycles |
| Object store (`objstore/store.go` ...) | handles on packs and indexes, caches, alternates | Open, ObjectInfo, Peel, Close | Recursive opening over alternates with cleanup on every failure; delta chains; caches filled by several goroutines |
| reftable stack (`internal/reftable/stack.go`) | open tables, their merge | OpenStack, FindRef, Close | Git compacting the stack between the reading of its list and the opening of its tables |
| Format readers (`internal/objfmt`, `internal/reftable`) | mapped files | walks and lookups | Prefix compression across restarts, block alignment, fan-out and binary search, large offsets, integers at the width of a word, tables that contradict each other |
| Conversion and helpers (`convert.go`, `helpers.go`) | none | refs as the caller sees them, DefaultBranch, one-shot calls | The same answer over both protocol versions; a session closed on every path; an absent repository told from a failure |

The client calls a transport's `Command` with a function that writes the request
and gets a packet reader back. For `file://` the packets go through `io.Pipe`s
to the goroutine that runs `server.Serve`, which reads the store; for HTTP a
command is a POST and its response body is tracked by the connection until it is
read to its end. A decode error makes the session close its connection
(`markDead`), whatever other goroutines are doing on it.

## Modules

| Module | Models | Extends |
|---|---|---|
| `FilePipes` | `io.Pipe` and the Dial context (external, from how `transport/file` uses them) | |
| `ServerLoop` | `server.Serve`: advertisement, command loop, dispatch, arguments, responses, by packet | `FilePipes` |
| `ClientSession` | `Session` on a stream: Dial, Refs, ObjectInfo, drain, markDead, Close | `ServerLoop` |
| `FileSession` | the composition: pipes, goroutine, caller, Close step by step | `ClientSession` |
| `AbstractSession` | what a session promises its caller, without streams, goroutines or Close | |
| `FileSessionRefinement` | the mapping under which `FileSession` implements `AbstractSession` | `FileSession` |
| `ServerLoopProofs` | lemmas about the server goroutine, whoever its client is | `ServerLoop` |
| `FileSessionProofs` | theorems about `FileSession`: types and teardown, what the streams carry, what errors are reported; the proof of the refinement | `FileSession`, `FileSessionRefinement`, `ServerLoopProofs` |
| `ServerAnyClient` | the server against a peer that sends any packet and hangs up anywhere | `ServerLoop` |
| `ServerAnyClientProofs` | theorems about it | `ServerAnyClient`, `ServerLoopProofs` |
| `HttpSession` | several goroutines on one HTTP session: commands, tracked bodies, markDead, Close | |
| `HttpSessionProofs` | theorems about it | `HttpSession` |
| `HttpProbe` | the HTTP negotiation: probe, retry, redirects, status classification, commands in sequence | |
| `StreamConn` | what the transports over one stream share | |
| `GitConn`, `SshConn`, `FileConn` | `git://` and `ssh://`, and `file://` as Dial sees it | `StreamConn` |
| `Dial` | Dial and the one-shot helpers over the four transports | `HttpProbe`, `GitConn`, `SshConn`, `FileConn` |
| `DialProofs` | theorems about it and `HttpProbe` | `Dial` |
| `ReftableStack` | a stack of tables: list, opening, merge, close, while Git adds and compacts | |
| `RefStore` | opening the files and the reftable ref backends while Git acts | `ReftableStack` |
| `Discovery` | what `RefStore` holds, through the v0 advertisement, through v2 ls-refs and through `info/refs`, to the caller's refs | `RefStore` |
| `DiscoveryProofs` | theorems about `RefStore` and `Discovery` | `Discovery` |
| `ObjectStore` | opening a store with its alternates, ObjectInfo from several goroutines, Close | |
| `ObjectStoreProofs` | theorems about it | `ObjectStore` |
| `SortedNumbers` | a set of numbers in order, the items of a sequence at some places | |
| `RefTable` | one reftable: the walk over its records, the lookup of a name | `SortedNumbers` |
| `OidLookup` | pack indexes of both versions and the multi-pack index: acceptance, lookup, entry extents | `SortedNumbers` |
| `Varint` | the four variable-length integers, byte by byte | |
| `TableLookup` | a life of one of the last three | `RefTable`, `OidLookup`, `Varint` |
| `TableLookupProofs` | theorems about the readers of tables, indexes and integers | `TableLookup` |

`MC*` modules give the constants values; each `.cfg` is one run. Operators
marked `Mutant:` are faulty variants of the definition that follows them: in
their place the property named beside them in `PROJECT.json` fails, which shows
that it depends on that definition.

### How they correspond to the code

* **Packets.** A packet is a record of its kind, the call it belongs to and its
  number in the response. The four-digit length, hex and attribute syntax are
  left out. A pipe transfer is one step of both sides, as `io.Pipe` has no
  buffer; a pipe that is closed between a packet's length and its payload gives
  a torn read.
* **`FileSession`.** `cpc` is where the client is, `spc` where the goroutine is,
  `kpc` how far `Conn.Close` has come. Every statement of Close that another
  goroutine can notice is an action (`CloseCancels`, `CloseClientReader`, ...,
  `CloseWaits`, `CloseStore`). `AsyncClose` lets a second goroutine close;
  `Disciplined` restricts the caller to closing the session after a call that
  failed without killing it, the case discussed below.
* **`HttpSession`.** Bodies are numbered; each has the packets still in it, and
  whether Close has taken some. `inflight` is the tracked set, `snap` the map
  Close has taken, `deadMu` the mutex.
* **`HttpProbe`.** `Progress` is one operation's control flow: `client.Do` with
  the redirect hook, then the switch over statuses. `Body` names the response an
  operation may hold. What a request carries from one hop to the next is
  abstracted to whether credentials were resolved for the operation.
* **`Dial`.** `dpc` is where the helper is, `opc` (for HTTP, `pc`) where the
  connection is. `DialLocal` are the code's own steps, `DialPeer` those that need
  the other side, `DialFree` those the caller and its context choose. For SSH the
  agent's connection, the TCP connection, client and session are variables of
  their own, as are the watchdog, the goroutine in `session.Wait` and the one that
  discards stderr; the handshake and the agent are peers that answer, refuse or
  stay silent. When the context has ended and the handshake is done, the
  watchdog's `select` may take either branch.
* **`RefStore`.** One action per file or directory read (`ReadPackedRefs`, the
  walk, HEAD, each hop), between which Git may write, delete or pack a ref or
  remove an empty directory.
* **`ReftableStack`.** `tables.list` is read in one step and each table opened in
  another; between them Git may add a table, replace tables by their compaction
  and unlink those it replaced.
* **`Discovery`.** After the store is open: the lines of the v0 advertisement,
  its parse, the lines of ls-refs for every request, their parse, and the
  conversion and `DefaultBranch`.
* **`ObjectStore`.** `stack` holds the `openWithSeen` calls in progress, `chain`
  the `seen` map, `held` every open handle. The disk is a value chosen at the
  start: alternates, loose objects, packs with their modification times, a
  multi-pack-index, damaged entries. ObjectInfo's recursion over alternates is
  the list of stores still to be asked. Paths and configuration files appear as
  the repository a path leads to and whether the configuration can be used.
* **`RefTable`, `OidLookup`, `Varint`.** The file is a value Git has written, or,
  for indexes, one that is damaged afterwards in any one field or cut short
  anywhere; sizes are small (three value bits for a byte, words of seven) but
  every rule of the format is there: restarts, shared prefixes, padding, the
  unpadded last block, one and two levels of index; fan-out, both offset tables,
  chunks; the different overflow checks of the four decoders. The chunk table of
  a multi-pack index is read as it stands in the file, each start as the
  unsigned word there and then as the signed number the code makes of it
  (`AsInt64`). Where a damaged count displaces the tables behind it, a read gives
  any value; where a start displaces the list of pack names, anything its chunk
  has room for can be taken for names.

## Runs

| Run | Instance | Shows |
|---|---|---|
| `file_session` | both versions, 2 lines, 2 calls, 2 arguments, caller closes itself | `TypeOK`. `RefsComplete`: a call gets its own, whole response. `StreamDrained`: nothing is left for the next call. `CloseReportsFaultsOnly`: Close does not report its own teardown. `CauseReported`: the goroutine's error wins over the closed pipe. `KeepsPromise`: the session implements `AbstractSession` |
| `file_async_close` | 2 calls, 1 line, any caller, Close from another goroutine | `StoreOutlivesServer`, `DeadIsClosed`; `CallsReturn`: a call comes back, unless an earlier one was cut short by an argument that does not fit a packet and nobody closes; `CloseEnds` |
| `server_any_client` | 2 requests, any packet sequence | `AnswersFramed`, `RefusalIsTold`, `HangUpEndsServer` |
| `http_session` | 2 goroutines, 2 calls, 1 line | `ErrorMeansClosed`; `OpenBodiesTracked`: an open body is known, and whatever was tracked when Close took its snapshot is closed when Close is over; `OkMeansComplete`; `CallsReturn` |
| `http_independent` (violation) | as above | `ReadersIndependent` fails: Close takes packets out of another call's response |
| `dial` | four schemes, every helper, 2 commands; redirect limits none, default (2) and 1, every policy, with and without a resolver | `NothingLeaks`, `RequestsBounded`, `ExistsTruthful`; `FailureExplained`; `CancelUnblocks`, `DialEnds` |
| `ref_store` | 2 refs, a commit and a tag, 2 steps of Git, both backends | `ListsRepository`, `NoTableLeft`, `PeelHintsTrue`, `HeadMatchesList`, `OpeningEnds` |
| `ref_store_half_listed` (violation) | Git may remove an empty directory | `NotHalfListed` fails: the walk ends early without an error |
| `discovery` | 2 refs, tags of tags, both versions, every ls-refs request, `info/refs` with comments, malformed lines and lines around the packet limit | `ListExact`, `PeelsTrue`, `VersionsAgree` |
| `object_store` | every graph of alternates over 3 repositories (2 entries for the root, 1 for the others) with one failed read; every combination of 3 objects in 2 packs with deltas, damage and an alternate; chains of 3, 2 goroutines, 2 calls | `OpenExact`, `HandlesAccounted`; `MissingExact`, `AnswersTrue`; `CallsEnd` |
| `object_store_worktree` (violation) | an alternate may name the working tree of the repository | `NoReentry` fails: the cycle check compares paths before they are resolved |
| `table_lookup` | every table of up to 4 names, cut into blocks in every way, 7 names looked up; every index of up to 3 objects, whole, damaged in a field or cut short; every integer of a word's width | `TableExact`, `LookupExact`, `ReadsInside`, `VarintExact` |

**Why the bounds are enough.** Two calls are the least for one call's leftovers
to reach another; two lines the least for a response to be cut in the middle;
two goroutines the least for every race in the code, which has no state for more
than two parties. Three repositories give cycles of length one to three,
diamonds and a repository borrowed twice. Three objects with a chain bound of
three give chains below, at and beyond it and bases that name each other. Two
steps of Git let it change a ref and, between two reads of the opening, pack or
remove it again, or add
a table and compact the stack. Four names, of which one is a prefix of another,
give blocks with one restart and with several, and an index of two levels over
two blocks; the block sizes give padding, none, and a footer that reaches over
a block boundary. Words of seven bits with groups of three end in the middle of
a group, as 64 bits with groups of seven do. A damaged field of an index holds
one of `FieldValues`, of four bytes and less, or of `WordValues`, of eight: zero,
numbers around the counts and sizes of the file, and words at and on both sides of
the sign bit, which stand for negative starts that are near and far. The default redirect limit is 2 instead of 10; only its comparison with the number
of requests matters.

**Fairness.** Weak fairness of each goroutine's own steps: the Go scheduler runs
what can run. Nothing obliges a caller to make a call, to go on iterating or to
close, the context to end, or a store to fail. In `HttpSession` it is assumed
that the network answers or fails in the end, which is what a context deadline
or a TCP timeout provides; without it neither a POST nor a drain has to return.
`Dial` assumes nothing of the sort: its specification is fair to the code's own
steps only. `CancelUnblocks` then says that ending the context is enough, and
`DialEnds` has the fairness of the peer as its hypothesis. In
`FileSession` a pipe transfer is fair because both of its ends are then waiting
in it.

**Deadlock** is checked except in `file_async_close` and the HTTP session runs,
where the model really may stop: all calls made, a Dial that failed, or the call
that waits for ever.

## The refinement

`AbstractSession` has seven variables: the phase, the number of the call, the
listing kept from Dial, the response to the current call once the server has
decided on it, what the caller has been given of it, how the last call ended,
and whether the session is dead. A response is handed out in order and a call
ends `"ok"` only with all of it; an error before the response leaves the session
usable, an error within it ends the session. `FileSessionRefinement` maps to it
what the caller of a `file://` session can tell: time inside `Conn.Close`
belongs to the state Close returns to, and the response is what the server is
writing, from its first packet on. `whole` is computed from the call and the
repository, not from the packets, so a packet that goes astray in the pipes
breaks the mapping. The abstract fairness is none: that calls return is
`CallsReturn`.

## Proofs

The theorems hold for every value of the constants that the named assumptions of
the modules allow: any number of calls, lines, arguments, goroutines, commands,
refs, tables and steps of Git. Each is an induction over steps. The invariants
were first checked by TLC on the instances of the runs (but for `Standing`,
`Covered` and `Resolving` of `CallsInv`), then proved to hold initially and to be
kept by every action.

**`FileSessionProofs`**. The first three are for any caller, with and without a
concurrent Close.

* `TypeCorrect`. The lemmas before it, most of them in `ServerLoopProofs`, show
  that each sequence the components build (advertisements, responses, request
  frames) has the type of the variable it is stored in, then that each
  component's steps keep its types.
* `StoreOutlivesServerHolds`, `DeadIsClosedHolds`. Neither is inductive.
  `TeardownInv` adds how far Close has come: the store is open until Close's last
  step, from the step after `<-c.done` on the goroutine is done, the goroutine
  once done takes no further step (`DoneIsFinal`), and a client whose session is
  dead is inside Close or past it.

* `CauseReportedHolds` (an action property), for any caller. `PipeInv` says who
  has closed which end of which pipe with which error, in terms of how far the
  goroutine and Close have come.
* `ConversationInStep`, and from it `RefsCompleteHolds`, `StreamDrainedHolds` and
  `CloseReportsFaultsOnlyHolds`, under the hypotheses `Disciplined` and
  `~AsyncClose` of the run `file_session`: without them the properties are false,
  because a second goroutine's Close cuts a response short and an undisciplined
  caller writes its next request into the middle of the last. Between calls a
  client has no memory of the stream, so each of these needs to know where the
  server is while the client is anywhere. `StreamInv` says so: `InStep`, that what
  the client has read and what the server has still to write make one response,
  and that the server rests when the client is idle; `Parked`, that the server is
  inside a request only while the caller writes it, or gave it up at an argument
  that is too large; `CallInv`, which calls a Session makes and where the caller
  can be in each; `Closer`, that only the caller itself closes; `Faults`, what
  Serve can have returned and why.

The refinement, in the third part of `FileSessionProofs`, is under the same two
hypotheses.

* `ContentInvariant`. `StreamInv` counts packets; the promise speaks of what they
  say. `ContentInv` says it: the arguments the server has read are the first ones
  of the call being written (`ArgsRead`); the lines Dial has and those left are
  one listing (`ListingLeft`); what `DecodeObjectInfo` has collected is what is to
  be told of the first *k* objects of the call, and what is left are the replies
  about the others, down to the packet (`InfoLeft`); and there is no response
  before the request is complete (`NothingSaid`).
* `KeepsPromiseHolds`: the first states of a session are first states of the
  promise (`PromiseInit`), and every step is a step of the promise or none
  (`PromiseNext`), with one lemma for each kind of step (`QuietMaps` for the
  goroutine and Conn.Close, `CallMaps`, `RequestMaps`, `RefMaps`, `DrainMaps`,
  `InfoMaps`, ...). The step at which the server's decision on a response becomes
  visible is the one that takes the last packet of the request. That an
  `ObjectInfo` that ends well has been told exactly `Told` of its call rests on the
  recursive function behind it existing (`ToldExists`, by induction on the number
  of arguments).

**`ServerAnyClientProofs`**: `AnswersFramedHolds`, `RefusalIsToldHolds`. What has
been sent of an answer and what is left of it make a whole with one flush, at its
end (`FrameInv`); for a refusal the ERR packet is the one before it
(`RefusalAhead`).

**`HttpSessionProofs`**, for any number of goroutines, calls and lines.

* `TypeCorrect`, with `CallsNumbered`: no two goroutines share a call, hence
  none a body.
* `ErrorMeansClosedHolds` rests on the mutex of `markDead` being held until
  `Conn.Close` has returned; `OpenBodiesTrackedHolds` on a body being given up by
  one party only when the next has it, and on Close being over only when its
  snapshot is empty (a body tracked after the snapshot is known, not released);
  `OkMeansCompleteHolds` on the lines a
  goroutine has read and the lines left in its body being one response
  (`ReadInOrder`), as long as Close has not read from it. That exception is the
  violation run `http_independent`.

**`DialProofs`**, for every redirect limit, policy, scheme and helper.

* `NothingLeaksHolds` needs, for every transport, what is open in every state of
  its opening (`DialInv`). For HTTP, bodies are numbered by the operation they
  answer, and a request in progress is newer than everything the connection
  tracks (`BodiesNumbered`); without this, closing the body in hand might close
  another.
* `RequestsBoundedHolds`, `ExistsTruthfulHolds`, and `FailureExplainedHolds`, an
  action property.

**`DiscoveryProofs`**, first part: `RefStore`, for any refs, directories, objects
and steps of Git.

* `ListsRepositoryHolds`. Files backend: `WalkInv` says of a ref Git has not
  touched that the walk has still to come to it, or that its entry is the loose
  one; and that without a loose id the entry is the packed one, which Git changes
  only where a loose id hides it. Reftable backend: the listed tables hold the
  refs (`TablesInv`), and there is a run of tables, those listed when
  `tables.list` was read, of which the open ones are the beginning (`StackInv`);
  a name in the list may lose its file but never gets another one, so the run
  cannot change. A compaction keeps what a run of tables says (`CompactedRun`),
  and forgetting deletions does at the bottom of the stack only.
* `NoTableLeftHolds`, `PeelHintsTrueHolds`, `HeadMatchesListHolds`.

Second part: `Discovery`, for any repository, any request and any depth of
peeling.

* `DiscoveryInvariant` establishes `DiscoveryInv`. What a session is to know is a
  function of the opened store: the names that are listed, their ids, and what
  each may be said to peel to (`ListedKeys`, `IdOf`, `PeelFor`). The refs a v0
  session has taken, the lines on the wire and the lines the adapter has still to
  turn into packets make one listing of that (`Parsing`), whatever line is next:
  a ref, the peeled line behind it, the placeholder, a comment. Over v2 the refs
  yielded and the lines left are one (`Listing`). The store itself is at rest:
  `RefStore`'s invariant holds of it, nothing changes the repository once it is
  open, and HEAD is one of the shapes `resolveHead` makes (`StoreAtRest`).
* `ListExactHolds`: a listing with nothing left is the repository, and the only
  line that is refused is one that is none or that is over the packet limit.
* `PeelsTrueHolds` rests on `PeelSound`: a chain of tags that is followed over some
  objects only, or to some depth only, gives no answer or the answer of the whole
  chain (`ChainsAgree`, `ChainGrows`), and the whole chain stops within as many
  links as there are objects (`ChainStops`).
* `VersionsAgreeHolds`: both protocols' answers are listings of the same names, and
  two such sequences have the same name at every position (`SameNames`); what
  `refsCached` picks from the cached refs is again a listing (`PickedListed`); and
  at one position the two entries differ only in what v2 alone can say
  (`EntriesAgree`). `DefaultBranchAgrees` is the same for HEAD's target.

**`ObjectStoreProofs`**, for any finite graph of alternates, any packs and any
number of goroutines; the graph may have paths that lead to a repository the
cycle check does not recognise.

* `OpeningInvariant` establishes `OpenInv`. Openings are numbered as they begin,
  so an alternate has a greater number than its borrower (`Numbering`,
  `Adopted`), and every store but the first is an alternate (`NoOrphan`); by
  induction on the numbers every store is below the root, or below a call in
  progress. The calls in progress are a path in the graph (`Descent`), and a
  path that an alternates file lists is still to be opened, being opened, or
  open (`AlternatesRead`, `StoresComplete`).
* `OpenExactHolds`. The open stores form a closed set around the root, so they are
  over exactly the reachable repositories (`OpenedAll`). Were one reachable from
  itself, the store over it with the greatest number would have a store over the
  same repository below it, with a greater number still. In the other direction
  a marked path is one whose repository is on the path of calls (`ChainInv`), so
  the error it causes is a cycle (`CycleFound`).
* `HandlesAccountedHolds`. Until the first error the open handles are exactly those
  of the stores and calls (`HeldInv`), and from then on every one belongs to the
  tree of a call that has still to return (`Owned`).
* `MissingExactHolds`, `AnswersTrueHolds`, from `CallsInv`. Every store that has the
  object is below one that is still to be asked (`Unasked`), so a search that
  runs out has asked all. A walk stands on an entry of the right type and knows
  the object's size from the first header (`Standing`); with checksums verified
  and no damaged base it stands on no damage (`Covered`); without damage the
  headers left suffice for the chain left (`Resolving`), which at
  `maxChainDepth` is the off-by-one that matters. The cache holds nothing but
  what a lookup would find (`CacheInv`), so it makes no difference which of two
  goroutines filled it.

**`TableLookupProofs`**, for pack indexes of both versions and multi-pack indexes
over any objects, with any offsets and any number of ids to a prefix; for the
four integers with any width of a word and of a byte's group of bits; and for a
reftable with any names, sizes and cuts.

* `ReadsInsideHolds`, for damage of any value to any one field, chunk starts
  included, and for a file cut at any place. `SafeInv` says that the file is `Near`
  one that was written: one field cannot spoil both the extent of the chunk of ids
  and the count in the fan-out, so when `parseFanout` compares the two, an accepted
  count is the number of ids; `parseHeader` has compared it with the file's size,
  which is what the other formats need (`Accepted`). A chunk stands where it was
  written or is named twice, which is refused (`Held`, `ChunkPlace`); the starts
  that are accepted ascend, and the first one, of the names, is not negative when
  the file has been opened: a negative one ends in a panic and not in a lookup. It
  remains that the search stays below the count.
* `LookupExactHolds`, from `ExactInv`. An id stands in the table at its rank, the
  number of smaller ids (`Listed`, `AscendingListed`), and each table of the file
  is a count of ranks: the fan-out (`WrittenBucket`: the bucket brackets the rank of an
  id that is there), the large offsets (`WrittenOffsets`), the chunks
  (`WrittenChunks`). So a file as it was written is accepted (`WrittenAccepted`), the
  search never loses the rank, and what is read there is the object's pack and
  offset. For the CRC, `OffsetAfterNext` says that one pass over an unordered table
  finds the least offset behind the entry, so no other entry begins within the
  bytes the check is taken over.
* `VarintExactHolds`, from `VarintInv`. A size read from the low end has fewer bits
  than the shift says (`LowerRead`), so a byte ored in carries nothing over
  (`VarintPack`, `VarintDelta`). A distance or a reftable integer is read from the
  high end, and lies between two powers that the number of bytes used gives
  (`UpperRead`, `VarintUpper`). So what is returned is what the bytes say, was
  written in no more bytes than were read, and is refused only where every number
  that begins like this overflows (`RefusedOnly`). The SMT solver knows
  nothing of powers with variable exponents. What the proof needs of them
  (`PowerNext`, `PowerSum`, `PowerGrows`) it takes from the library's theorem that
  a set with n members has 2^n subsets (`PowerSubsets`).
* `TableExactHolds`, from `TableInv`, for any names, any block size or none, any cut of
  the records into blocks, any spacing of the restarts, and no index, one level or
  two. Three facts carry it. `bytes.Compare` through the common prefix is a total
  order (`BeforeOrder`), in which `SortedEntries` sorts. A block that was written
  from consecutive items `Holds` them: a prefix taken from the key before, which is
  what the reader has in `keyBuf.prev`, restores the key (`WriteBlockHolds`), from
  whichever restart the reader begins, and `seekRestart` passes over no key at or
  behind the name. And the file is `Filed` (`TableFiled`): ref blocks over
  consecutive entries, at positions that `BlockAt` takes back, then index blocks
  with the last keys of the blocks below. A walk has yielded the entries before
  its place, no more and no less, and runs out at the footer or behind it, where it
  fails only if `FooterMisread` (`TableWalkBlock`). A lookup keeps the name in
  sight (`Aimed`, `AimNarrows`): of the blocks below the one it is at, those it
  leaves on the left end before the name, and those on the right begin behind it.
  In the leaf, the records not yet read are then all that can have the name
  (`LeftIn`, `TableScanLeaf`). The depth never reaches `MaxDepth`, and a step down
  never stays where it is, so the two checks of `seekIndexed` refuse no table.

*Induction over data.* What `Latest` makes of a run of tables and `PeeledVia` of a
chain of tags, `Closure` of a graph and `Resolves` of a pack are recursive
functions, and so are `InOrder`, which lays out a listing, `Picked`, which selects
from one, the search of `OffsetAfter`, and `KeysFrom`, which decodes a block's
keys. That they exist and satisfy their equations, and what they compute, is
proved by induction on numbers, in the form `SetInduction` of a set that has 0 and
with every number the next; it follows from `LeastNumber`, which the library has
in the form of well-founded relations. `LatestRecord` then says without recursion
what `Latest` computes: the last record a key has; `ClosureFacts`, that `Closure`
is the least closed set around its roots: each round adds a member or none is
missing.

*Assumptions.* Those declared with the constants. They say that numbers are
numbers, that sets of names and marks are disjoint (`None` is no object id, no
entry and no outcome of a request), that there are finitely many objects, that
an index of two levels is within `MaxDepth` (`MaxDepthAssumption`; the code's limit is
64), and that what Git has written is made of ids, names and marks; of packs, that the
offset of a delta's base leads to an entry and that a delta is of its base's type
(`DeltasAssumption`), as Git writes them.

*Model-checked only.* The liveness properties (`CallsReturn`, `CloseEnds`,
`HangUpEndsServer`, `CancelUnblocks`, `DialEnds`, `OpeningEnds`, `CallsEnd`), which
are out of the prover's reach. Every invariant that a run checks is a theorem, but
for those of a run whose violation is a finding.

## Where code and documentation part

The three violation runs show:

1. `transport/http/conn.go:164`: Close drains bodies other goroutines are
   reading, so a call can end without error and without all of its refs.
2. `objstore/loose_refs.go:174`: a directory that vanishes during the walk ends
   it without an error.
3. `objstore/alternates.go:86`: an alternates entry `<worktree>/objects` of the
   repository itself is not recognised as a cycle and is opened again without end.

Met while modelling, without a run of their own:

* `objfmt/midx.go:247`: the starts of the chunks are compared with each other and
  with the end of the file, the first one with nothing below it. A start is a
  uint64 turned into an int64 (midx.go:220); with its sign bit set, and aligned, the
  first one is accepted and `parsePackNames` slices at a negative index
  (midx.go:281), where `fuzz_test.go:98` says of `OpenMidx` that its contract is
  "no panic". It is the state `ipc = "panicked"` of `OidLookup`.
* `transport/file/command.go:42-45`: after any Command error the goroutine is said
  to be gone or about to be. An argument over the packet limit (line 54) leaves it
  parked in the middle of a request, and the session is not marked dead
  (`session.go:238-240`, 390-392). A second command is then read as arguments of the
  first and waits for ever, until somebody closes. `CallsReturn` excepts this
  case, by `CutShort`; without the exception it fails with two calls. The
  `Disciplined` caller closes instead.
* `transport/http/conn.go:121-123`, `command.go:46-48`: Close is said to recover
  every abandoned reader. A POST that returns after Close took its snapshot
  (conn.go:158) is tracked in a new map that nobody drains, as the teardown runs
  once. In `HttpSession` it takes two goroutines: one's decode error closes the
  connection, the other's response comes behind the snapshot and is abandoned.
* `transport/http/tracked_body.go:11`: a response read up to its flush, but not
  to the end of the stream, stays tracked until Close.
* `transport/http/redirect.go:86-90` and 237-239: `WithMaxRedirects(0)` is said to
  disable redirects. `resolveMaxRedirects` gives zero the default of 10, as
  `options.go:72-74` says; only a negative number disables them.
* `objstore/loose_refs.go:29-31`: loose refs take precedence over packed ones;
  a loose symbolic ref is skipped and the packed entry it shadows is listed.
* `objstore/ref_backend.go:59-60`: HEAD's id is populated unless it is unborn;
  the reftable backend follows one hop and leaves it zero when the target is
  symbolic (`reftable_backend.go:130`). `ref_backend.go:71-77`: symbolic refs
  are dereferenced before they are listed; both backends skip them.
* `helpers.go:121-125`: DefaultBranch is said to fall back on the symref
  capability for v2, which `convert.go:122` keeps for the other versions only.
* `objstore/object_info.go:74`: depth is capped at `maxChainDepth` hops; the
  code reads that many headers, one hop fewer. Lines 81-82: every object visited
  has its checksum verified; `walkPackChain` says, and does, the head only.
* `transport/http/redirect.go:32-35`: the redirector is discarded after the
  probe; it lives on in the connection, shared by its commands.
* `internal/reftable/reader.go:221-222`: the walk is said to stop at the first
  block that is no ref block, the footer included; `iterAllRefs` and `seekLinear`
  step to the next multiple of the block size, which can lie inside the footer,
  and take the byte there for a block's type. If it is `r` the walk fails.
  `TableExact` excepts exactly that case.
* `Reader.FindRef` on a table without records fails (`seek.go:353`), while the
  walk over it succeeds; the store uses the stack's merged view and never meets it.
* `transport/ssh/open.go:75`: cancellation is said no longer to apply once
  the handshake has committed; with both channels ready the watchdog's `select`
  may still close the connection, as the comment at line 124 allows.
* `transport/ssh/auth.go:87-89`: a wedged agent is said not to block the caller;
  only the connection to it is bounded, a request to it is not. `CancelUnblocks`
  excepts an agent that does not answer.
* Dial over `git://` and `ssh://` does not watch its context while it reads the
  advertisement, and `file://` does not look at it in Open. `ssh.Conn.Close` waits
  for the goroutine in `session.Wait`, not for the one that discards stderr.
* `objfmt/pack_delta.go:99`: the last byte of a delta's size can carry bits that
  do not fit the word and are dropped. `VarintExact` leaves those sizes out.
* `objfmt/midx_find.go`: without a LOFF chunk an offset with the top bit set is a
  miss, which the tests expect.

## Not modelled

* The syntax of URLs, config files, ref names, quoted paths, netrc files and
  capability lists: parsers of text without state. Their outcomes are inputs.
* Loose object headers, zlib streams, trailer checksums and the headers of pack
  and reftable files: they accept or refuse a file, which appears as a read
  that may fail.
* The choice of refs by prefix that `refsCached` makes over v0 is in `Discovery`
  (`Picked`); the caller of `ClientSession` asks a v0 session for all of them. A
  missing `refs/` directory is not told from an empty one by `RefStore`: both give
  no loose refs and no error.
* The peel memo, which is filled like the base cache of `ObjectStore`; the
  redirector shared by the commands of an HTTP connection, whose race can spoil
  only the text of an error.
* The transport registry, tracing, the test harnesses.

## Plan

1. *(done)* `FilePipes`, `ServerLoop`, `ClientSession`, `FileSession`, the type
   and teardown theorems; `ServerAnyClient`; `HttpSession`, `HttpProbe`;
   `RefStore`, `Discovery`; `ObjectStore`.
2. *(done)* `git://`, `ssh://` and Dial with its helpers; the dumb-HTTP adapter in
   `Discovery`; the reftable stack, the table reader, the index readers and the
   integers; `AbstractSession` and its refinement by `FileSession`.
3. *(done)* The theorems listed under *Proofs* about `FileSession` and its
   refinement of `AbstractSession`, `ServerAnyClient`, `HttpSession`, `Dial`,
   `RefStore`, `Discovery`, `ObjectStore`, `RefTable`, `OidLookup` and `Varint`.
