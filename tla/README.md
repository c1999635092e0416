# OZoneStore in TLA+

OZoneStore is a small document store: a write service appends documents to
`value.dat` and a line `key, offset, length` for each to `key.dat`; a read
service loads a sorted table of these lines and answers `get` and `gets`; a
traversal service hands out the documents in file order. This directory models
the store in TLA+, checks the models with TLC and proves what matters most with
TLAPS. Paths below are those of the repository, and `ozread.c:169` is its line.

## 1. Inventory

| Component | State | Operations | What makes it correct |
|---|---|---|---|
| ozwrite (`src/ozcore/ozwrite.c`) | two stdio append streams, `key.dat`, `value.dat` | open, put, close | a record names bytes that are its document's, now and later |
| write service (`src/server/OZWriteService_server.skeleton.cc`) | `_id`, `_key`, `ow` under the mutex `_lock` | constructor, `getmax`, `put`, `puts`, destructor | keys are unique and grow, also over restarts; a put that returned is stored; the mutex is given back |
| ozread (`src/ozcore/ozread.c`) | table of records, one `FILE` of `value.dat` | open, get, gets, close | a key that is there is found; a value is its own key's |
| read service (`src/server/OZReadService_server.skeleton.cc`) | one `OZRead` for all workers, no mutex | `get`, `gets` | answers in the order of the request; a failure is told as what it is |
| OZoneSort (`src/ozsort`) | chunk buffer, split files, merge file | split, merge | sorted, each key once (largest offset), a line count that is right |
| oztrav (`src/ozcore/oztrav.c`) | records in file order, `FILE`, cursor with two buffers | open, next, close | buffers fit; nothing is skipped |
| traversal service (`src/server/OZTravService_server.skeleton.cc`) | one cursor for all clients under `_lock` | `next_kv` | every client sees every document, once, in order, and then the end |
| Thrift servers (`main`, `server_threadpool`) | 8 worker threads, one for each connection; signal handlers | serve, stop | the stop comes to an end, and the handler goes after the last call has ended |
| generated RPC code (`src/server/OZ*Service.cpp`, `ozstore_types.cpp`) | streams of bytes in both directions | `send_`, `recv_`, `process_` of each method | a caller is told what its own call came to |
| Python client (`src/client/py`) | a connection with a write buffer, in the traversal a cursor | put, puts, get, gets, next_kv, close | no call is made twice; a failed one does not spoil the next |

How they interact. A client calls a service over Thrift's `TThreadPoolServer`:
a worker thread runs the calls of one connection, so that handlers of different
connections run concurrently on the one handler object. The write service is
the only writer of the two files. The read service runs OZoneSort over
`key.dat` once, at its start, and never looks at the file again; the traversal
service reads `key.dat` in file order. The three services share nothing but
the files, and no lock is taken on these, though the headers speak of one
(`ozwrite.h:37`).

What is hard here:

- *Concurrency.* The write and the traversal service have a mutex; the read
  service has none around `fseeko` and `fread` on its one `FILE`.
- *Crashes.* `ozwrite_put` writes two files through two buffers. The process can
  die between any two stdio calls; a restart reads the next key back from
  `key.dat` (`getmax`).
- *Failing calls.* `ftello`, `fwrite`, `fprintf` are checked, `fflush` is not;
  a failed put may leave bytes, and always uses up a key; `puts` ignores all
  results; `next_kv` reports one failure of three.
- *Loading beside a writer.* The readers read `key.dat` at any moment of a put,
  the traversal service twice; what they find later in `value.dat` may not have
  been there then.
- *The wire.* A call that raises while its argument is encoded leaves bytes in
  the client's buffer; answers are matched to calls by their order; connections
  break; a stop waits for workers that wait for clients.
- *Boundaries.* `atoi` of a key, the NUL behind buffers, C strings in `gets`,
  binary search at the ends of the table.

The full list, each at its line and with the properties that would catch it
going wrong, is `hazards` in `PROJECT.json`.

## 2. Modules

| Module | Models | Checked with | Proved in |
|---|---|---|---|
| `OZLog` | the abstract promise: an append-only log of documents under growing keys | `write_faults`, as what `OZWrite` implements | `OZLogProofs` |
| `OZWrite` | write service over ozwrite, down to stdio's buffers and the files | `MCOZWrite` | `OZWriteProofs`, `OZLogProofs` |
| `OZWriteInv` | the inductive invariants of `OZWrite` | `write_crash`, `write_faults` | `OZWriteProofs`, `OZLogProofs` |
| `OZKeys` | keys as their ranks in `strcmp`'s order | with the next three | |
| `OZSearch` | `ozread_get_key` | `table` | `OZTableProofs` |
| `OZSort` | OZoneSort: `ozsort.c` and `main.c` | `table` | `OZTableProofs` |
| `OZTable` | `ozread_open_kf`: OZoneSort, then the table, then a search in it; composes `OZSort` and `OZSearch` | itself, `table.cfg` | `OZTableProofs` |
| `OZRead` | read service over ozread, on a loaded table | `MCOZRead` | `OZReadProofs` |
| `OZTrav` | traversal service over oztrav, with its clients | `MCOZTrav` | `OZTravProofs` |
| `OZStore` | the directory: `OZWrite` with a read and a traversal server that start and end beside it | `MCOZStore` | `OZStoreProofs` |
| `OZWire` | the structs on the wire, as C++ and Python write and read them | with `OZRpc` | `OZWireProofs` (lemmas) |
| `OZRpc` | clients, processors, thread pool and stop | `MCOZRpc` | `OZRpcProofs` |

### OZWrite

| State | Code |
|---|---|
| `keyfile`, `valfile` | what the kernel has of `key.dat` and `value.dat` |
| `keybuf`, `valbuf`, `valpos` | stdio's buffers of `_fpkey`, `_fpval`, and the position of `_fpval` |
| `id`, `key`, `lock` | `_id`, `_key`, `_lock` of the handler |
| `phase` | process down, opened (before `getmax`), serving |
| `pc`, `call`, `i`, `off`, `ret` | a worker's place in `put`/`puts`/`ozwrite_put`, and its locals |
| `acked` | history: the puts that returned without an exception, with the key used |

`put` is `puts` of one value whose code is looked at; the two share the actions
`Lock`, `MakeKey`, the steps of `ozwrite_put`, and `Unlock`. `ozwrite_put` is
one step for each stdio call that can fail or be overtaken: `PutValue` takes the
offset and gives the bytes to the buffer, `Spill` is the kernel write that
`fwrite` makes of a full block, `PutKey` the `fprintf`, `FlushKey` and
`FlushVal` the two flushes. `PutEmpty`, `TellFail`, `WriteFail` and `KeyFail`
are the returns 5, 4, 3 and 2. `Open`, `GetMax`, `Close` and `Crash` are the
process's life. `ftello` is modelled as glibc does it for an append stream: the
stream's own position when nothing is pending, and the file's end plus the
pending bytes otherwise.

`Faults` names the failures of a behaviour: `crash`, `fopen` (of `getmax`),
`ftello`, `fwrite`, `fprintf`, `fflush`. A property that needs a fault excluded
says so by the run's cfg, and the theorem by its assumption.

### OZSearch

The loop of `ozread_get_key`, a branch an action. A key is its rank in the order
of `strcmp`; the table is a function from `0..nrecs-1`, as in C.

### OZSort and OZTable

`SplitOne` is one turn of the loop of `ozsort_split`: the lines are read, `qsort`
leaves records of one key in any order (`Orders`), and the split is written.
`at` counts the `fscanf` calls, of which a cut last line takes one. The merge is
one step for each record taken (`Take`): `Live` are the splits the inner loop
looks at, `MinIdx` the one it stops at, `prev` the record held back. `MergeEnd`
writes it, and the record `"(null)"` if there is none. `PrintAll` and `PrintFail`
are `main`. `FopenFail` is any of the fopens of both halves, `TooManySplits`
the return 3. `Collide` is another sort that began in the same second and opens
one of our splits for writing; what it makes of the files beyond that (its own
lines in ours, an `unlink`) is not modelled, and the properties but
`SortTypeOK` and `LookupEnds` except such a behaviour.

`OZTable` runs the sort behind the pipe, fills the table from what it printed
(`Open`, `OpenFail`) and searches for a key. Where the count is larger than the
lines, the rest of the table is memory nobody wrote, and the model stops at
`"undefined"`.

### OZRead

`get` and `gets` of several worker threads. `pos` is the position of the shared
`FILE`; `Seek` and `Read` are two steps of a thread. `Lookup` stands for the
searches of a call and the sort of the cookies by offset (`qsort` leaves equal
offsets in any order). `Garbage` is the content of memory nobody wrote. `CString`
is what `str.assign(char*)` takes of a buffer. `fread` comes back with less than
the value at the end of the file (`ReadShort`) or because of an error
(`ReadError`, after any part of it); both end as `ReadFailed`: `get` returns 4,
`gets` makes the value empty. `disturbed` is a history variable: the thread was
between its own `fseeko` and `fread` while another moved the `FILE`, or its own
`fseeko` or `fread` failed.

The right answer (`Right`) is the document, for `get` and `gets` alike.
`AnswersRight` asks for it always, and three things break it: the race
(`read_race`), a failing `fseeko` or `fread`, and a NUL in a document that `gets`
answers (finding 6). `UndisturbedRight` says that there is no fourth: a call that
is not disturbed is answered rightly, but for a `gets` of a document with a NUL,
whose answer is always the bytes before it, and so never right.

### OZTrav

A client sends its cursor (`at`), the worker sets the one `cur` under `lock` and
runs `oztrav_next`: `Seek`, `ValueBuffer`, `ReadValue`, `KeyBuffer`, `CopyKey`,
each with its failure. The reply to a failure other than the end is the
`TravPair` as constructed, with the cursor 0 (`ReplyFailed`); the client takes
this empty pair for a document and goes on from 0, as `test_trav` does, where it
receives the earlier documents a second time. After a failed `realloc` the pointer is
NULL and the size is the old one; reading into it kills the process or fails,
as glibc and the kernel have it (`ReadNull`). `got` is what the client received
since it began, or began again at 0.

### OZStore

All of `OZWrite`, and beside it `reader` with its `table` and `trav` with its
`travrecs`. `ReadOpen` is `ozread_open` as of the moment OZoneSort saw the end
of `key.dat`; `TravCount` and `TravLoad` are the two passes of `oztrav_open_kf`,
between which the writer may append. `Get` and `NextKV` answer from `value.dat`
as it is then, and fail on a record whose bytes are not all there. `known`,
`travknown` and `told` are history: what had been acknowledged when a reader
loaded, and all pairs that were ever answered. Here the steps of a load and of
an answer are one; `OZTable`, `OZRead` and `OZTrav` have them one by one.

### OZWire and OZRpc

A stream is a sequence of tokens: message header, field header, value, stop.
Each struct is its list of fields, once as C++ has it and once as Python has it,
so that the two must fit. `ReadStruct` says how a struct is read from the head
of a stream: to its stop, or to where a message header stands in the place of a
field, a string, a list or an `i32`, and what the reader then does with the
header's bytes (`"closed"`, `"junk"`, `"deaf"`; the comment of `ReadTo` gives
the arithmetic).

| State | Code |
|---|---|
| `pc`, `wbuf`, `call`, `made` | a client in a stub, `__wbuf` of its `TBufferedTransport`, its last call and what came of it |
| `up`, `down`, `broken` | the two directions of the connection |
| `conn`, `job`, `deaf` | the connection at the server: in the kernel's backlog, queued for a worker, served, closed; the call its worker runs; a worker that waits for bytes that no one means to send |
| `serves`, `phase` | which service it is; serving, stopping, stopped, dead |
| `times`, `ran`, `raised`, `spoiled` | history: how often the handler ran for a call, how the last run ended, the calls that could not be encoded, the clients that spoiled their stream by one |

`Call` is a stub's `send_` with the flush, `CallRaises` one whose argument
cannot be encoded: not a string at all (`"wrong"`), a unicode string that the
buffer refuses after its length was written (`"unicode"`), or a list with an
element that is no string, of which the count and the elements before it were
written (`"element"`: the next message's header then stands where a string
should, and the connection ends). `ReceiveReply` and `LoseReply` are
`recv_`. `Receive` and `Respond` are a `process_` method around the handler,
which may return or throw what it can throw (`process_put` and the rest);
`Unknown` is `process_fn`'s UNKNOWN_METHOD. `Accept`, `Take`, `EndOfInput`,
`Swallow`, `Stop` and `Join` are `TThreadPoolServer` as `server_threadpool` uses
it; its source is not in the repository, so the first four are external.

## 3. Runs

| Run | Instance | Shows |
|---|---|---|
| `write_faults` | 1 server, 2 workers, 2 calls, batches of 2, 2 starts; `ftello`, `fwrite`, `fprintf` fail | `TypeOK`; records lie in `value.dat` in order, without overlap (`DocsInFileOrder`); no step changes what an earlier record finds (`DataNeverChanges`); `OZWrite` implements `OZLog` (`ImplementsLog`); the inductive `OrderInv` |
| `write_crash` | the same, with crashes and 3 starts, weak fairness | `KeysIncreasing`, `AckedStored`, the inductive `KeysInv` and `StoredInv`, and `LockReleased` |
| `write_torn` | crashes only | **violated**: `DataNeverChanges` |
| `write_flush` | failing `fflush` only | **violated**: `AckedStored` |
| `write_two` | 2 servers, no fault | **violated**: `UniqueKeys` |
| `table` | every `key.dat` of up to 5 lines of 2 keys and 2 offsets (0, where the first document is, and another), and every set of up to 8 keys in falling order; a cut line or none; splits of 2 lines, at most 4; fopens fail, a collision; the search for each of 8 keys | `SortedRight`, `LookupRight`, `SearchCorrect`, `LookupEnds`, `SortTypeOK`, the inductive `TableInv` |
| `store` | 1 write server, 1 worker, 3 puts, 2 starts, crashes and failing calls; 2 starts of each reader | `AckedServed`, `AckedTraversed`, `AnswersAgree`, the inductive `ReadersInv` |
| `read` | 2 threads, 2 calls, `gets` of up to 2 keys out of 4; `malloc`, `fseeko` and `fread` fail; a NUL in one document | `UndisturbedRight`, `PresenceRight`, `Answered`, `TypeOK`, the inductive `ReadInv` |
| `read_race` | the same without `fseeko` and `fread` failing, and without a NUL | **violated**: `AnswersRight` |
| `trav` | 2 clients, 3 documents, up to 2 failures | `GotInOrder`, `EndIsComplete`, `BuffersFit`, `TraversalEnds`, `TypeOK`, the inductive `TravInv` |
| `trav_torn` | the last value cut short, no other failure | **violated**: `TraversalEnds` |
| `rpc` | any of the 3 services, 1 worker; a Python client with 3 calls and a C++ client with 1; one fault: an odd call, a broken connection, or the server's death | `AtMostOnce`, `ResultsTrue`, `StopWaits`, `Answered`, `Stops`, `TypeOK`, the inductive `RpcInv` and `ResultsInv` |

Why the bounds are enough. What can go wrong on the write path goes wrong
between two calls, or between a call and a restart: two calls of two workers,
one of them a batch of two, have every order of one put before, inside (at the
mutex) and after another, and a third start lets a second restart see what a
crash after the first one left. The block of stdio's buffer is 2 bytes and
the values are empty, 1 and 3 bytes long, so that a value fits the buffer, does
not fit it, and is written in part by a failing `fwrite`. `IntMax` is out of
reach of the keys. In `read` the three documents of the
table are one that ends in the middle of the file and has a NUL, one behind it
(so that file order and request order differ), and one whose bytes are not all
there; a fourth key has no record; two threads suffice for one to come between
two steps of the other. In `trav` values and keys grow and shrink, so that the
buffers are allocated, kept and grown; two failures let one follow the other's
consequence.

In `table` the short files have the same key up to five times, in one split and
in three, with equal and with different offsets; the long ones fill as many
splits as there may be, one more, and tables of up to seven records, which have
every shape of interval that the halving has, and missing keys at the ends and
between; key 8 is not below `"~"`. A file of as many lines as the splits hold
is among them, so that the limit bites with and without an empty last split.
In `store` three puts over two starts of the writer let a crash leave a
record without its value and the next process fill it; two starts let a reader
have loaded before and after. In `rpc` two clients and one worker are enough
for one to wait for the other; three calls let a failed one spoil the next and
the one after show it. One fault is little, but each of them is followed by
everything the others then do; two did not finish. Deadlock is not checked in
`rpc`: the system stops where the clients have gone, are idle with all their
calls made, or wait behind a held worker.

Symmetry (of the workers of one server) is used in safety runs only.

### Fairness

`write_crash`, `read` and `trav` assume weak fairness of `Work(w)` for every
worker (with its client, in `OZTrav`): a thread inside a call keeps being
scheduled by the OS, and none of its steps waits for something but the mutex.
Clients are not assumed to call, nor servers to start. Strong fairness of the
mutex is not assumed, as `pthread_mutex` gives none: `LockReleased` says only
that a holder lets go, and a put may in principle starve. `TraversalEnds` holds
without it, because the other clients' traversals end too. `table` assumes that
the one process runs.

`rpc` assumes weak fairness of each connection's worker (`Serve`), of a client
that waits for an answer that is there (`Hear`), and of `serve()` when all workers
are idle (`Join`). Nothing makes a client leave or call again, and nothing in the
server wakes a worker that reads from an idle connection: an idle client keeps its
worker for ever, lets a ninth client wait, and keeps the server from stopping.
The two liveness properties say just that. A client `Holds` a worker if the worker
waits for bytes of it (`Reads`) that it does not mean to send: it makes no call, or
it spoiled its stream. `Answered`: a call that never comes back is one of a client
that itself holds the worker (which takes the next message for the rest of a half
written argument), or one in the queue while all workers are held for ever.
`Stops`: a stop never comes to its end if, and only if, some client holds a worker
for ever. The run reaches both sides of each: stops that end, stops that hang
behind an idle client, calls that wait behind one. Calls are bounded (`MaxCalls`),
so that a client in the run ends idle or gone; one that called for ever would keep
its worker, and the stop, as well. It may be that a worker never gets to write to
its peer, whose buffers are full; the model's streams are unbounded.

### Findings

1. `write_torn`: the record is flushed before the value. After a crash between
   the two flushes, the record's offset is the end of `value.dat`, where the
   next process appends another document (`ozwrite.c:91`).
2. `write_flush`: the flushes are where the bytes are really written, and their
   results are dropped (`ozwrite.c:92`).
3. `write_two`: no lock keeps a second write server off the directory.
4. `read_race`: `fseeko`/`fread` without a mutex (`ozread.c:169`).
5. `trav_torn`: an unreadable record restarts the traversal for ever
   (`OZTravService_server.skeleton.cc:73`). Finding 1 is what leaves such a
   record.
6. `gets` assigns values as C strings (`OZReadService_server.skeleton.cc:114`): of
   a document with a NUL it answers the bytes before it, where `get` (line 58)
   answers all. `UndisturbedRight`, in the run `read`, has this as what always
   happens, and as wrong.

## 4. Theorems

| Theorem | Statement | Assumes |
|---|---|---|
| `TypesCorrect`, `CallsCorrect` | `Spec => []TypeOK`, `Spec => []CallInv` | nothing but the constants' types |
| `KeysCorrect`, `KeysGrow` | `Spec => []KeysInv`, `Spec => []KeysIncreasing` | one server; `getmax` can open `key.dat` |
| `KeysDiffer` | `Spec /\ []KeysFit => []UniqueKeys` | the same |
| `StoredCorrect`, `AckedStays` | `Spec => []StoredInv`, `Spec => []AckedStored` | one server; flushes do not fail |
| `OrderCorrect`, `DocsInOrder`, `DataStays` | `Spec => []OrderInv`, `Spec => []DocsInFileOrder`, `Spec => DataNeverChanges` | one server; no crash, flushes do not fail |
| `WriteImplementsLog` | `Spec /\ []KeysFit => ImplementsLog` | the same, and `getmax` can open `key.dat` |
| `AnswersStay` | `StoreSpec => [](LoadedInv /\ ToldInv)` | nothing: any number of write servers |
| `AnswersNeverDiffer` | `StoreSpec /\ []KeysFit => []AnswersAgree` | one write server; `getmax` can open `key.dat` |
| `ReadersCorrect`, `AckedIsServed`, `AckedIsTraversed` | `StoreSpec /\ []KeysFit => []ReadersInv`, `[]AckedServed`, `[]AckedTraversed` | the same, and flushes do not fail |
| `SortCorrect`, `SortTypeCorrect`, `SortedRightly` | `SortSpec => []SortInv`, `[]SortTypeOK`, `[]SortedRight` | nothing but the constants' types |
| `TableRunsSort`, `TableCorrect`, `LookupCorrect` | `TableSpec => SortSpec`, `[]TableInv`, `[]LookupRight` | nothing |
| `TableReadsSorted`, `TableSearched` | `TableSpec => [](SortedRight /\ SortTypeOK)`, `[]SearchCorrect` | nothing |
| `SearchIsCorrect` | `Spec => []SearchCorrect` | nothing |
| `ReadsCorrect`, `ReadTypes`, `UndisturbedAnswers`, `PresenceTold` | `Spec => []ReadInv`, `[]TypeOK`, `[]UndisturbedRight`, `[]PresenceRight` | nothing |
| `OneThreadAnswers` | `Spec => []AnswersRight` | one worker thread; `fseeko` and `fread` do not fail; no NUL in `value.dat` |
| `TraversalCorrect`, `TravTypes`, `PairsInOrder`, `EndsComplete`, `BuffersSuffice` | `Spec => []TravInv`, `[]TypeOK`, `[]GotInOrder`, `[]EndIsComplete`, `[]BuffersFit` | nothing |
| `RpcCorrect`, `RpcTypes`, `RunsOnce`, `StopsClean` | `Spec => []RpcInv`, `[]TypeOK`, `[]AtMostOnce`, `[]StopWaits` | nothing |
| `ResultsHold`, `ResultsAreTrue` | `Spec => []ResultsInv`, `[]ResultsTrue` | nothing |
| `RequestWhole`, `AnswerHeard` | a call, or an answer, of any method and in either language is read whole and as it was meant | nothing |

They hold for any number of servers' workers, of clients and of calls, any
documents, any block and buffer sizes and any of the other faults. The excluded
faults and second servers are those whose runs above end in a violation (a
second server, `fflush`, a crash for `DataNeverChanges`, a second thread of the
read service), or would at once (a `getmax` without `key.dat` starts at 0; a
failing `fseeko` or `fread` of the read service, or a NUL, makes an answer wrong
even with one thread). `KeysFit` (the keys of the file fit the
`int` of `atoi`) is part of the statement where it is needed, and no assumption
on a constant: above it `getmax` may start again at a small key.

In each module the argument is an inductive invariant, written out beside the
model (or in `OZWriteInv`) and checked by a run. It is needed because the
promises say nothing of a call that is half way.

The write path (`OZWriteInv`):

- `CallInv` is the ground for the others: exactly the holder of the mutex is
  inside (`LockInv`), the loop index names a value of the call (`LoopInv`), and
  the key buffer has a record only between `fprintf` and its flush
  (`KeyBufInv`), so that `FlushKey` appends one record, that of the put in
  progress.
- `KeysInv` adds `IdInv`: `_id` is above every key on disk, and so is the key
  being written, which is below `_id`. A crash keeps it, since `_id` is read
  back as the maximum plus one; and that is where `KeysFit` is needed, because
  `AtoI` is the identity only up to `IntMax`.
- `StoredInv` adds `PosInv` (the stream of the only writer is at the end of
  `value.dat`, which makes `ftello` right), `ValueInv` (the bytes of the put in
  progress are the last ones of file and buffer, at the offset it took) and
  `DoneInv` (once flushed, the record is on disk; once `ozwrite_put` returned 0
  with the value flushed, the record finds the value). The lemma `DiskGrows`
  (both files only grow at their ends) carries what is on disk over every step.
- `OrderInv` adds to `PosInv` and `ValueInv` that every record on disk ends
  inside `value.dat`, but for the last one between its two flushes, and that a
  value being written starts where they end (`EndsInv`). `DataNeverChanges` and
  the refinement follow: the abstract documents are the records of `key.dat`
  with their bytes in `value.dat` and the server's buffer, `FlushKey` is the
  append, and every other step is a stutter.

The readers beside the writer (`OZStore`): `LoadedInv` (what a reader has is a
part of `key.dat`), `ToldInv` (an answer is what a record of `key.dat` finds now)
and `KnownInv` (what was acknowledged before is among what was loaded). With
`DiskGrows` no step of the writer touches the first two; with `StoredInv` an
acknowledged document is found, and with `KeysInv` two records of one key are
one, so that two answers agree.

The sort and the table. `SplitInv`: the splits are sorted and hold exactly the
lines read so far. `MergeInv`: what the merge has written, and the record it
holds back, are in order and the best of their key among what was taken, and
nothing left comes before them. `FileRight` says the same of the merged file,
against `key.dat`. In `TableInv` the table is that file, and `SearchInv` says
that everything left of `low` is smaller and everything right of `high` larger
than the key, and that both stay within one of the table. `SearchCorrect` is
checked by `table`, in which the search runs on the tables that OZoneSort
leaves; `SearchIsCorrect` has it for every sorted table.

The read service: a thread's cookies are those of its own keys (`CookiesRight`),
those before `n` have been read to the right buffer (`ReadRight`), and the
`FILE` is at the cookie's offset unless somebody came between (`CallRight`). With
one thread, calls without failures are never disturbed, and without a NUL no
document is cut (`NothingCut`): `OneThreadAnswers`.

The traversal service: who is inside holds the mutex (`HeldInv`), and at each
step the cursor and the buffers are what its own steps before made them
(`StepOf`), among others large enough.

The wire (`RpcInv`): of the calls a client has made, numbered in order, those up
to some `l` may have run, those between the server and the client come after
them, and those in the client's buffer last (`RunsInv`). A part of such a stream
behind the end of a call begins with the next (`CallStream`, lemmas
`StreamConcat`, `StreamPart` and `StreamRequest`), because a worker reads to a
stop and a stub writes one only at the end, also where it fails before. So a
worker that reads a header, even behind half written bytes, runs a call that is
numbered above all that ran: `AtMostOnce`. `StopWaits` needs that the backlog is
closed when the stop begins and that a run is on a served connection only.

What a call tells its caller (`ResultsInv`). `ResultsTrue` speaks of a client
that has been told something; it is true because of what was on the wire
before. `RpcInv` knows the order of calls and not their answers: it would allow
an answer to be left over that the next call takes for its own. So `ResultsInv`
says, of every client that has not spoiled its stream, that it is in one of
five states: `Fallow` (no call of it runs or will, before it makes another),
`Asked` (exactly one whole request is on its way to the server), `Busy` (that
call runs), `Replied` (it has run, and the whole answer is all there is to
read), `Refused` (the server does not know the method, and the client can read
that). What encoding failures left in the write buffer are halves of calls cut
before a string, be it one of a list's (`Halves`), and what was sent behind them is `Fruitless`: the
server finds no struct that ends, and closes the connection. A connection that
breaks cuts both directions anywhere; a cut answer is `Unreadable`, which makes
`recv_` fail and tells the caller nothing. The steps of the call are
`ResultsCall`, `ResultsReceive`, `ResultsRespond` and `ResultsReply`, the
failures `ResultsRaise`, `ResultsDrop`, `ResultsUnknown`, `ResultsLose`,
`ResultsBreak` and `ResultsDie`; `Apartness` is why the steps of other clients
do not matter.

They rest on what is read of what was written, which `OZWireProofs` has for
structs of up to three fields of any type: `WriteOne`, `WriteTwo` and
`WriteThree` say which tokens are written, `MessageRead` that a struct ends at
its own stop and nowhere before, `ContentHas` and `ContentLacks` which fields
its reader then has, `OZExceptionHeld` and `TravPairHeld` the same of a struct
within a struct. With the five methods' structs from both languages they become
`RequestWhole` and `AnswerHeard`. A spoiled client is excepted because its half
written argument can be completed by the next message; then a handler runs on
bytes nobody meant.

Induction over data is not available to the provers as a theorem of the library
(it takes an operator as a parameter). Where a proof needs it, for a position in
a table or a sequence, it goes through the least element of a set of naturals
(lemma `Least`, from the library's minimum of a well-founded order).

Only model-checked:

- The liveness properties (`LockReleased`, `LookupEnds`, `Answered` of `OZRead`
  and of `OZRpc`, `Stops`, `TraversalEnds`): liveness under fairness is beyond
  the provers here.

## 5. Not modelled

In the parts that are modelled:

- A failing `pthread_mutex_lock` (the handlers return as if all were well, or
  an empty pair); with the default mutex it does not fail.
- Keys longer than the 15 characters of `_key`; values of 2^32 bytes or more.
- The kernel tearing a line of `key.dat` in two with more lines behind it:
  records are written whole, or not at all, by one `write` of a few bytes. A cut
  line at the end is in `OZSort`.
- Loss of what the kernel has taken (no `fsync` in the code): a crash is that of
  the process, not of the machine.
- A failing `ozwrite_open` or `ozread_open`: the process exits.
- Return 6 of `ozwrite_put` (empty key): keys are numbers. The reason that a put
  gives for its failure: that of a failed `ftello` (4) falls through to "value
  length can't be zero" (`OZWriteService_server.skeleton.cc:122`).
- The second, unchecked `malloc` of `ozread_gets_init`, the leak before it; in
  the handlers, allocations that fail under the mutex (`bad_alloc` out of `put`
  or `next_kv` would leave it locked); unchecked `malloc` and `fprintf` in
  OZoneSort.
- Negative cursors in `OZTrav`, which no client of the repository sends (in
  `OZRpc` one comes of a misread message, and may kill the server); tables of 2^31
  records or more, whose positions the reply's `i32` cuts.
- In `OZRpc`: timeouts (no client or server sets one), a signal before `serve()`
  has begun or after the server object was deleted (`ozserver_tp` stays set),
  messages of other clients than the generated ones.

Parts that are not modelled:

- `server_nonblocking` in the three servers, whose calls are commented out in
  `main`, and with it Thrift's `TNonblockingServer` and libevent.
- The rest of `src/include_deps`: headers of Thrift (compact, JSON, dense, debug
  protocols; HTTP, file, zlib, SSL transports; async and concurrency) and of
  libevent. These are third-party interfaces whose implementations are in the
  repository as archives only; they make up most of the repository's lines, and
  what the store uses of them is the binary protocol (in `OZWire`), the
  buffered transport and the thread pool (in `OZRpc`).
- Of Thrift's Python library: framed and file transports, HTTP, Twisted, the
  servers, the accelerated protocol.
- Of the generated code: Multiface and Null classes, comparison, event handlers,
  the Python processors and the `-remote` command lines.
- `ozcore/test.c`, a command line around the libraries.

## 6. Plan

What is done is marked.

1. `OZWrite`, its abstract `OZLog`, its runs and proofs, the refinement among
   them. **Done.**
2. `OZSearch`, `OZRead` and `OZTrav` with their proofs. **Done.**
3. `OZSort` and `OZTable`: from `key.dat` to the record of a key, with proofs for
   any key file. **Done.**
4. `OZStore`: the three programs on one directory, with its proofs. **Done.**
5. `OZWire` and `OZRpc`: the wire, the thread pool, the stop, with their proofs,
   `ResultsTrue` among them. **Done.**

Every invariant and every action property that a passing run checks is stated
by a theorem of section 4. What stays with TLC is liveness.

The write path came first because everything else reads what it leaves.
