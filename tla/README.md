# Verification of remotefs-aws-s3

remotefs-aws-s3 presents an S3 bucket as a file system. S3 has neither
directories nor append nor transactions, so almost every operation of the
client is a sequence of requests, and what a caller is promised has to survive
whatever happens between two of them. This project models that: TLA+ modules
translated from the Rust source, TLC runs on small instances, and theorems for
all instances checked with TLAPS.

Source references are relative to the repository; a bare file name is below
`src/`. `PROJECT.json` maps every definition to its lines.

## Inventory

| Component | State | Operations | What is hard |
|---|---|---|---|
| Write stream (`stream/write.rs`) | buffer, upload id, parts, future of the part in flight, finished flag | `create`, `poll_write`, `poll_flush`, `poll_close`, `finish`, drop | progress only when polled; failures of a part after its bytes left the buffer; a drop between any two polls; late and repeated requests; several streams on a key |
| Keys and paths (`key.rs`, `object.rs`, `is_direct_child`) | none | `from_path`, `to_path`, `object_name`, `is_direct_child`, `stat_key` | keys of other clients: slashes at the ends or two in a row, one name a prefix of another, the order of bytes |
| Namespace (`client.rs` 156-206, 360-495) | none of its own: the bucket | `stat`, `exists`, `list_dir`, `create_dir`, `remove_file`, `remove_dir`, `remove_dir_all` | list, decide, act: the bucket changes in between; requests fail, come late, are sent again; futures are dropped; a listing is one page |
| Read stream (`open`, `http_range`, `stream/read.rs`) | body, current chunk | `open`, `poll_read` | ranges at the ends of u64, empty ranges and objects; chunks against buffers; the object changes while it is read |
| Connection (`client.rs` 31-141, 208-267, 320-356) | the SDK client, settings | the builder, `connect`, `disconnect` | awaits between test and assignment; half of a pair of credentials |
| Unsupported operations, capabilities | none | answer at once | nothing |
| Blocking adapter (`into_blocking`) | none | wraps another crate's adapter | outside this repository |

The components meet in three places. `create` clones the client into a stream,
which from then on talks to S3 by itself, even after `disconnect`; a reader owns
the body of its answer in the same way. An `open` borrows the client, so no
`connect` or `disconnect` can run while it awaits. And all streams and namespace
operations share the bucket, through nothing but S3 requests: `&self` lets many
tasks use a client, and other clients use the bucket too.

What makes each component correct:

- The write stream: the key only ever holds, whole and in order, what one
  stream accepted; nothing is stored before `finish` is called or by a stream
  that is dropped open; `Ok` means stored; a finish ends; what uploads may be
  left on the service is bounded.
- Keys: an entry's path leads back to its object; a listing shows the direct
  children and nothing else.
- The namespace: a removal deletes nothing outside its path, leaves nothing when
  it says Ok, and never orphans an object half way; what one task does wrong to
  another is due to what happened between two of its requests; `create_dir`
  tells an existing directory from a missing one; `remove_dir_all` ends.
- The read stream: it hands out the bytes of its range, of one version of the
  object, once each and in order, and ends.
- The connection: there is a client exactly while the owner was told so, and it
  was made of what one `connect` was given: all settings but the profile and
  the security token, which no client gets.

## Modules

| Module | Stands for |
|---|---|
| `S3Multipart` | S3 as seen by the write stream: one key, its multipart uploads, the requests and when they are executed or rejected. External code, modelled from how `write.rs` uses it. |
| `S3Writer` | `stream/write.rs`: the stream, the SDK calls it awaits, the calls nobody awaits any more. EXTENDS `S3Multipart`. |
| `AtomicObject` | What a write stream promises: an object that is stored whole at one instant. |
| `S3WriterProps` | The properties, and the refinement mapping to `AtomicObject`. |
| `S3WriterInv` | The inductive invariants. |
| `S3WriterProof`, `S3WriterObjectProof`, `S3WriterRefinement`, `S3WriterUploadProof` | The proofs: types; the object and Ok; the refinement; the lists of parts and what may leak. |
| `S3Key` | Keys and paths as sequences of names, listings, `query_objects`, `stat_key`. |
| `S3KeyProof` | Facts about keys, paths and pages: what `stat_key` finds, which keys lead back from a path, what a page of a listing shows. |
| `AwsS3Fs` | The namespace operations, run by tasks on a bucket. EXTENDS `S3Key`. |
| `AwsS3FsProps`, `AwsS3FsInv` | Their properties, and the inductive invariants. |
| `AwsS3FsProof`, `AwsS3FsTreeProof` | The proofs: what holds on any bucket; what holds on one that is used as a file system. |
| `S3Session` | The settings, `connect` with its awaits, `disconnect`. |
| `S3Reader` | `open` and `S3Reader` on an object that others change, composed with the connection they need. EXTENDS `S3Session`. |
| `S3ReaderProof` | The proofs about both. |
| `MCWriter`, `MCFs`, `MCSession`, `MCReader` | Instances for TLC. |

### The write stream

`buffer`, `upload_id` and `parts` are the fields of the struct; `pending` is what
the part future has captured; `phase` is where the owner is: `open` while it
polls, `draining` to `aborting` inside `finish`, then how the stream ended. The
await points inside `complete` and `abort` are phases, so a dropped `finish`
future is the action `Drop` in one of them. `call` and `reply` are the SDK call
the stream awaits. `upload_part` is `PollStarts` and `PollCreated`; taking its
outcome (`poll_pending`) is part of whichever poll finds it ready
(`SettledId`, `SettledParts`, `PartFailed`), as in the code.

Bytes are numbered in the order in which a stream accepts them, so a body is an
interval, and `buffer.hi` counts what was accepted. This loses nothing the
properties can tell apart: every body in the code is a run of consecutive
accepted bytes.

A call may be executed and answered, rejected, sent again while its first copy
is still on its way (`Resend`), or given up with an error whether or not it is
executed later (`GiveUp`). When a stream goes away, the call it awaited may or
may not reach the service. Those late copies are in `stray` and are executed or
lost at any later moment. `aborts` and `failed` are history.

### The namespace

A key is the sequence of names `split('/')` gives, with 0 for an empty name:
`a/b` is `<<a, b>>`, `a/` is `<<a, 0>>`, `a//` is `<<a, 0, 0>>`. Names are
numbers. `Extensions` says which name begins with which, so that the prefix `a`
matches `a.b` as it does in S3. `Alone` and `Slashed` are the places of names
in the order of bytes, at the end of a key and before a slash: some bytes are
below the slash, so `a.b` may come after `a` and before `a/`, and with it
everything below the directory `a.b`. `KeyAssumption` says no more of them than
that a text comes before those that begin with it.

`Jobs` are the operations that tasks run, each with its path.

Each task has a stack of calls (`remove_dir_all` calls itself) and each action
is one request with what the operation does until its next request. `Fails` is
any request that ends in an error; `Cancel` drops the future. Of a put or a
delete that nobody awaits any more, or that the SDK has sent again (`Resend`), a
copy may be executed at once, never, or later, after other operations: those
that may still come are in `late`, and `Arrive` executes one. A copy that is
lost is one that `Arrive` never takes.

`fresh` is history: the keys put since the last call of a task made its first
look. It separates what an operation could have known from what it could not,
and says what several tasks may do to each other.

A write stream is one request here: that of its `finish`, which the other part
of the project justifies (`ImplementsAtomicObject`). The client is connected and
paths are absolute.

Some properties hold only while the bucket is used as a file system. `Tidy` says
that owners create files and directories in directories that exist, and not a
file and a directory of one name. The program does not enforce this; the run
`leftovers` shows what happens otherwise, and `fs_shared` checks what holds all
the same. A key with a slash too many does harm as well: `a//` counts as a
child of `a/` whose path is that of `a` (`is_direct_child`, `client.rs` 203-205), so a
listing of `a` shows `a`, and `remove_dir_all` calls itself for it.

### Connection and read stream

The client of `S3Session` is what `make_client` builds it of, `profile` being
that of the chain of default credentials, which is built without one.
`connecting` is the await that `connect` is at: the region, then the chain of
default credentials, if the user gave none. `DropConnect` drops its future at
either. `given` and `up` are history: what the owner set when it called
`connect`, and whether it was told that it is connected.

`open` is `Open`, which computes the range and sends the GET, and `Answer` or
`GetFails`. The answer follows what S3 documents of ranges: one that starts
behind the object is InvalidRange, which `open` turns into an empty reader; one
that ends before it begins is ignored. Numbers go up to `MaxU64` and saturate as
in the code. `PollRead` takes the next chunk, of any size, or the rest of the last
one, into a buffer of any size that is not empty.

## Runs

| Run | Question | Bounds |
|---|---|---|
| `two_streams` | Whole objects, `Ok` means stored, refinement of `AtomicObject`, and the invariant of the proof, under failures, late execution and drops, with and without a runtime | 2 streams, 2 uploads, parts of 2 bytes, 5 bytes: two parts and a rest |
| `long_stream` | What S3 demands of the list of parts, what `Ok` means, what may leak, and the invariants of these proofs, when the owner goes on after errors and the SDK sends calls twice | 1 stream, 7 bytes in parts of 2, 3 uploads, a limit of 3 parts, 1 resend: exact multiples, rests, a second upload after a failure, and the limit exceeded |
| `finish_ends` | `finish` ends under failures, and with Ok for a stream without faults beside one that has them | 2 streams, 5 bytes in parts of 2, a limit of 2 parts |
| `fs_tree` | On a tidy tree, with requests that fail and futures that are dropped anywhere: `remove_dir_all` with Ok leaves nothing and only descends, nothing is orphaned, a listing of one page shows the children; the invariant of the proof | 1 task, all 8 operations, 6 paths (three levels and a sibling), `a.b` beside `a`, a page of 3 keys |
| `fs_shared` | Removals stay below their path and tasks only suffer from what others did meanwhile, whatever is in the bucket, with drops, late and repeated requests | 2 tasks; `exists`, `create_dir`, `remove_dir_all`, `write` on `/a`, `write` of `/a/a`, `remove_dir_all` of `/`; at first no key, `a/a` without its marker, or `a.b` and `/`; recursion of 3, 1 late request |
| `fs_ends` | `remove_dir_all` ends; repeated, it empties a directory | any subset of 6 keys below `/a`, a page of 2 |
| `reads` | There is a client exactly while the owner was told so, made of what one `connect` was given, never with default credentials or half a pair of keys if any were set; a reader hands out its range, of one version, and ends | 4 settings: the keys, a token, the region, which the environment names or not; integers of 0 to 4, objects of up to 3 bytes, put twice, 1 reader |

Two streams are enough for the interplay on one key: streams share nothing but
the key, and each property speaks of one object and the stream it came from. One
part more than can be in flight, together with a rest, meets every branch of
`complete`. The part size is 2 where a part must be able to be partly full. The
tree of three levels makes `remove_dir_all` recurse from a recursive call.
Readers do not meet each other, so one is enough; `MaxU64` is the size of the
largest object and one more, so that sums saturate and offsets lie behind the
end.

`MaxResend`, `MaxBytes`, `MaxVersions`, `MaxDepth` and `MaxLate` bound the
instances only: the theorems hold for all their values. `MaxResend` is 0 in
`two_streams`: copies of calls that were given up or dropped are in it, and copies
of a call that was sent again are in `long_stream`; that one is executed after its
`finish` returned Ok, beside another stream, is covered by the theorems
`ObjectStaysWhole` and `StreamsAreAtomic`. `MaxDepth` cuts the recursion
of `remove_dir_all` where the key `/` of `fs_shared` is listed as a child of the root
whose path is the root; elsewhere it is out of reach, as a tree in `MCFs` has at most three levels.

The page of `fs_tree` is shorter than the tree, so `ListsChildren` has the
condition that one page takes the keys below the directory. The code sends one
ListObjectsV2 request and ignores the continuation token (`client.rs` 163-169):
in a directory with more than 1,000 keys below it, at any depth, `list_dir`
shows only some of the children. That `stat` and the tree survive
this is what `fs_tree`, `fs_ends` and the theorem `StatFindsKey` show.

`fs_tree` has no late requests, and must not: a `DeleteObject` for a marker, or
a put, that comes after its owner went on leaves files without a directory, and
nothing a client of S3 does could prevent it. `fs_shared` allows one, with two
tasks: enough for a delete of one task to come between any two requests of the
other. `/a/a` is there for the marker that `remove_dir` deletes after two listings:
the other task may write the file in between, and `OrphansOnlyFresh` says that
only such a file can lose its directory. The run has no failing requests (the
failure of a `stat` is the question of `create_again`); what a failing put or delete leaves is what a dropped one does.

Streams end, so the runs of `MCWriter` do not check for deadlock; those of
`MCFs`, `MCSession` and `MCReader` do.

### Runs that find a violation

Each states what the repository says and shows what the code does instead.

| Run | Shows |
|---|---|
| `torn_object` | A poll that fails loses its part for good (`write.rs` 61-66), yet a later `finish` completes the object without it and returns Ok. An owner that stops at the first error is safe: `WholeObject`. |
| `forgotten_upload` | A stream dropped before `poll_pending` has taken the outcome of its first part does not know its upload and aborts nothing (`write.rs` 267). The leak holds at most one part: `LeakBound`. |
| `leftovers` | `remove_dir_all` and `remove_dir` see direct children only: of a bucket with `a/` and `a/c/a`, in which the directory `a/c` has no marker, `remove_dir_all` of `/a` deletes `a/`, returns Ok and leaves `a/c/a` (`client.rs` 455). |
| `create_again` | `create_dir` takes any error of its stat for a missing directory (`client.rs` 403). |
| `settings_dropped` | `profile` is "the AWS profile used to connect" (`client.rs` 107), but `load_credentials` builds the default chain without it (219-225). `security_token` (131) counts as a credential that was given, but the credentials of the client are made without it (239-245). TLC reports the one it comes to first. |

## Fairness

`S3Writer!FairSpec`: the owner of a `finish` future goes on polling it, because
an async runtime polls a task that is woken, and a call is answered or given up,
because the SDK bounds its attempts. Nothing is assumed about owners of open
streams, about drops, or about late copies. `PollFinish` is fair as a whole: the
steps of one future exclude one another.

`AwsS3Fs!FairSpec`: the same for the operation a task runs; it does not force
one to begin. `RetrySpec` adds an owner that runs operations again and again, in
a run whose only operation is `remove_dir_all`.

`S3Reader!FairSpec`: a GET is answered or fails, and an owner that reads goes on
reading: it polls again and again, and a chunk or the end of the body comes
(`Served`). A transfer may break (`PollFails`), but need not. Drops, other clients
and the connection are left free.

## Proofs

Each theorem holds for every value of the constants that satisfies the named
assumptions (`ServiceAssumption`, `WriterAssumption`, `KeyAssumption`,
`FsAssumption`, `SessionAssumption`, `ReaderAssumption`). There is a lemma for each way a
step changes the state and, in each theorem, one step per action.

The write stream, for any number of streams, uploads, bytes, parts and resends:

- `TypeCorrect`: `Spec => []TypeOK`. `TypeOK` is inductive as it stands. Besides
  the types it holds that a buffer never has a full part between two polls.
- `ObjectStaysWhole`: `Spec => []WholeObject`. `WholeObject` speaks of what the
  service holds and is far from inductive: that a step stores a whole object
  follows from the request, which follows from what the stream held when it sent
  it. `WholeInv` follows the bytes along that way: the buffer follows the part in
  flight, which follows the parts (`Follows`); the awaited call continues them
  (`StreamInv`); every copy of a storing request that may still be executed
  carries the whole content, and its stream accepts no more (`CallInv`); so does
  everything the key has held (`ContentInv`). `BytesAccounted` states `WholeInv`
  itself, under `StopAfterError`.
- `OkMeansStored`: `Spec => []OkIsStored`, by `OkInv`, which `OkAccounted` states:
  an answer Ok to a put or a complete means it was executed, and only streams
  that give up call an abort.
- `StreamsAreAtomic`: under `StopAfterError`, `Spec => ImplementsAtomicObject`. The
  initial states map to the initial state, and every step to a step of
  `AtomicObject` or a stutter; `WholeInv` says that what is stored maps to a
  whole object, `OkInv` that a finish that says Ok has stored one.
- `CompletedListsAreFull`: `Spec => []FullParts`, by `PartsInv`: streams and all
  copies of their calls hold full parts only, numbered from 1, but for the last
  part of a complete. It needs nothing of the owner.
- `LeaksAreBounded`: `Spec => []LeakBound`, by `LeakInv`: an upload that neither a
  stream nor an abort knows of has parts with number 1 only, and there is one
  body for each number. `LeakBound` is about `Runtimes = {TRUE}`: without a runtime,
  `drop` cannot abort and an upload of any size remains.

The namespace, for any names, bucket, page size, number of tasks and operations,
with failures, drops and late requests:

- `StatFindsKey`: if there is an object with the key asked for, it is the first
  that `stat_key` finds, and so the one it takes: no key that has a prefix comes
  before the prefix itself, so the object is on the first page. In a bucket of
  keys of paths `stat_key` finds no other for the key of a path. In one of odd
  keys it may: asked for `a/`, it finds `a//` if `a/` is not there.
- `FsTypeCorrect`: `Spec => []TypeOK`, and
  `RemovalsStayBelow`: `Spec => OnlyBelow`, both by `FsInv`: every call on a stack
  is one its operation makes, and the paths and keys in it are covered by the
  path of the operation (`CallsInv`); so are the deletes that are late
  (`LateInv`). The lemmas of `S3KeyProof` carry this through the conversions: a
  key that has the prefix of a directory is still covered after it was trimmed,
  made a path, and made a key again.
- `KeysArePaths`: the keys from which `KeyAgain` leads back are those of a file or a
  directory at some path: all but the empty key and keys with a slash too many
  at an end (`/a`, `a//`).
- `CreatesOverFreshOnly`: `Spec => []OverwritesOnlyFresh`, and `StatMissesFreshOnly`:
  `Spec => MissesOnlyFresh`, by `FreshInv`: what a task looked for in vain, and is
  there now, was put since. They need the lemma `StatSeesKey`: what is not found
  was not there.
- `OnlyFreshAreOrphaned`: `OnePage => (Spec => []OrphansOnlyFresh)`. `OnePage` says that
  one page takes whatever the bucket may come to hold: what it held at first and
  the keys of the paths of `Jobs`. `PutsInv` is that it never holds more, and `ChildrenInv` what
  a task knows after its look for children.
- `RemoveAllDescends`: `MadeOfPaths => (Spec => []Descends)`. `MadeOfPaths` says that the
  bucket is finite and at first holds keys of paths. It always does then
  (`KeysInv`), since the operations put nothing else. `Descends` compares two calls
  on a stack, but the deeper one was made for a key of a listing that the
  bucket may no longer hold: `NestInv` keeps, for every call of a stack, that its
  entry is at its path and that the children it has listed are deeper.
- `ListingsAreChildren`: `MadeOfPaths => (Spec => []ListsChildren)`, by `KeysInv` and what
  `is_direct_child` says of keys of paths. The listing is one of text, so this
  also needs that a key that begins with the text of a directory and its slash
  has the names of that directory.

The key `a//`, which is listed as a child of its own path, shows why the last two
need `MadeOfPaths`.

An owner that is tidy and alone with its bucket (`TidyOwner`: one task, `Tidy`, no
late requests, a page of more than one key, a bucket that is a tree at first),
for any tree, paths and operations, and whatever fails or is dropped:

- `OwnerKeepsTree`: `Spec => []OwnerInv`. A tree (`IsTree`) has the marker of each
  directory an object is in, and no two objects at one path. That it is one
  between any two requests does not carry itself: `remove_dir` deletes a marker
  because of what two listings have shown before. `WorkInv` keeps that, for every
  call on the stack: the directory is empty from the look for children on
  (`IsEmptyDir`), there is no file at the path of a call that works on a directory,
  and no directory at that of a call that deletes a file. Deletions further up
  the stack cannot undo any of this. The heart of it is the lemma
  `NoChildrenNothingBelow`: in a tree, a page of two keys is enough to see that a
  directory is not empty, since the first key below it, but for its own marker,
  is that of a child: the marker of a directory comes before what is in it.
- `NothingIsOrphaned` (`NoOrphans`) and `RemoveAllIsThorough`
  (`RemoveAllLeavesNothing`) follow.

It also shows that such an owner never comes to the loop that deletes what is
below a path without an entry (`client.rs` 476-490): `WorkOk` rules out its label.
That code is for buckets of others, as in `fs_ends` and `fs_shared`. The
`ASSUME` of `MCFs` checks that the instances of `fs_tree` and `fs_shared` satisfy these
hypotheses; `leftovers` shows why every directory has to have its marker.

The connection and the reader, for any settings, objects and width of integers:

- `ConnectionCorrect`: `SessionSpec => []ConnectedAsTold`, and `SettingsHonoured`:
  `SessionSpec => []HonoursSettings`, by `SessionInv`: a session that is connecting
  has no client and the settings it was given, and awaits the default chain only
  if no credential is set. `HonoursSettings` is about the region, if one was set,
  the endpoint, the path style, the keys and the session token; the profile and
  the security token are not in it.
- `ReadersKeepSession`: `Spec => SessionSpec`. A step of a reader or of another client
  is a stutter of the connection, so these two hold beside readers.
- `ReaderTypeCorrect` and `RangeIsRead` (`ReadsRange`). For the last one the
  invariant adds what a range has selected and where what is left of the body
  and of the chunk begins: right after what was handed out.

All invariants and action properties that passing runs check are theorems. Only
model-checked is liveness (`FinishReturns`, `FinishSucceeds`, `RemoveAllReturns`,
`RetriesRemoveAll`, `ReadEnds`): the temporal proofs of liveness under fairness and
ENABLED are out of the prover's reach. So is induction over data: what a
recursive definition computes for every input cannot be proved, which is why
the modules here use none.

## Not modelled

- Metadata, dates and sizes of objects, wording of errors, logging. The kinds of
  errors are kept where the code branches on them.
- Relative and Windows paths and `.` components in `from_path`.
- Unsupported operations, capabilities, the crate root and the tests: no state.
- The blocking adapter: the code it wraps is not in this repository.
- `poll_read` into an empty buffer, which changes nothing.
- How the SDK executes a request; only which outcomes its caller may see.
- More than one listing page being joined: the code never asks for a second.

## What could be added

1. The safety part of `RemoveAllReturns` as a theorem: a measure of the stack and
   the bucket that every request of `remove_dir_all` decreases, as long as no
   other task puts anything below its path.
2. Streams composed with the namespace: a stream that is finished while its
   directory is removed. `AwsS3Fs` has its last request only.
3. Relative paths in `from_path`, and `KeysArePaths` for them.
