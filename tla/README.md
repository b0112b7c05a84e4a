# A formal model of bbx

bbx copies one file over N TCP streams: a *source* sends, a *sink* receives, each stream carries
one byte range, `cp` starts the other end over ssh. These modules model the parts of it whose
correctness depends on the order of events: threads, streams, two processes, failures, kills and
retries. TLC checks them on small instances; TLAPS proves every safety property those runs check,
for every value of the constants the model allows. Paths below are relative to `src/src/`.

## Inventory

| Part | Code | State | Operations | What is hard | What makes it correct |
|---|---|---|---|---|---|
| sink | `engine.rs` `finish_sink`, `sink_work_path`, `sink_fail_cleanup`; `frames.rs` `recv_range`, `apply_preserve` | destination, temporary, open file, header, one thread per stream, abort flag, byte counter | read header, open, resize, receive, join, verify, preserve, rename, clean up | threads still running after the join gave up; failure at each step; kill and rerun; trusting a prefix | success means the whole announced file; failure leaves a fresh destination, or a resumed prefix, as it was |
| source | `engine.rs` `finish_source`; `frames.rs` `send_range` | input file, header, sender threads, abort flag | open, hash, send header, send ranges, join | the input changes between the three readings | does not fail a transfer its sink succeeds in |
| session | the two over TCP | frames in flight | - | lost and stalled streams, either side gone | what arrives is what was hashed; both sides end |
| two sinks | `engine.rs` | a shared destination | - | a retry against a sink not timed out yet | never a mixture of two files |
| ranges | `util.rs` `split_ranges` | loop variables | one range per iteration | remainders, more streams than bytes | both sides compute the same tiling |
| handshake | `net.rs` `dial_streams`, `accept_streams` | backlog, slots by id | connect, announce, accept, file, reject | accept order, strangers, silence, another command with the same key | each slot is the right connection |
| crypto | `crypto.rs`, and its use in `engine.rs`, `frames.rs` | salt, key, frame counter per stream | derive, seal, open | a long-term key used by many transfers; the header in clear | no nonce twice under a key; one source's bytes or none |
| throttle | `frames.rs` `throttle` | shared counter, clock, sleeps | move, pause, wake | threads paced by one counter; the sleep cap | no faster, and no slower, than the rate |
| progress | `engine.rs` `start_progress` to `report_progress_json` | stop flag, reporting thread, count shown | sleep, read, report, stop, join, final line | the stop against the sleep; a failed thread beside a complete count | the count rises, 100 % comes once, last and true; the phase ends |
| cp and agent | `cp.rs`, `ssh.rs`, `commands.rs` | local result, ssh child, remote process, key at each end | prepare, spawn, banner, transfer, wait | exits in any order, hangs, noise, a lost ssh, keys of two environments | success only if both halves succeed; returns, or waits in a call over ssh that has no timeout |
| banner | `engine.rs` `print_listen_banner`, `ssh.rs` `ssh_start_banner` | text printed, text read | print, read, parse | pieces that respect no line, a shell that prints before it, even PORT, KEY or RESUME; a limit on what is read | what is read is what the agent printed, unless reading ended before that |
| tree copy | `tree.rs` | list of files, position | list, mkdir, check, copy each | partial failure, refused names | whole files up to the failed one, none after |
| addresses, flags | `net.rs`, `cli.rs`, `commands.rs` | none | parsing, binding | - | not modelled |

The parts meet in few places. `cp` calls the source or sink engine and runs the other remotely;
the engines call the handshake for their streams; the streams carry the header and then frames;
the ranges are computed on both sides and never exchanged; the throttle slows the loops of
sender and receiver.

The hazards, each with its line and the properties that watch it, are in `PROJECT.json`.

## Modules

| Module | Models | Built on |
|---|---|---|
| `Files` | a file as bytes plus "has the sent mode and mtime"; `set_len`, positional write | |
| `Ranges` | stream i's range in closed form | |
| `SplitRanges` | the loop of `split_ranges` | `Ranges` |
| `Sink` | `finish_sink`, its receivers, cleanup, kill, rerun | `Files`, `Ranges` |
| `CopyPromise` | what a sink promises, without threads or temporaries | `Files` |
| `SinkPromise` | the refinement mapping from `Sink` to `CopyPromise` | both |
| `Source` | `finish_source` and its senders | `Ranges` |
| `Session` | `Sink` and `Source` over N bounded streams | `Sink`, instance of `Source` |
| `TwoSinks` | two instances of `Sink` with one destination | `Sink` twice |
| `Handshake` | `dial_streams` and `accept_streams` | |
| `Sealing` | keys, nonces and associated data of the streams the handshake filed | `Handshake`, `Ranges` |
| `Throttle` | `throttle` and the loops it paces | |
| `Progress` | the reporting thread and the main thread beside those loops | `Throttle` |
| `Agent` | the four `cp_*` functions, `ssh_*`, `finish_agent`, the key at each end | Session's promises as guards |
| `Tree` | `cmd_cp`, `cp_push_tree`, `cp_pull_tree`: one session of `Agent` per file | `Agent` |
| `Banner` | the banner printed, cut, read and parsed | |
| `MC*` | constants of the TLC instances | |
| `*Proofs` | theorems: `SinkProofs` of `Sink` and `SinkPromise`, `SessionProofs`, `TwoSinksProofs`, `SealingProofs`, `ProgressProofs`, `CpProofs` of `Agent`, `Tree` and `Banner`, `RangesProofs`, `SplitRangesProofs` | |

Definitions commented as a *mistake* (a cleanup of the wrong file, a range that forgets the
prefix, a receiver not joined) are not part of any specification. Each is a plausible bug and,
put in the place of the definition it follows or precedes, makes the property it is paired with
in `PROJECT.json` fail: the property does say something about that code.

### Sink

`main` is where `finish_sink` is: `control` (reading and checking the header, 156-296), `open`
(the work file, 297-303), `droptail` and `extend` (`set_len`, 304-307), `join` (353-358),
`verify`, `preserve`, `rename` (366-401), `cleanup` (410-413), and its results `ok` and `err`.
`th[i]` is where receiver i is in the loop of `recv_range`: at the abort check (`check`), or
past it and reading, to write what comes (`read`). Those are the two points between which other
threads matter; the counters after the write are thread-local or additive, so read, write and
count are one step. A descriptor and a path are told apart by `fd`: writes and `set_len` follow
the open file (also after it was renamed over the destination, or unlinked), while verification,
cleanup and rename use the path, as the code does. `JoinErr` leaves later receivers running, as
the early return of the join loop does. `Exit` is the process ending, which ends them.

The payload is arbitrary: a receiver may be handed any bytes, and a sealed frame of any length up
to what is left of its range, none included (`FrameLen`). So safety of the sink does not rest on
a well-behaved source. Its liveness does: `recv_range` accepts a sealed frame of no bytes, writes
nothing and reads on, so a peer that sends one within every read timeout keeps a receiver, and
`finish_sink` in its join, for ever. `Returns` names that as the only way not to return. The
source here never sends one. `Rerun` starts the command again on the destination an earlier
run left; an old temporary has another random name and drops out of the model.

Abstracted: bytes (three values, of which one is what a hole reads as), the frame size
(`Chunk`), BLAKE3 (injective in the instances, any function in the proofs), AEAD (a frame or
header opens or it does not), mode and mtime (the sent ones or not), messages and progress
output.

### Source and Session

`Source` is the mirror image, its input in `src`, which its owner may rewrite between open, hash
and read. `Session` joins both by `chan[i]`, a sequence of at most `Cap` frames per stream: a
sender blocks on a full one, a receiver on an empty one. `Cut` loses a stream with any tail of
what it held. A blocked call ends when the other side has dropped its socket (`SClosed`,
`RClosed`), the stream is cut, or, with `"stall"`, when the socket timeout of `net.rs` `tune`
fires. The offset of a run with -A is the length of the destination when it starts, as the
banner, `stat` or the local `metadata` call say. In cleartext the wire is a byte stream, not
frames; both ends cut it at the same places because they compute the same ranges, and an
incomplete frame is a failed `read_exact`.

### TwoSinks

`TwoSinks` takes `Sink` twice with one `dest`. When one renames over it, the other's descriptor
names the old file (`Outlives`).

### Handshake and Sealing

`Handshake` separates a dialer's connect from its announcement, since the kernel may hand out
the connection between the two. `ReadId` and `Reject` are the checks of id, MAC and duplicates
in order; any rejection ends the accept, as in the code. `key` is "own" when gen_key drew it for
this transfer and "shared" when it is the -k or BBX_KEY of other commands too; a stranger
(`Stray`) has good MACs in the second case only, for the streams it would dial in its turn.

`Sealing` goes on where the handshake ends, with the sink as the accepter and two sources: the
dialer, and the strangers taken together as one more. Salts are the sources' numbers, that is,
distinct, as 32 random bytes are. A box is the record of what it was sealed under and what is in
it (a frame is named by source, stream and number), and opens under the same key, nonce and
associated data only: the cipher is ideal. `CtrMax` is the counter of the control box, u64::MAX
in the code, with `Sizes` below it: no file has that many frames. `ReadHeader` reads any header,
since it travels in clear. The check of a hash is left out, so `OneSource` does not lean on it.

### Throttle and Progress

`Throttle` counts time in ticks and rounds a wait up, as a sleep lasts at least its time. `Move`
(the fetch_add) and `Pause` (reading the clock) are separate steps. `total` starts at `Resumed`,
because `sent` and `got` start at `resume_from`. Time stops at `Horizon`, when every byte there
is has become due.

`Progress` adds the reporting thread with its two reads of the flag and its read and report of
the counter as separate steps, and the main thread: `Join` in stream order up to the first
failure, then `stop_progress` or `finish_progress`, which both set the flag and join. A bar and
JSON lines differ in how long the thread sleeps, which the model leaves open, and in what shows
100 % without -P. A detached stream thread goes on moving bytes.

### Agent, Tree and Banner

`Agent` replaces the transfer by its two results. Its guards are what `Session` establishes: a
sink does not succeed with a source that fails (`NoFalseFailure`), a source may succeed alone,
and nothing succeeds with two different keys. ssh ends with the agent's status, or by itself.
`KeySent`, `KeyThere` and `KeyHere` follow the key through the command line, the environments
and the banner. An error of `try_wait` itself (`ssh.rs:62`), which a process with one child does
not get, is left out. The banner that is read is the agent's: a KEY or PORT of the shell's own, which
`Banner` has, makes a half fail and is in `Agent` no more than that, so `HalvesMeet` is not about
it.

`Tree` runs one session of `Agent` after another (`Session`), between the check of a name and
the next. The list is a number of files of which some names are refused (`bad`: not relative, or
through a symlink; pull only). A file is "whole" when its sink succeeded and may be "part" when
a resume failed. After the command gave up, the remote half goes on.

`Banner` takes a line as four units, so that a read may end in the word, in the value, or after
it. The shell prints what it likes before the banner (`ShellLines`): other lines, text without an
end of line, which the next line is glued to, and lines that begin with PORT, KEY or RESUME, with
a value that can be parsed or not. `ssh_start_banner` makes no difference between these lines and
the agent's: `NewLines` counts both, `Take` parses both, and the last one read stands. A word
without a value or a short key is an error (`Malformed`), a short number is a smaller number. The
loop over the lines is one step per line.

## Runs

| Run | Bounds | Shows |
|---|---|---|
| `sink` | 2 streams, 3 bytes, sealed frames of 0 to 2 bytes of the peer's choice, 2 runs, 11 headers, 3 old destinations, all faults | type invariant, six safety and action properties, that `finish_sink` returns unless it is sent empty frames for ever, and that `Sink` implements `CopyPromise` |
| `session_faults` | 2 streams, 2 contents, 1 edit, 2 runs, cuts, stalls, kills, errors of writing and hashing | delivered content is the hashed one; no success beside a failed source; no temporary beside a returned sink |
| `session_unhashed` | cleartext, no hash, 4 bytes, cuts and kills, no timeouts | bytes arrive exactly or the sink fails; both sides end; undisturbed, the file arrives |
| `split` | sizes 0-12, counts 1-6 | loop = closed form, tiling |
| `two_sinks` | fresh copies of 2 files, 2 receivers each | no mixture; success is kept until replaced |
| `opening` | 2 streams without a key, with an own and a shared one; a second source of 2 streams, and a stranger not allowed; files of 1 or 3 frames | each slot is the right connection, or at least its own; the accept ends; no nonce twice; one source's frames or failure |
| `pace` | 2 threads of 2 frames, 6 ticks, no sleep cut by the cap, any thread may fail, with and without -P and -J | rate held, and used; the count shown rises, 100 % is shown once and truly; the phase ends |
| `cp` | all directions, keys and troubles; one file, or trees of up to 3 with any names refused | success is true, child reaped, halves agree on the key exactly when expected; the tree is a prefix; cp returns, or waits for ever in a call over ssh that has no timeout |
| `banner` | 0-2 lines of the shell, each of 8 kinds, with and without KEY and RESUME, reads of up to 5 units of 4 to a line, limit 12 | what is read is what was printed; what the shell says is believed only where the agent's own line was not read as one; the reading ends |

Why these bounds are enough to meet the interesting cases: two receivers suffice for one to fail
while another is past its abort check, before or after it in join order (the theorems are for
any number). Three payload bytes over two streams give unequal ranges and a range of more than
one frame, and with resume offsets 1, 2 and 3 a range of one byte and empty ranges. Two runs let
a run meet what a killed one left. The old destinations include a prefix that is right, one that
is wrong, and a file longer than the new one. In the sessions `Cap` = 1 makes every sender
block. Two streams and three other connections let accepts come in any order, strangers take a
stream's name first, two connections name the same stream, and a slot of each source stand
beside the other; files of one and three frames give the two sources different ranges, and empty
ones (the theorems are for any number of streams and sizes). Three files are a first, a middle
and a last. Two lines of the shell say the same word twice, or put
one glued line before the banner, and then the limit of three lines falls inside the KEY line. In `pace`
both threads are in `throttle` at once, each overtaken by the other, and the clock runs until
nothing is left to wait for.

`CHECK_DEADLOCK FALSE` is set wherever the modelled commands end for good. `SplitRanges` is
checked for deadlock.

### Runs that find a disagreement

| Run | Code | Says otherwise |
|---|---|---|
| `sink_detached` | the join loop (`engine.rs:355`) leaves receivers running; one writes behind the cleanup's truncation | `engine.rs:136` "shrink resume dest to trusted prefix" |
| `sink_leak` | `set_len` fails at `engine.rs:307` before the part that is cleaned up after | `engine.rs:136` "delete temp (fresh)" |
| `throttle_resumed` | the prefix counts as sent in this run (`engine.rs:316`, `:611`) | `SPEC.md:129` "about RATE bytes/sec" of payload, which `SPEC.md:42` says excludes the prefix |

Three more disagreements were met while modelling; no run is kept for them, the hazards in
`PROJECT.json` describe them. A resume does not "own" its destination (`engine.rs:111`): another
sink may rename over it or truncate it. A sleep longer than 2 s is cut (`frames.rs:26`), so a
rate below one frame per thread in 2 s is not held; `pace` stays above it. A bad banner ends
`cp` without `finish_agent` (`ssh.rs:166`), and ssh lives on, against "Failed transfer kills the
remote SSH agent process" of the repository's `README.md:93`; `CpReaps` is about transfers that
were begun.

What `PrefixTrusted` and `DeliveredAsHashed` show beside them: none of these harms a trusted
prefix within one sink, and a later run that reports success with a hash is right in spite of
them.

## Fairness

`Sink`: weak fairness of the main thread and of each receiver. The operating system schedules
runnable threads, and every call they block in is bounded by a socket timeout (`tune`,
`io_timeout`); `RecvFails` is that timeout. `Session`: the same for both processes, where a
blocked call has an enabled way out only when the other end is gone, the stream cut, or stalls
are allowed; nothing is assumed of `Cut`, `Edit`, a kill or a rerun. `Handshake`: dialing and
accepting go on, by connect and accept timeouts; strangers owe nothing, and no fairness is
needed of the sealing (`AcceptEnds` is about the accept). `Progress`: time passes, each stream
thread, the reporting thread and the main thread are scheduled; a stream thread's blocked call
is bounded as above, and its failure is always possible. `Tree`: the walk, the command and ssh
go on, except in a call over ssh that has no timeout (`Waits`): `find`, `mkdir`, `stat`, and the
read of the banner (`ssh.rs:123`). Nothing is assumed of the agent, which may hang before it
prints, or after. So `TreeReturns` says that `cp` returns or stays in one of these calls for ever;
that it always returns is false of the code. The comment of `finish_agent` ("a stuck remote agent
cannot hang the local process forever") is true of the wait it is about. `Banner`: the agent
prints or dies, the reader and the parser go on.
`TwoSinks` and `SplitRanges` state safety only, as does the specification `throttle_resumed`
checks.

## Proofs

All by TLAPS, for every value of the constants the ASSUMEs allow (N in 1..64; any chunk, set of
headers, old destination, set of faults and number of runs; any number of strangers, sizes,
frames, rate, files).

- `RangesProofs`: ranges are adjacent (`RangeStep`), bounded, monotone, hence disjoint
  (`RangesDisjoint`). The one non-linear fact, i·base ≤ n·base, is proved apart.
- `SplitRangesProofs`: the loop invariant (what is out is the closed form, `start` is the next
  start, `rem` what is left of the remainder) gives `SplitIsClosedForm`, `SplitTiles`,
  `SplitBalanced`.
- `SinkProofs` begins with what `SetLen` and `WriteAt` do to length and prefix. `IInv` is
  inductive. Besides the types it says which file the descriptor names (`FdInv`), that each
  receiver stays in its range (`RangeInv`), that receivers below `joined` ended well and all of
  them after the join (`JoinInv`), that the work file keeps its full length from `set_len` to the
  rename (`SizeInv`), and that what was verified and applied is still so (`SumInv`, `MetaInv`).
  The last two need `JoinInv`: past the join no receiver is left that could write. `SizeInv` needs
  `RangeInv`: a write past the end would lengthen the file. `DestSteps` says every step leaves
  `dest` alone, changes it behind the prefix in a resume, or renames a verified temporary over
  it; from it come `SinkKeepsPrefix`, `SinkReplacesWhole`, `SinkSettles`. `SinkLeavesNoTemp`
  holds when `setlen` and `remove` are not among the faults, which is the finding of `sink_leak`
  from the other side.
- The step lemmas of `SinkProofs` are about `Fed`, the steps of `Sink` with any header and any
  bytes a peer may send in place of those a `Sink` by itself is given (`NextIsFed`). So they hold
  of the sink within a session as well.
- `SinkCountsOnce` would be an induction over the streams, of which the counter is the sum. It is
  carried along instead (`Counted`): there is a function c of partial sums with c[N] the counter
  and c[i+1] below c[i] by what receiver i has left, and c[joined] is the announced size, since a
  receiver that was joined has nothing left. A join moves that point by one, so that after the
  last one the counter is the size.
- `SinkKeepsPromise`: every step of `Sink` from an `IInv` state is a step of `CopyPromise` or
  stutters (`PromiseStep`).
- `TwoSinksProofs` takes `SinkProofs` twice, and its `IInv` for each sink. `IInv` says nothing of
  the destination of a fresh transfer, so the other sink's steps keep it
  (`Others1`), and what a sink puts there is its verified temporary (`Renamed1`). `CopiesNeverMix`
  assumes that both are fresh copies with a hash (`FreshOnly`, `AllHashed`: what `cp` does
  by default), `SuccessIsKept` fresh copies with or without one. With a resume neither holds; the hazard
  at `engine.rs:141` says why.
- `SessionProofs`: `SInv` adds to `IInv` the source's side (`SentInv`, `AnnouncedInv`: what the
  header says is what was read at open and hashed; `SenderInv`: a sender is inside its range, and
  at the end of it if it ended well) and the link. `AcceptedInv` says that an accepted header is
  the one that was sent. `StreamInv` says that the frames in flight on a stream are adjacent: a
  path of offsets leads through them from where the receiver is, up to where the sender is unless
  the stream was cut, and each frame holds the source's bytes of its place unless the source was
  edited. `PathAppend`, `PathTail` and `PathPrefix` say that a send, a receipt and a cut keep such
  a path. From it come `NoFalseFailures` (a receiver at the end of its range implies a sender
  there), `FreshDelivers` (through `ContentInv`: what a receiver has gone past is the source's,
  and the ranges tile the file), `DeliversAsHashed` and `Delivers`. The last two assume that equal
  hashes mean equal contents (`HashInjective`), which stands for the collision resistance of
  BLAKE3; `FreshDelivers` needs no hash. `SessionLeavesNoTemp` is `SinkLeavesNoTemp` for the sink
  of a session. TLC checked an earlier form of `SInv` on both session runs.
- `SealingProofs`: `HandshakeInv` (a stream not yet dialed has said nothing; only who holds the
  key makes a MAC, of the stream it dials; a filed connection names its stream and, with a key,
  proved it) gives `SealingSlotsAreThePeers`, `SealingSlotsDistinct` and `SealingSlotsKept`.
  `SealingInv` adds that counters stay in their ranges, which stay below the control counter
  (`FramesBound`, from `RangesProofs`), and that a header that was opened is the one the source
  of stream 0 sent; every frame opened hangs on it. From it come `SealingTypeCorrect`,
  `SealingNonceOnce`, `SealingOneSource`.
- `ProgressProofs`: `ProgressRateHeld` under N·Frame ≤ Rate·SleepCap. `RateHeld` is not
  inductive: a thread may sleep on an old count. `Pending` is: each count the clock has not
  reached has a thread of its own in `throttle`, so there are at most N of them (by the
  finiteness theorems, an injection into the threads); `SleepsLong` says a sleep that is not
  capped lasts until its count is due, and the assumption that no sleep of a payload within the
  bound is capped. `ProgressNotStarved` holds for Resumed = 0, the other side of
  `throttle_resumed`. `ProgressShownRises` rests on the reporting thread having ended before the
  final line and on its last read being below the size. `ProgressFinalOnce` adds `JoinInv` and,
  for "all is there", partial sums in the order of the joins (`Counts`), as in `SinkProofs`: c[i]
  is the counter less what the threads from i on have left to carry.
- `CpProofs`: `AgentInv` (the child's status is the agent's, the command's follows from its
  own half and the child) gives `TreeCpTrue` and `TreeCpReaps`; `TreeHalvesMeet` is a case
  analysis of the key's path, by direction and option, for any state; `TreeInv` adds that
  nothing of a file is begun before its check and that a file whose sink ended well is whole,
  whence `TreeTypeCorrect`, `TreeIsPrefix`, `TreeOneAtATime`. For the banner, `BannerReadsExactly`
  rests on the reader never being ahead of the printer: where nothing but the expected lines is
  printed, enough to stop reading is all there is (`EnoughIsAll`, for any piece size and any limit
  that holds three lines), and each line read whole is taken (`PlainLine`). `BannerReadsSafely` is
  about any lines of the shell. `StraysInv` is its induction over the lines gone past: a value of
  the shell stands only if it was in one of them (`Heard`) and none of them was the agent's of
  that word (`Unheard`), since the agent's lines come last and the last line wins. At the end the
  lines gone past are all that was read (`HeldBounds`).

Model-checked only: liveness (`Returns`, `BothEnd`, `FileArrives`, `AcceptEnds`, `Ends`,
`TreeReturns`, `BannerEnds`), which is beyond this prover.
Proved and in no run: `SettledAfterOk`, which `KeepsPromise` contains, `Balanced`, which follows
from `ClosedForm`, `SlotsKept`, a step to `SlotsDistinct`, and `Delivered` of a fresh copy without
an assumption on the hash.

## Not modelled

- Text: flags, sizes, `host:path`, addresses, ssh quoting, the making and joining of remote
  names. Functions of a string without state, and a model of them would be a transcription. Two
  names of a tree that become one (`tree.rs:59`) are listed as a hazard.
- Binding and advertising (`bind_listener`, `advertise_ip`, `cleartext_allowed`): calls of the
  system at the start of a command; that one fails is a step of `Agent`, that a port is used
  again is in `Sealing`.
- The drawing of the progress bar, wording of messages, Windows branches, scripts.
- Durability: the code never syncs, and no order is assumed of what a power loss keeps. A
  temporary left by a kill is never looked for again. A local tree that changes between the
  check of a name and the open.

## Plan

1. Core (present): ranges, sink, promise, source, session, two sinks, and the sink's proofs.
2. Around it (present): handshake, sealing, throttle, progress, agent, tree, banner, and the
   proofs of their safety.
3. Proofs of the compositions (present): two sinks, session, the final line of the progress.
4. Open: what `Agent` takes from `Session` as guards, as a refinement; an end-to-end promise for
   the session in the manner of `CopyPromise`.
