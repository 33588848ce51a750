# A verification project for Portable CLU

This directory holds TLA+ models of the run-time system of Portable CLU (version 3.7), the
configurations that check them with TLC and proofs that TLAPS checks. Paths below are paths of
the repository's `src/`. `PROJECT.json` gives for every definition the lines it stands for, and
lists runs, mutants, findings, hazards and theorems.

## 1. The system

Portable CLU compiles CLU to C and links the result with a kernel written by hand in C, a
system library and a library written in CLU. A CLU program is one Unix process with one thread.
What makes its code hard is not parallelism but *re-entry*: iterators and operation parameters
call back into the client in the middle of an operation, signal handlers run between any two
instructions, and clusters share state (`own` variables, a graph of streams, one interval timer,
one SIGCHLD counter). Errors are values, so every call has an error path.

| Component | Code | State | Operations | Hard behaviour | What makes it correct |
|---|---|---|---|---|---|
| array cluster | `code/sysasm/Opt/array.c` | a descriptor (client bounds, window) over a store | create, predict, cons, fill, set_low, trim, store, addh, addl, remh, reml, elements, copy, copy1, similar1 | the store is reused, shifted, cleared or replaced; `elements` and `copy` call out in mid-loop | the rep invariant; an abstract array is implemented; no cleared slot is visible, no removed element is kept |
| streams | `sys/clu/stream.clu` | per stream: kind, scripts, buffer, index, disp; shared: `open_streams`, a free buffer | open, puts, getc, gets, flush, reset, add/rem_script, unscript, close, abort, `_close_all` | recursion over a script graph, writes that fail half-way, a recycled buffer, a list changed while it is walked | the graph is acyclic, buffers are disjoint, the list is exact, nothing is lost by a successful close, every call returns |
| channels, text | `code/sysasm/Opt/_chan.c` | a descriptor; the buffer is the caller's | put, putb, get, getb, reset | a text that ends anywhere in a buffer, short writes, an interrupted read in the middle of a call | no text is lost, repeated or reordered; no line waits but behind a NUL; every call ends |
| channels, descriptors | `_chan.c`, `_job.c` | descriptors, `fn`, `new`, the standard channels | open, _open, pipe, socket, accept, close, abort, close_all; what `_job$cons` passes on | failure after a step that is not undone, other processes that make and remove files, a close that fails | a channel's descriptor is its own; none is lost; abort unlinks no older file; a new process gets the files it was given |
| signals | `code/libasm/Opt/_signal.c` | flags, counts, saved handlers | set, unset, get, the handler | a handler between any two steps | no occurrence is answered twice, and none is lost of a signal on hold (which fails) |
| timers | `sleep.c`, `_sleep.c`, `_set_alarm.c`, `pause.c` in `code/libasm/Opt` | SIGALRM's handler and mask, the one interval timer | sleep, alarm, pause | several users of one timer, an alarm before the wait for it | a sleep ends, and for a reason; the mask is put back; no timer kills the program |
| jobs | `code/libasm/Opt/_job.c` | children, SIGCHLD's handler | cons, cone, fork, sig, run, wait, wait0, any_wait, any_wait0 | children that die together, waits that reap other children | every death is signalled, every wait ends when it can |
| events, select, terminal modes | `code/sysasm/Opt/_event.c`, `code/libasm/Opt/_select.c`, `_chan.c` | a defer counter; none | | used by the line editor of terminals | not modelled |
| program exit | `quit_.c`, `_exit.c`, `_stop.c`, `util.c` | none | `_cleanup_`, that is `stream$_close_all` | failure while closing | see streams |
| other built-in types | `sequence.c`, `string.c`, `record.c`, `variant.c`, `oneof.c`, `int.c`, `real.c`, `_bytevec.c` ... | values | constructors, selectors | none beyond arithmetic limits | functional |
| instantiation | `new_parm_util.c`, `new_selector.c`, `util.c` | tables of instantiated operations | find or make an instance | recursion among instances | one instance per set of parameters |
| library | `lib/clu/*.clu` | tables, heaps, bigints, string streams | sequential | none concurrent | functional |
| compiler, driver, debugger, editor support | `cmpclu`, `code/cmp`, `driver`, `debug`, `cludent`, `elisp`, `emacs` | batch or interactive tools | | | not in scope |
| garbage collector | `code/gc-7.2` | | | | vendored, not in scope |

How they interact: a stream writes through a channel, into a byte vector the stream owns and the
channel's operation fills (`_chan$put` returns the new index), and reads in the same way.
`stream$open_streams` is an `array[stream]`: that `remh` and `store` do what the abstract array
says is proved for the array cluster and assumed by the stream model. Exit (`quit_`, `_stop`)
calls `_cleanup_`, which calls `stream$_close_all`. What a stream reads is written to its script
streams. Signals, alarms, sleeps and jobs meet in signal handlers, the signal mask and the one
timer; jobs get the channels' descriptors.

## 2. Plan

Order: what every program depends on first (arrays, output), then input and descriptors, then
what interrupts a program.

| Step | Modules | State |
|---|---|---|
| 1 | `AbstractArray`, `CluArray`, `MCArray`; `CluArrayProofs`, `CluArrayRefinement` | done, proved |
| 2 | `Streams`, `MCStreams`; `StreamsProofs` | done, proved |
| 3 | the text of a stream: `AbstractReader`, `InputStream`, `OutputStream`, `Scripted`, `StringInput` (they share `StreamText`); `StreamTextProofs`, `ScriptedProofs`, `StringInputProofs` | done, proved |
| 4 | signals, timers and jobs of one process: `UnixProcess`, `Signals`, `Timers`, `Jobs`, composed by `Program`; `ProgramProofs` | done, proved |
| 5 | `Descriptors`, `MCDescriptors`; `DescriptorsProofs` | done, proved |
| 6 | the line editor of terminals with `_event`; instantiation tables; bounded checks of `heap` and `table` | if room |

How they are composed: `Scripted` EXTENDS `InputStream` and `OutputStream` and passes what the one
gives to the other; `Program` EXTENDS `Signals`, `Timers` and `Jobs`, which all extend
`UnixProcess`, the part of the operating system they share. `Streams` is the many streams without
their text, `InputStream` and `OutputStream` one stream with it.

Runs: one to three passing runs per component, with bounds just large enough for each way through
the code, and a run for each disagreement with a document that a client meets first; the others are
named in the sections below. Theorems: the invariants of each
component, by one inductive invariant each, and refinement where there is an abstract module.

## 3. The array model

`CluArray` keeps one array `a` (the fields of `CLU_array`, with the store's words as `data`),
the activation `iter` of `elements` and the activation `cp` of `copy`. Every operation of
`array.c` that changes an array is one action named after it (`addh` is three, one for each
branch: in place, shifted, grown, with the tests of the code as guards). The client acts between
calls, in the body of a `for` over `elements`, and in a *strange* `t$copy`; there it may do
anything to the same array except replace the variable. Two activations at once are not modelled.
An out-of-bounds load yields any word; after an out-of-bounds store (`cp.wild`) nothing more is
said. `AbstractArray` is what the manual (`elisp/CLU-DOC`) says: a function on an interval of
integers. Under the refinement mapping `at[i]` is `data[i - ext_low + int_low]`. One operation is
not the manual's: `trim` to another low bound keeps the first elements and gives them new indexes,
where the manual keeps the elements that have the indexes. `ImplementsArray` names that case as an
alternative of its own (`TrimRenumbers`), and run `array_trim` shows it.

| Property | What it says |
|---|---|
| `RepInv` | `check_RI` of the DEBUG build, for the array and for the one `copy` is making |
| `WindowLive` | a client never sees a cleared slot |
| `ImplementsArray` | every step is one of `AbstractArray`, or `TrimRenumbers` |
| `OnlyTrimRetains` | slots outside the window stay clear, except after `trim` |
| `CopyFaithful` | `copy` copies bounds and elements if `t$copy` leaves the array alone |
| `ElementsYieldsFetch` | `elements` yields `a[index]` while no operation has moved the window under the index |

`ElementsYieldsFetch` has a premise because the code has a limit: `addl` in a loop body gives the
array a new store, and the iterator then reads one slot off.

Two runs show disagreements with `elisp/CLU-DOC`. `array_elements`: `elements`, which the manual
defines as yielding `a[i]` for each i, yields other elements once its body has moved the window
(`ElementsYieldsItem`). `array_trim`: `trim(a, 2, 2)` of `[1: 1,2,3,4,5]` is `[2: 2,3]` in the manual
and `[2: 1,2]` in the code (`TrimAsPromised`). `trim` also signals bounds when the size is larger than
the array's, which the manual allows, and accepts a low bound beyond the high one, which it does not;
the abstract array does not see which call an outcome is of, so no property says that.

Plain in the code: `copy` runs past its result when `t$copy` extends the original (`cp.wild`), though
the manual says that copying is defined even then; `similar` and `similar1`, which change nothing and are not modelled, index the
second store with the first one's slot; `fill` compares `low + size`, an index, with `MAX_ARR_SIZE`,
a size (`OpFill` does so too).

Bounds: two elements, indexes 0 to 2, `MAX_ARR_SIZE` 2 and `MaxPad` 2. With these a store is at
most four slots and each branch of `addh` happens: a window slides two slots up by `reml` and is
then shifted down or moved to a new store; `fill` and `predict` meet the limit; copies are of
slid windows. Elements are symmetric. The real limit is `MAX_ARR_INDEX/2`: additions of
indexes do not overflow in the model.

## 4. The stream model

`Streams` keeps the fields of a stream as functions on `Stream` (names as in `stream.clu`), the
`own` variables as `opens` and `freebuf`, and the running call as `call`. `flush` and `puts` are
recursive in the code; here the streams still to visit are a list and one is visited per step,
depth first as in the code, so that a cycle of scripts shows as a call that never returns. Any
write or close of a channel may fail. The parts of `_chan$put` and `_chan$putb` that decide when
the buffer is written, what stays in it and when bounds is signalled are `Written`, `PutIndex` and
the outcomes. `tty_put` has outcomes of its own (`TtyPut`, and `TtyOutcomes` with the write it makes
when the image mode changes): two of its three writes are outside its `resignal`, so that they end
the call by `failure`. The two failures that stream.clu does not mean to signal are told apart:
`failure_bounds` and `failure_not_possible`.

Abstractions, each by name:
- a string is one character or a newline; `puts` writes one, so a chunk boundary inside one
  string is not seen here (`OutputStream` sees it). `putc` is the same operation then;
- `get_prims` makes both permanent streams at once, the model makes them one by one;
- `gets` reads at most `BvecSize + 1` characters (a bound); `edit`, `rubout`,
  display and the image mode itself are not modelled (that it may change before any `puts` is),
  nor are prompts and dates; input buffers and line numbers are in `InputStream`;
- a short write is a failed write; what it leaves behind is in `OutputStream`.

| Property | What it says |
|---|---|
| `Acyclic` | no stream is its own direct or indirect script |
| `ScriptingCached` | the flag `scripting` agrees with the scripts |
| `BuffersDistinct` | a recycled buffer is never used twice |
| `OpensExact` | `open_streams` holds each open stream once and nothing else, during `_close_all` too |
| `CloseDrains` | a successful close leaves nothing in the buffer of the stream or of any that gets its text |
| `RoomToPut` | there is room for a character whenever `_chan$put` needs it |
| `CloseAllVisits` | `_close_all` ends when every stream still open has been tried, though each close moves another into its place, or by a failure; then the rest stays as it is |
| `CallsReturn` | every call returns |

`streams_files` has three file streams, so a script graph can be a chain or share a target,
cycles of length two and three are attempted, and a swap in `opens` moves a third stream.
`streams_terminal` has two streams, one permanent, in all six modes: echo, unbuffered output,
streams that cannot be closed. `BvecSize` 2 is the least size at which a buffer can be empty,
partly full and full. Permanent streams are left out of the symmetric run, since they break the
symmetry.

One run shows a disagreement with `lib/stream.spc`, which knows no `failure` of puts and flush
(`NoFailure`). `streams_failure`: echo into a full terminal buffer makes the next output end in
`failure_bounds`. So does, as `failure_not_possible`, a failed write on an unbuffered terminal, after
`tty_put` has kept the text in the buffer; both are outcomes in `streams_terminal`. A third
disagreement is plain in the code: `flush` resignals the `not_possible` of a script stream
(stream.clu:628-632), which add_script says is ignored.

Fairness: weak fairness of `Step`, the next step of the call that runs. The process has one
thread, so nothing else runs while a call does, and the model lets each channel operation end
(with or without success); a `write` that blocks for ever is outside it. Nothing is assumed of
the client. Deadlock is checked in every run.

## 5. The text of a stream

These modules follow every character. `InputStream` is the `rbuf` of `stream.clu` with `_chan$get`,
`_chan$getb` and `readit`; `OutputStream` is the `wbuf` with `_chan$put`, `put_doit` and `putb`;
`Scripted` is the first with the second as its script; `StringInput` is the `sbuf` of
`create_input`. Variables have the names of the fields (`pos` is the file's own position). `getc`,
`peekc` and `empty` need at most one read and are one action. `gets` and `getl` are a call with
one step per read: `low` and `count` are get's local variables, `temp` what it has collected. A
`puts` is a call with one step per piece of the string. `rb` and `wb` get their new indexes only
when the call returns, as in the code, where they are the results of the channel's operation.

A read gives any number of characters from one to a bufferful, or fails, between any two steps. A
write writes everything, or any part of it and fails. The channel that is read is a file, a pipe or,
when the primary output goes elsewhere, a terminal (`source`), which differ in `reset`: a file is
read again from its start; a pipe cannot be positioned, so that reset signals not_possible and
changes nothing; a terminal is not positioned at all (`_chan$reset` asks only channels with `typ`
above 1) and reading goes on behind the text that was in the buffer. Terminators are sets of
characters, as the code has treated them since 1992. That the buffer is read over while `rb.index`
and `rb.max` stand is why a `get` that fails in the middle (`GetsFails`) spoils the stream; `torn`
says so. `wtorn` says the same of the two failures that make an output stream write text twice or
garbled: a write of a part of the buffered text, and a `puts` that fails after its first piece when
there was text before it. Properties hold up to there, and the code has nothing to detect it with.

`AbstractReader` is `lib/stream.spc` for a client that reads: text is given once and in order. Under
the mapping `left` is what is still in the buffer or in the file, and in a call what it has
collected comes first; after `torn` nothing is promised until `reset`. `StringInput` implements the
same module with the string and its added newline for the text. There `extra` is the exception: at
the end of the string `str_get` adds a newline for every terminator without one, also when the
string ends in a newline.

| Property | Run | What it says |
|---|---|---|
| `ReadsInOrder` | `text_input` | refinement of `AbstractReader!Spec`, whatever lengths the reads have |
| `LineNumber` | `text_input` | the line number is one more than the newlines given since the last reset that succeeded |
| `WritesInOrder` | `text_script` | file and buffer hold what `puts` took, once and in order, through failures but the two |
| `LinesGoOut` | `text_script` | a newline waits in the buffer only behind a NUL, and there is room in it |
| `ScriptExact` | `text_script` | the script has what the client was given, getl's newlines too |
| `CallsAdvance` | `text_script` | each step of a call brings it nearer to its end, so that the loops of get and put end |
| `StringInOrder`, `StringLine` | `string_input` | the same for strings |

A comment of `_chan$put` says more than `LinesGoOut` ("force writes for newlines in s"): put looks for
the newline with C's `index`, which stops at a NUL (`ToNewline`), so that a line behind a NUL stays in
the buffer until something else writes it out.

Bounds: texts of four characters and a buffer of two (`text_input`) or three (`text_script`, where a
NUL, a character and a newline have to fit), so that a text spans two buffers, a terminator falls on
the first and last place of a buffer and on the end of the file, and a piece ends at a newline, at
the end of the buffer, at both, and at a newline that is not seen. Two terminators and their union in `text_input` go
through both loops of `_chan$get`. One reset in `text_input` and `string_input`, none with a script;
`MaxWritten` stops flushes that fail half-way, which would make the file grow for ever.

No fairness is assumed. That calls end is said by steps: `CallsAdvance` gives a call a stage and the
text still to be read or written, and each step lowers the one or keeps it and lowers the other,
also a step that fails. A call that could take no step would be a deadlock, which every run checks.

## 6. Signals, timers and jobs

`UnixProcess` has what the operating system keeps for a process: handlers, mask, pending signals,
and `call`, the library procedure that runs with its place in the code and its local variables. A
pending signal that is not blocked is delivered before the next step of the thread (`Deliver`) and
its handler runs to its end, since handlers are installed with full masks or do no more than count.
`Signals`, `Timers` and `Jobs` are the three clusters; each system call and each access of a shared
variable is a step of its own, so that a signal may come between any two. `Program` is a client that
calls them all in any order.

| Property | What it says |
|---|---|
| `CountsHonest` | get never answers more occurrences than there were |
| `MaskRestored` | no call leaves a signal blocked that the client has not asked to be put on hold (`asked`); `left` is what a `_sleep` of negative length has left |
| `AlarmNeverKills` | a timer that expires late finds a handler, unless the client has unset SIGALRM |
| `DeathNoticed` | a job that has died is pending as a signal until a handler has run |
| `SleepLasts` | a sleep ends by its timer, another signal, or an alarm that was set before it |
| `SleepWakes` | a sleep ends, wherever in it the alarm falls |
| `WaitReturns`, `Wait0Returns` | a wait ends once its job is dead or none is left; `wait0` always |

`signal_hold` shows that `set` with `hold` TRUE does not put the signal on hold (`lib/_signal.spc`:
"place signal on hold if hold = TRUE"): it tests `~hold.tf` with the bitwise `~`, which is never zero.
The handler may therefore run between the two statements of `get`, the read of the count and its
reset, and the occurrence is lost to a client that has done what it can against that
(`HeldNotLost`). Without hold the same happens, and the documents say nothing of it. `MaskRestored` is
stated so that it also holds of a `set` that does hold: it allows what `asked` has.

What the model keeps as it is in the code, and a reader of the `.spc` files would not expect: a
second `set` saves the cluster's own handler (the same `~`); `unset` acts when *any* signal is set; a
`_sleep` of negative length returns with SIGALRM blocked; every wait but `wait0` calls `wait`, so that
`any_wait0` blocks (the specification says "without hanging") and none hears of a job that stopped.

Left out: `_jobOPdead_cnt`, which counts handler runs, not deaths (children that die together send
one signal); `set_message`; process groups; signals other than the two, which would be one more
counted signal. `_sleep.c:50` gives `millis % 1000` as microseconds; lengths of time are not in the
model. `sigpause` is taken with the BSD meaning its calls have, a mask.

Bounds: SIGALRM and SIGCHLD, two jobs, so that one may be reaped by the other's wait and both may
die together; SIGALRM counted by the client, at most once more than it has been asked for
(`MaxOwed`). `signal_hold` counts both signals. A program that a signal has killed stops, which
is why deadlock is not checked in these two runs.

Fairness: weak fairness of `CallSteps` (the process gets the processor), `Deliver` (the system
delivers an unblocked signal) and `Rings` (an armed timer expires). That a job dies, that the client
calls anything or signals anything is not assumed.

## 7. Descriptors

`Descriptors` has the descriptor table, the names that have a file (`files`), and of each channel the
fields `rd`, `wr`, `fn` and `new`. An open file is named by the channel it was opened for, which is
what `Owned` compares. `open` and `_open` are a call of two steps: `access`, when the flags call for
it (`Asks`), and the rest; each failure of the rest is an action. `open` has the flags of its five
modes (`ModeFlags`), `_open` any the client gives (`AnyFlags`). Other processes make and remove files
at any time, also between the two steps. `accept` takes a channel that may be a socket, and fails
where the code can. The new process of `_job$cons` is a function of the state (`Child`): three
`dup2`, one after the other, then close-on-exec.

Two variables are for the properties only. `elders` are the channels that are new though the file
their name has was there before they were opened; a file that another process removes is no
elder's any more. `unasked` are the new channels that were opened without `access`.

| Property | What it says |
|---|---|
| `Owned` | an open channel's number refers to the file it was opened for, except after `close_all` or a close that failed |
| `Accounted` | a step loses a descriptor only if it signals failure, or ends an `_open` with O_RDONLY and another flag |
| `ChildFiles` | the new process has the three files it was given, unless ERO is the old output and PRO is not |
| `ChildKeeps` | channels to save are open in it, and with none to save nothing from 3 on is |
| `AbortSpares` | `abort` unlinks no file that is older than the channel, unless `_open` was told neither to make nor to truncate it |

The exceptions are what the code does. `strayed` are the channels with a number that may no longer
be theirs: a close that fails leaves the number, and Linux has released it. Descriptors are lost when
`_fixup_file_name` fails in open, when `accept` fails after the system's accept, and when `_open`
opens neither to read nor to write; `Accounted` says that there is no fourth way: every call that
returns or signals not_possible has given each descriptor to a channel or closed it, and no channel
forgets a number that is open. The premise `Straight` of `ChildFiles` is there because `dup2(pro, 1)`
comes before `dup2(ero, 2)`: descriptor 1 cannot be the source of the third when it was the target of
the second.

Two of these exceptions are not what `lib/_chan.spc` leads one to expect. A file opened by `_open` with
O_WRONLY or O_RDWR alone is taken for new, and `abort` unlinks it ("discard contents and file if new").
And `_open` with O_RDONLY and any other flag gives a channel that cannot be read ("flags are as in Unix
open system call"), since the code tests `!flags & 1` for `!(flags & 1)`.

What `AbortSpares` does not promise: that the file is the channel's own. Abort unlinks by name, and
another process may have made the file after `access`, or put its own in the place of the channel's.

Abstractions: 0, 1 and 2 are open from the start and stay so; pipes and sockets have a name that is
not followed (`accept` marks its channel new, and `abort` of it unlinks `/dev/socket`); `socketpair`,
which calls the system's with one argument of four and falls through to its error exit after
success (`_chan.c:378`), is not modelled; a process that `fork` makes is not followed. Flags other
than the four of `Flag` do with O_RDONLY what O_TRUNC does, and nothing with the others.

Bounds: three channels, one name, descriptors 0 to 4: two channels hold all there are while a third
is refused or gets the number a close has released, a pipe needs both, and a number is used again.
The channels are symmetric and all properties are safety properties.

## 8. Proofs

| Module | Theorems | Argument |
|---|---|---|
| `CluArrayProofs` | `TypeCorrect`, `RepInvariance`, `WindowHoldsElements`, `SlackStaysClear`, `ElementsYield`, `CopyIsFaithful` | `IInv == TypeOK /\ RepInv /\ WindowLive`: none of the three is inductive without the others (a window is live after `remh` only because it lies in the store, and the shift of `addh` keeps the store's slots only because the descriptor is well formed); one lemma per helper (`Moved`, `Put`, `Prepended`, ...), one step per action; `CopyInv` on top of it |
| `CluArrayRefinement` | `Implements` | initial states map to initial states; each action maps to the abstract one of its name, to a stutter or, a trim to another low bound, to `TrimRenumbers`, from the invariant above |
| `StreamsProofs` | `TypeCorrect`, `NoScriptCycles`, `ScriptingIsCached`, `BuffersAreDistinct`, `OpensAreExact`, `RoomIsLeft`, `CloseIsDrained`, `CloseAllVisitsAll` | `IInv == GraphOK /\ StoreOK /\ TextOK /\ CallOK`; `LoopInv == IInv /\ DrainsOK /\ VisitsOK` for the last two |
| `StreamTextProofs` | none, lemmas only | prefixes, `SubSeq`, `\o` and the number of newlines in a text |
| `ScriptedProofs` | `LinesCounted`, `InputReadsInOrder`, `WrittenInOrder`, `LinesAreOut`, `ScriptIsExact`, `CallsAlwaysAdvance` | `InputInv` for the stream that is read (proved of `InputSpec`), `OutputInv` for the one that is written, `ScriptedInv` for the two together |
| `StringInputProofs` | `StringLinesCounted`, `StringReadsInOrder` | `StringInv`; the step of each action to one of `AbstractReader` |
| `ProgramProofs` | `TypeCorrect`, `CountsAreHonest`, `MasksAreRestored`, `AlarmsNeverKill`, `DeathsAreNoticed`, `SleepsLast` | an `IInv` with a part for each thing the calls share; one lemma per action |
| `DescriptorsProofs` | `TypeCorrect`, `ChannelsOwn`, `NoneIsLost`, `AbortsSpare`, `StandardStays`, `ChildrenGetTheirs`, `ChildrenKeepTheirs` | `IInv` with `OneNumber`, `CallOK`, `NewOK`; that a step loses no descriptor (`NoneLost`) is proved with it, action by action; `StandardOK` on top of it; what a child gets follows from both |

Why the stream invariants need strengthening: that buffers are distinct is preserved by open only
if a stream without a channel has none; room is left only if a stream that is not a file or a
terminal has no text, so that one that is opened starts empty; `OpensExact` is preserved by the swap only
because it says that nothing is listed twice; and the call's own fields say that `gets` runs on a
terminal only. `Acyclic` is stated by sets (every non-empty set of streams has one without
scripts in it) and not by paths, which makes its step a set argument: an edge from s to t can
only close a cycle if s is reached from t, and `add_script` refuses that. `ReachBy` is the least
closed set, so no induction is needed.

`CloseDrains` is about the end of a call that has visited a whole graph, so the invariant must say
what holds half-way. `DrainsOK`: a stream that gets the text of the one being closed either has
nothing pending or is reached from a stream the call has still to visit. Flushing one stream empties
it and puts its scripts in the work, and whatever is reached from a stream is it or is reached from
one of its scripts (lemma `ReachSplit`), so the step keeps it; when the work is empty, all are
flushed. `VisitsOK` says that the streams before the place of `_close_all` have been tried and that
the one it is at stands in that place until it goes; then the last stream takes the place, and those
before keep theirs (lemma `SwapBefore`), since no stream is listed twice.

Arrays: each helper that makes a store is proved to leave every slot outside its window clear when
the old one was (`Clear` and the lemmas after it), which gives `OnlyTrimRetains`. `CopyOK` says that
at every call of `t$copy` the array being made has the bounds of the original, its window at slot 0,
and the elements copied so far.

The text modules are where the argument is about sequences of any length. Of a stream that is read
`InputInv` says what a `gets` in progress has: no terminator in what it has collected, and, before
its first read, the rest of the buffer as the place to search; and that a `getl` finds a newline, or
an empty buffer, after its gets. With it each step maps to `AbstractReader`: a return of gets gives
the longest prefix without a terminator of what is in memory and unread, whatever pieces the reads
came in (`InMemory \o Unread` is the abstract `left`). `OutputInv` strengthens `WritesInOrder` to
the middle of a `puts`, where the buffer is in use up to `put.high` and `wb.index` is old: room for a
character, no newline waiting but behind a NUL, nothing left in an unbuffered stream. In `ScriptedInv` the two run
together, one at a time (`CallsOK`), and `AllAccepted` accounts for the text: what the script has
accepted, then what is on its way to it, is what the client was given. `StringInv` says of a string
stream when the added newline is due (`PlaceOK`). `CallsAlwaysAdvance` needs the invariant only for the
kinds of the variables and for the one fact that a piece that is written is not empty (lemma
`PieceShortens`): `OutputInv` has room in the buffer for a character.

`Newlines` is the cardinality of a set of places rather than a recursion, so that it can be reasoned
about. `Gets` of `AbstractReader` may end at a newline whatever `Term` is: a `getl` begins with it.

The program's invariant follows the variables that several calls change. `MaskOK` says, for each
place of sleep and pause, where the mask is and where the one to be put back is kept: that they put
back the right one shows only in the middle. `AlarmOK` says that a handler is there not only while an
alarm may come but also in `_set_alarm` between `sigaction` and `setitimer`; `DeathOK` says the same of
SIGCHLD from `dead_set` on. `TimerOK` is what makes a sleep last: no timer of a sleep outlives it, an
alarm is overwritten when a sleep arms the timer, and a call begins with nothing pending (lemma
`Calm`), so what ends a sleep has come in it.

For descriptors, `Owned` is kept by open because the lowest free number (lemma `LowestIsFree`; that
the set has a least element is from the library's well-founded induction) is held by no channel that
has not strayed. `AbortSpares` needs that an elder was not asked for (`NewOK`), and this that an open
in progress is new and has an older file only when it has not called `access` (`CallOK`); another
process that removes the file in between puts an end to both. `Accounted` is a property of steps:
`NoneLost` is shown of each action but the three that may lose a descriptor, and of these what the
property excepts. `ChildFiles` needs that no channel has
0, 1 or 2 (`StandardOK`): the first two `dup2` can then overwrite the source of the third only when it
is 1.

Assumptions are the named ASSUMEs only: `ArrayAssumption` (the cleared word is no element, limits
are naturals), `StreamAssumption` (permanent streams are streams, the buffer is not empty, the
"none" values are no members), `SigAssumption`, `KidAssumption` and `ProgramAssumption` (SIGALRM and
SIGCHLD are two signals, jobs are positive numbers, the client counts signals),
`TextAssumption` (a newline is a character, terminators are not empty, a buffer has room),
`ResetsAssumption` and `WrittenAssumption` (the bounds are naturals, the sources are of the three
kinds, a NUL is not a newline), `BlankAssumption` (the bound is a natural, and the blank that stands
for "no newline added" is no character), `DescriptorAssumption` (there are more than three
descriptors) and `ChanAssumption` (the word for a free descriptor is no channel, and the name of
pipes and sockets is no file's). TLC evaluates them on every run of the module.

Every invariant, action property and refinement that a passing run checks is stated by a theorem.
Only model-checked are the liveness properties (`CallsReturn` of the streams, `SleepWakes`, `WaitReturns`,
`Wait0Returns`), which are out of the prover's reach, as ENABLED is. The theorems hold for every value
of the bounds `MaxText`, `MaxResets`, `MaxWritten` and `MaxOwed`, so that these limit the runs and not
the proofs. A bound written into an action (`gets` of `Streams` echoes at most `BvecSize + 1`
characters) limits both.

## 9. Mutants

A definition whose name ends in `_Mutant` is the definition after it with a plausible bug in the
code it models: a store that keeps its old size, a flag cleared too early, a loop index that
goes on after a swap. No specification uses one. Each is substituted for the real definition to
see that a run would notice; every property of every passing run has one.

## 10. Not modelled

Events, select and the modes of terminals, which serve the line editor of `stream.clu` (edit, rubout,
display); the editor itself. The functional types of the kernel and the library have no protocol.
The compiler, the driver, the debugger and the editor tools are batch or interactive programs around
the system. The garbage collector is third-party. Most of the repository's lines are the C that the
compiler has made of itself and of the library (`code/cmp`, `code/sysclu`, `code/lib`): the models are
of their CLU sources, so that the share of all lines that `map` names stays small.

In the array cluster: `encode` and the table of `decode`, `print`, `equal`, and the
iterator `indexes`, none of which changes an array. In the stream cluster: editing and display of terminal lines.
