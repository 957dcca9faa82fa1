# Verification of systems_and_networks

TLA+ models of the programs under `src/`, TLC runs that check them on small
instances, and TLAPS proofs for every value of the constants.

## 1. Inventory

The repository holds four course projects and four sets of exercises. They do not
call each other; the only programs that interact are the two ends of `tcp`, and the
dns client with a name server that is not part of the repository.

| Component | State it keeps | Operations | What is hard | What makes it correct |
|---|---|---|---|---|
| `tcp` sender (`3600send.c`) | `sequence`, `last_acked_packet`, `window`, `packet_lengths`, `done` | load the window, send it, collect acknowledgements for about 1 s, final packet | loss, duplication, reordering; slots reused modulo `MAX_WINDOW_SIZE`; end of file in a slot | every unacknowledged packet can be sent again; exit 0 means delivered; it ends |
| `tcp` receiver (`3600recv.c`) | `sequence`, `all_data`, `data_lengths`, one receive buffer | in-order write, out-of-order store, drain, acknowledge, 30 s timeout | late and duplicated packets sharing slots; a buffer converted in place twice | stdout is a prefix of the sender's stdin; no false acknowledgement |
| `tcp` wire format (`3600sendrecv.c/.h`) | – | `make_header`, `get_header`, `get_data` | byte order, conversion in place | |
| filesystem (`3600fs.c`, `3600mkfs.c`, `disk.c`) | VCB, 100 dirents, FAT, data blocks of one image | mount, create, read, write, truncate, delete, rename, chmod, chown, utimens, format | several block writes per operation with crashes between them; chains; full disk and full directory | chains of different files are disjoint, end, and own allocated blocks; contents are what was written |
| shell (`3600sh.c`) | loop-local flags, descriptors, one argument array | prompt, parse, fork, redirect, wait | state carried from one command to the next, parse errors, uninitialised pointers, children that end at any time | a command runs with its own redirections and its own `&`; foreground programs are waited for |
| dns client (`3600dns.c`) | the query, a socket | build a query, send it once, wait 5 s for one datagram, decode it, print | names that end in pointers; one query without retry; late, repeated and foreign datagrams | what it prints is the server's answer to its own question; it ends |
| ordered list (`cp3-problem2.c`) | a doubly linked list of ints and strings | add, overwrite, delete, look up, print, delete all | pointers at both ends; elements that are never freed, memory that is used again; `malloc` failing halfway | it is a map, printed in order, linked both ways |
| sorted list (`cp4-problem3.c`) | a singly linked list of ints | add, print | pointers at the ends, duplicates | it is sorted and loses nothing |
| employees (`cp2-problem2.c`) | an array of ten employees and how many are in use | add, remove, salary | shifting a full array, which reason to report, unsigned salaries as ints | a set without duplicates; every answer is true |
| number names (`cp3-problem1.c`) | – | an int in English | groups of zeros, the smallest int | the name, read, is the int |
| other exercises | – | print one result of their arguments | – | |
| `tcp/run`, `tcp/test`, `*/test` | – | drive the programs and compare | – | source of the properties |

How the parts of `tcp` interact: `3600send` and `3600recv` share nothing but UDP
datagrams. The sender sends data headers with a sequence number, the receiver
answers each datagram with MAGIC with an acknowledgement that names the *next*
sequence number it expects, the sender ends with five `eof` headers, and the
receiver exits when it has handled one. Nothing answers the loss of all five.

The hazards this code is exposed to are listed, at their lines, in
`PROJECT.json` under `hazards`, with the properties that would catch them.

How the parts of the filesystem interact: `3600mkfs` writes the image, `3600fs` keeps
nothing in memory but a copy of the VCB, and each handler reads and writes whole
blocks with `dread` and `dwrite`. The kernel calls the handlers one at a time, asks
`vfs_getattr` before most of them, and remembers the answer for a second.

## 2. `tcp`: modules and code

| Module | Models | Correspondence |
|---|---|---|
| `Datagrams` | `3600sendrecv.h`, `3600sendrecv.c` | constants, unsigned arithmetic, headers, the receive buffer. `ByteSwap` is `htonl`/`ntohl`: any involution on words. A payload is the number of the block of stdin it carries. |
| `Network` | UDP (external) | sets of datagrams in flight: unordered, duplicated at will, lost when sent. `quiet` counts the sender's rounds since the receiver last got a datagram; it is how the 30 s are compared with the 1 s rounds. |
| `Sender` | `3600send.c` | `sndPc` is the position in `main`: "load" is `load_packets_into_window` (one action per turn of its loop), "send" is `send_packets` (one action per `sendto`), "acks" is `receive_acknowledgements`, "final" is `send_final_packet`. |
| `Receiver` | `3600recv.c` | `rcvPc`: "select" is `receive_packet`, "drain" the inner loop of `write_data`, "ack" the answer in `handle_received_packet`. |
| `Transfer` | both and the network | `Init`, `Next`, fairness, all properties, the inductive invariant and the refinement mapping. |
| `ReliableStream` | nothing of the code | the abstract specification: blocks reach the output once each and in order, and no program reports success before they are all there. |
| `MCTransfer`, `MCCleanTransfer` | – | byte swaps for TLC; the second assumes `CleanStream`. |
| `TransferProofs`, `StreamProofs` | – | the theorems. |

What is abstracted, and why it is safe:

* A block of data is its number; `packet_lengths` is 0 or positive. Only the
  receiver's byte-swapped length (below) makes a length matter, and then the
  bytes are `Garbage`, which is no block.
* The five `eof` headers are one element of a set that may be received twice; it
  is lost when all five are.
* Words are `0 .. MaxWord` and wrap; the runs and proofs assume
  `Blocks + WindowSize + 2 <= MaxWord`, so no sequence number wraps.
* `select` on Linux counts its timeout down, so one round of
  `receive_acknowledgements` ends after a second whatever arrives; on a system
  that leaves the timeout alone it would end after a silent second. Reading
  stdin does not stall (a stall longer than 30 s is another way to the receiver's
  timeout, and adds no other state).
* `malloc` does not return MAGIC in the receiver's buffer.
* Exits of both programs on socket errors other than the null pointer's EFAULT
  are left out, as are the argument errors before the socket is open.

### The zero-length datagram

`send_packets` starts at `last_acked_packet`, which is 0 in the first rounds, and
slot 0 has length 0 until packet `MAX_WINDOW_SIZE` exists. So every input shorter
than the window begins with a datagram of no bytes. The receiver's `recvfrom` then
fills nothing, its one buffer still holds the previous packet in host order, and
`get_header` swaps the fields *back*. `write_data` then sees a packet with a huge
sequence number and a wrong length, and stores it in the slot of that number.

`CleanStream` says when this is harmless: the input is at least as long as the
window, or the swapped numbers fall on slots (with an overrun of `Spill`) that the
stream never reaches. With the real `htonl` and 2000 slots, this is the case for
inputs of up to 50 packets. `Integrity` and the theorems on top of it assume it;
`MCSwapped.cfg` shows what happens without (finding 4).

### Properties

* `OutputIsPrefix`, `AckedIsWritten`, `SuccessMeansDelivered`: the end-to-end
  promises, under any reordering, duplication and loss.
* `IgnoredIsHeld`, `KeptUntilWritten`: the receiver's slots. A packet is dropped
  as IGNORED only when its block is written or already kept, and a kept block is
  not replaced before it is written. They hold because the sender may be only one
  window ahead of an acknowledgement; one more (the mutant `WindowOpenTwice`) and
  two packets in flight share a slot.
* `UnackedInWindow`, `SenderNeverFails`: the sender's slots. They hold only for
  inputs shorter than the window, whatever happens to the receiver's memory; beyond
  that finding 1 applies.
* `SenderEnds`, `ReceiverEnds`: termination.
* `ImplementsStream`: `Transfer` implements `ReliableStream` under the mapping
  that keeps `output` and maps the two program counters to exit statuses.

### Runs

| Run | Instance | Shows |
|---|---|---|
| `short_stream` | 2 blocks, 7 slots, `SwapToTail`, overrun 1, patience 1 | with zero-length datagrams in play: `TransferInv`, from which the end-to-end properties are proved (section 7), the sender's window, and the reliable stream. Under `FairSpec` the receiver ends, by success or by giving up after its timeout, and the sender ends unless the receiver gave up |
| `long_stream` | 5 blocks, 2 slots | all safety properties with each slot used three times and the sender's own losses; 5 blocks leave room for one in order, one kept, one late, and a duplicate of each |
| `livelock` | the smallest instance | finding 2 below |

Bounds: `Blocks`, `WindowSize`, `MaxWord`, `Spill`, `Patience` are the only ones.
The sets in flight are bounded by the number of different datagrams, retries are
unbounded. Deadlock is not checked because both programs end. `MCShuffled.cfg`, which
belongs to no run, checks the sender's window on 3 blocks, 4 slots and swapped digits,
where the receiver's memory is overrun; that case is part of what `ShortStreamKept` and
`ShortStreamSends` prove.

`MCTransfer` gives two swaps. `SwapDigits` exchanges the two octal digits of a word
and mixes the swapped numbers into the slots of the stream, as `htonl` does on
inputs of more than 50 packets. `SwapToTail` sends them to the last slots, as
`htonl` does below that.

### Fairness

`FairSpec` asks for: both loops keep running (weak fairness of the sender's steps,
of leaving a round of acknowledgements, of the receiver's own steps and of its
timeout); a packet that is sent for ever is not lost for ever, and what is in
flight for ever is received at last, once as its last copy, when the receiver is
able to again and again (strong fairness for each datagram of the stream, for the
answer, and for each acknowledgement). The operating system schedules two single
threads and `select` has a timeout, which is the first part; the second is what
any retransmission protocol asks of a network that loses only some of its packets.

### Findings

1. The window admits one packet more than it has slots
   (`3600send.c:119`): the acknowledgement names the next packet, so from the
   second round on `sequence - last_acked_packet < MAX_WINDOW_SIZE + 1` lets
   packet `last_acked_packet + MAX_WINDOW_SIZE` replace packet
   `last_acked_packet`, which is not acknowledged.
2. `livelock` – that packet is never sent again; with more than two windows of
   input the transfer never ends, without any loss.
3. When the input ends there instead, the slot of the first
   unacknowledged packet gets the null pointer and keeps its length; `sendto`
   fails and the sender exits with 1.
   1 and 3 are seen with `MCLivelock.cfg` and `WindowSize = 2`: TLC finds
   `UnackedInWindow` violated for 3 blocks, `SenderNeverFails` for 2.
4. The zero-length datagram corrupts the output of inputs between 51 and 1999
   packets (`3600sendrecv.c:93`): with `MCSwapped.cfg`, which is kept for this and
   belongs to no run, TLC finds `OutputIsPrefix` violated.

## 3. Filesystem: modules and code

| Module | Models | Correspondence |
|---|---|---|
| `FatDisk` | `3600fs.h`, `3600mkfs.c`, `savedirent`, `getfatent`, `savefatent`, `dwrite` | `dirents` (blocks 1 to 100), `fat` (the FAT blocks counted through, so that an entry and its data block have one number), `data`. `Format` is the image `mkfs` leaves. |
| `FatFiles` | the handlers of `3600fs.c` | `call` holds the local variables of the handler that runs and the place it is at; `3600fs` insists on `-s`, so there is one. Every block a handler writes is a step of its own: `Write` saves the directory entry, then `TakeFirstBlock` or `TakeBlock` .. `LinkBlock`, `MarkBlock`, `StoreData` for each block; `Delete`, `FreeNext`, `DeleteDirent`; `Truncate`, `SeekOn`, `Cut`, `TrimNext`, `TrimLast`. |
| `FileContents` | `vfs_read`, and the comments on the handlers | `contents` is a history variable: what a file should hold by those comments. `FileRead` is what page after page of `vfs_read` returns up to `st_size`. |
| `Iteration` | the loops along `next` | `Iterate(next, b)[n]` is where `n` turns lead from `b`, as a recursive function; `Walk` is what such a loop passes. The filesystem's chains and the lists of section 6 are read with them. |
| `MCFatFiles`, `MCFileContents` | - | the VCB for TLC, and its words as FAT entries |
| `FatProofs`, `FatChainProofs`, `IterationProofs` | - | the theorems, and what is true of `Iterate` and `Walk` for any `next` |

`Environment` names what may happen besides plain calls on a disk with room. Each
element is a guard on the calls, never on their steps, so that what is proved or
checked without one says precisely when the code is right:

| Element | Admits | Without it |
|---|---|---|
| `rename` | `vfs_rename` | |
| `rewrite` | a write to a file that has contents, or at an offset | each file is written by one call |
| `exhaust` | a write that needs more blocks than are unused | |
| `cut` | a truncation to fewer blocks | truncation within the last block |
| `full` | creating a file when no slot is left | |
| `stale` | a call for a name no entry has: a path the kernel still has in its cache (for a second), or `/` itself | |
| `crash` | the end of `3600fs` between two block writes, and a new mount | |

What is abstracted:

* Names are equal or differ in their first 27 characters. A renamed entry keeps the
  `/` of its path (`slash`). `Junk` is what the uninitialised name of `mkfs` is: any
  bytes, but not the name of a file a program uses.
* A block of data is the pair of the write it comes from and its place in the file;
  everything else (zeros, what follows the buffer in memory) is `Rubbish`. Sizes are
  small and `BlockSize` is 2, so that a size may be a multiple of it or not.
* Mode, user, group and access time are left out, so `vfs_chmod` and `vfs_chown` are
  what they do to the rest of the disk when the name is not found (`SaveAnyway`).
* `SavePastDirectory` is `savedirent` one block past the directory: the first words
  of the directory entry become FAT entries as the bit fields of `fatent` cut them;
  the words of mode, times and name become any entries.
* Reading an entry past the FAT gives any entry (`EntryAt`), which is more than the
  image can hold there; nothing is claimed of the order in which such a read goes on.
* `dread` and `dwrite` do not fail, and a block is written whole.

### Properties

* `ChainsApart`: each block can be given an owner such that first blocks and what
  follows an owned block belong to one file, and owned blocks are marked used. It is
  the property whose loss destroys other people's files, and it needs several calls
  on two files to break.
* `ChainsEnd`: every chain reaches an entry with `eof`; `CallsReturn`: every call ends.
* `OthersKeepTheirData`, `FirstBlockStays`: action properties of each block write.
* `ReadsBack`: between calls a file reads as what was written to it.
* `ListedIsFound`: `vfs_readdir`, which looks at `valid`, and `vfs_getattr`, which
  looks at the name, agree.
* `NoLeak`: used blocks belong to files, as the comment on `vfs_delete` promises and
  the code does not do; no run checks it.

### Runs

| Run | Instance | Shows |
|---|---|---|
| `fat_chains` | 2 files, 5 blocks, sizes of 1 and 2 blocks; rename, rewrite, exhaust | chains stay apart and end, data of other files is untouched; every call returns, under weak fairness of `Step` (a single-threaded program that is not killed keeps running) |
| `fat_anything` | 1 slot, 3 blocks, sizes of 1 and 3 blocks, all seven hazards | types and first blocks survive all of them |
| `contents` | 6 blocks, block 0 already lost; writes to empty files only | files of up to two blocks read back; the directory lists what lookups find |
| `first_block` | the smallest environment | finding 1 below |

Bounds: `FatSize`, `DirLength`, `MaxSize`, `Sizes`, `Offsets`, `Tags`, `Times`. Two
files are enough for sharing, and five blocks let a chain of two be freed, reused by
the other file in another order, and the FAT run out. Deadlock is not checked: with
a full directory and no hazards that admit a call, nothing may be left to do.

### Findings

1. Block 0 has the number `END`, so the first file of a block or more on a fresh disk
   loses its first block (`3600fs.c:425`; run `first_block`). `contents` therefore
   starts from a disk that has lost block 0 already.
2. Writes append whatever their offset is (`:452`). FUSE writes at most 4096 bytes at
   a time, so this hits every larger file; as each such write is a multiple of 512,
   it also gets a block of rubbish (`:491`).
3. Truncation to fewer blocks forgets `fat_start` and frees the wrong entries
   (`:779`, `:798`; with `MCFatCut.cfg`, which belongs to no run, TLC finds
   `ChainsApart` violated).
4. A search that fails saves over the FAT: creating a file in a full directory
   (`:236`), and rename, chmod, chown and utimens of a name that is gone (`:597`,
   `:631`, `:660`, `:689`).
5. A block is linked before it is marked used (`:428`, `:473`), and mounting repairs
   nothing.
6. The first block of a deleted file is never free again (`:548`).
7. A renamed file keeps the slash of its path (`:590`), `utimens` sets the time of
   creation (`:683`), and a write that does not fit reports success (`:498`).

The others are one edit of a configuration away: with `NoLeak` as the invariant of
`MCFatCut.cfg` and no `Environment`, TLC finds it violated (6); with `Environment` in `MCFatCut.cfg`
set to `{"full", "rewrite"}` (and `DirLength = 1`), `{"stale", "rewrite"}` or
`{"crash", "rewrite"}`, TLC finds `ChainsApart` violated (4, 5); with `"rewrite"` or
`"exhaust"` in that of `MCContents.cfg` (the latter with 3 blocks), `ReadsBack` (2,
7); with `"rename"` in a configuration of `MCFatFiles`, `ListedIsFound` (7).

## 4. Shell: modules and code

| Module | Models | Correspondence |
|---|---|---|
| `Shell` | `3600sh.c` | `pc` is the position of `main`: "read" is the top of its loop, "parse" and "word" are `getargs` before and after its first `getword`, "parsed" is line 120, "wait" is `waitpid`, "exit" is `do_exit`. `scan` holds the globals `losc`, `error_types` and `std_files` and the locals of `getargs`; `GetWord` is one call of `getword`, and `TakeWord` what it does with the word it found. `children` is the process table: `fork` gives a child a copy of what it needs, and it opens its files, becomes its program and ends at any time. |
| `MCShell` | - | the lines for TLC |
| `ShellProofs` | - | the theorems |

What is abstracted:

* A line is a sequence of symbols. A symbol is what the parser treats as a unit: a
  piece of text, a blank (space or tab), an operator, `&`, or a backslash before a
  character that may not follow one. A good escape is part of a piece of text; so is
  everything `getword` does not look at. Operators are operators only as words of
  their own, as in the code: `a>b` is one word.
* `index`, `end` and `begin` (the `command` of `getargs`) count symbols. All
  comparisons of the code (`index < count`, `index > count`) are about symbols that
  are left or not, so that the width of one does not matter.
* A line is shorter than `MAX`. Longer ones overrun `word`, and the `realloc` of lines
  96 to 99 and 240 to 243 gives no room.
* The uninitialised `end` is `WildRead`: the shell crashes, or goes on with any
  `losc[3]` and any syntax error. The uninitialised `toCheck` is empty or `Junk`.
* `asked`, `stale` are history: whether the line of a child has an `&`, and whether
  `losc[3]` was already set when the line was read.
* What is in a file is left out, and so is the position in stdin. The latter matters:
  a child that fails calls `exit`, which moves the stdin it shares with the shell
  back to what its copy of the buffer has not handed out, and the shell may read the
  rest of a script twice. `ReadLine` takes any line at any time, which covers it.

### Properties

`IsCommand` is an independent definition of what a line means: a program with
arguments, then files, then perhaps an `&`.

* `RunsAsWritten`: while no earlier line had an `&`, each command is parsed into
  exactly its own program, arguments, files and `&`, whatever the lines before it
  were, refused ones and wild reads included.
* `RefusesTheRest`: a line of words that is no command starts no program. Lines that
  repeat an operator are left out (finding 2).
* `ForegroundWaits`: a program of a line without an `&` runs only while `main` waits
  for it, although `main` decides by `losc[3]` and the property by the line.
* `NothingAfterBackground`: what the code does instead of `EveryLineRuns`.
* `LineEnds`: `getargs` comes to an end of every line.

### Runs

| Run | Instance | Shows |
|---|---|---|
| `shell_lines` | every line of up to 3 symbols, every line of up to 4 tokens, and some with more; 2 processes | all of the above |
| `shell_ready` | lines of up to 3 tokens | finding 1 |

Bounds: `Lines` and `Pids`. Lines are unlimited in number; nothing of a line but
`losc[3]` and `do_not_execute` reaches the next, so short lines in any order reach
all there is to carry over. Three symbols hold each pair of special characters with
or without a word; four tokens hold a program, a file with its operator and one more
word; the longer lines have two operators and an `&`. Two processes are a background
child and a foreground one, with `fork` failing when there is no third.
`LineEnds` assumes weak fairness of `GetArgs`: a single-threaded loop that nobody
stops keeps running. Deadlock is not checked: the shell exits or crashes.

### Findings

1. `shell_ready` - `reset` stops one entry short of `losc[3]` (`3600sh.c:527`). After
   a line with an `&` every later line is taken for a background one and loses its
   words; when a line with an `&` is refused, all later ones are thrown away (`:542`).
2. Two operators of one kind are accepted, and the two names are concatenated
   (`:286`); without `~Repeats(line)`, TLC finds `RefusesTheRest` violated.
3. `a&` drops the word before the `&` (`:252`), which is why `IsCommand` asks for a
   blank there.
4. `end` (`:230`) and `toCheck` (`:283`) are read uninitialised.
5. `O_TRUNC` is given to `open` as a fourth argument (`:156`), so files are not
   cleared, which `README.txt:17` says they are.

## 5. Dns client: modules and code

| Module | Models | Correspondence |
|---|---|---|
| `DnsWire` | `3600dns.c` without its socket | bytes. `QName`, `CreatePacket`: the query. `ReadName`, `ReadAnswers`, `ReadResponse`: decoding, with the offsets of the code. `Process`, `Checked`: the checks of `main` and what it prints; what `get_ip` prints is kept as four bytes. |
| `DnsServer` | a name server (external) | `Answers`: what it may say about a name, a failure included; `Message`: the bytes it says it in, every name in full or shortened to a pointer to an earlier one; `Tells`, `Meant`: what should be printed for it. |
| `DnsClient` | runs of `main`, UDP, the kernel | `pc`: before `sendto`, in `select`, ended. `Receive` is `recvfrom` and all that follows it. A datagram in flight is kept as what it was made of, and its bytes are computed when it is read. `asker`, `name` and `answer` in it are history. |
| `DnsLookup` | nothing of the code | the abstract specification: a client is started for a name and ends once, without an answer or with the lines of an answer for that name. |
| `MCDnsClient` | – | names, zone and further answers for TLC |
| `DnsProofs` | – | the theorems |

What is abstracted:

* A name is the sequence of labels that `strsep` cuts it into, empty ones included.
  Labels are shorter than 64 characters and names than the 1024 of `read_name`.
* The buffer is zeros behind the datagram. Recursion that follows a pointer twice without
  an end fills the stack: `returns` is false, and the client ends as "crash".
* The question of an answer is the one of the query, not shortened: `read_response` gives
  `read_name` the address of its own pointer there (`3600dns.c:213`), so a pointer in the
  question would be followed into the stack.
* `in_len` is not set (`:470`), so `recvfrom` may fail whenever a datagram is there.
* Arguments are well formed; `dump_packet` only writes.

### Properties

* `WireAgrees`: the server reads the name that was asked for, and the client reads from
  any answer what the server meant, as far as it can (up to a record that is neither A
  nor CNAME, and not for the root). It is checked of the answers of the zone and of every
  chain of up to three records in `MCOtherAnswers`, with and without pointers.
* `OwnAnswerIsPrinted`: a client that takes the answer to its own query as its one datagram
  prints that answer.
* `ImplementsLookup`: `DnsClient` implements `DnsLookup`; whatever else comes, a client
  prints nothing that the server does not say of its name.
* `EveryClientEnds`: even if nothing ever answers.

### Run

`dns`: two clients, two ports, one answer in flight, four names (`a`, `ww.b.`, `a..b` and
the root) and answers to other programs' queries. Two clients are one that may be given
the other's answer; one answer in flight is enough as a socket's first datagram decides
and a datagram may be received twice and at any later time. Deadlock is not checked, as
every client ends. Fairness is that of a client's own steps: the kernel runs the process,
wakes it when a datagram is there, and after 5 seconds. Nothing is asked of the network
or the server.

### Findings

1. The id is 1337 in every run and the question is not compared (`:483`): with
   `Environment = {"stray", "reuse"}`, where a client is given the port of one that has
   ended, TLC finds `ImplementsLookup` violated: it prints the late answer to the
   earlier client's question.
2. The data of other records are not passed over (`:162`): behind an RRSIG the records
   are read from the middle of it.
3. The name of the root is read one byte too far (`:77`), in questions and owners.
4. A foreign datagram ends the client, although its own answer may follow (`:483`).
5. `rcode` is not looked at: a server's failure is printed as NOTFOUND (`:489`).
6. A name with an empty label asks for what stands before it (`:415`, `:278`); this is
   right for a name that ends with a dot.

## 6. Exercises: modules and code

| Module | Models | Correspondence |
|---|---|---|
| `OrderedList` | `cp3-problem2.c` | `memory` is the head and the elements at their addresses; `Insert` and `Delete` are the pointer assignments of `add_element` and `delete_element`. `Leftover` is what `malloc` leaves in an element: zeros, until a string that is as large as an element was freed. `status` is "undefined" once a pointer is followed that nobody set. `asked` is the int of the last call, `answer` what it returned and `noMemory` whether `malloc` failed in it. |
| `OrderedMap` | nothing of the code | the abstract specification: a map printed in order, which loses a value only in a call for which there was no memory |
| `SortedList` | `cp4-problem3.c` | `nodes` in the order they are malloced, `first` is `list->head` |
| `Employees` | `cp2-problem2.c` | the array and its counter; a slot beyond the array is read as `Other`. `request` is the last call, `returned` what it returned. `TwoAtOnce` says whether someone may be asked for who has the id of one employee and the name of a later one (`ClashesWithTwo`) |
| `Directory` | nothing of the code | the abstract specification: a set of employees, with the return values that the comments on the functions promise |
| `NumberNames` | `cp3-problem1.c` | an int is its sign and groups of three digits, a name the sequence of its words. The reader (`Value` and what follows it) has words of its own and is told how 40 is spelled |
| `Exercises`, `MCExercises` | – | one program at a time, so that one run checks the four |
| `ExercisesProofs` | – | the theorems about the two lists, the employees and the names of ints; the lists are walked with `Iteration` (section 3) |

What is abstracted: strings are of two sizes; locations, the list's `id`, `sscanf`,
`atoi` and the freeing of intermediate strings are left out. An element that the list
has lost is as good as memory that was never used (it is not freed, and no pointer
leads to it).

### Properties

* `Linked`, `CrashesOnlyOnReuse`: `prev` undoes `next` after any calls, and only the
  head's `prev` may be a pointer that nobody set, which is when a deletion crashes.
* `ImplementsMap`: what is printed and returned is that of a map, for the int that was
  asked for, a failing `malloc` in the middle of an overwrite included. A value that is
  lost although `malloc` did not fail violates it.
* `StaysSorted`: an action property: each addition keeps the list in order and as long as
  it says, loses nothing and adds one int.
* `NoneTwice`, `ImplementsDirectory`: the employees in use are those that were added and
  not removed, and each call returns what the comment on its function says: -2 only if
  nobody has the name, the salary of an employee who is there, -1 only for one who is not.
  The code keeps this only where nobody `ClashesWithTwo` (finding 3) and every salary is
  an int (`SalariesFit`, finding 4).
* `NameReadsBack`: a reader who takes "fourty" for forty reads the name of an int back as
  that int; a reader of English does so exactly when no group of the int has a number in
  the forties (finding 6). A name with 40 that is spelled well violates it just as one that
  leaves out a group.

### Runs

`exercises`: four ints, two sizes and four elements for the ordered list, so that there
is an element before, between and after two others; up to five ints with duplicates for
the sorted list; three slots, names and ids for the employees, with 0 and the largest int as
salaries (`Width` 4 instead of 32) and `TwoAtOnce` FALSE; and ints whose groups are all combinations of 0,
1, 10, 15, 20, 47, 100 and 999, which take every branch, with the smallest and the largest
int. `Slots` stands for the 10 of the code. Deadlock is not checked: a program ends, or has no room
for more. The request of a call is part of the state, so that a step of the code is compared
with the same call of the abstract specification and not with another that has the same
result.

`two_at_once`: the same with `TwoAtOnce` TRUE; TLC finds `ImplementsDirectory` violated
(finding 3) when the third request has the id of the first employee and the name of the
second.

### Findings

1. A new first or last element keeps what memory held in the pointer that the code does
   not set (`cp3-problem2.c:174`, `:186`, `:206`, `:227`): once a string of the size of an
   element was freed, the next print or deletion may crash.
2. The result of the second `add_element` is ignored (`:218`): if `malloc` fails there,
   the old value is gone and 1 is returned.
3. `add_employee` returns -2 for an id although a later employee has the name
   (`cp2-problem2.c:126`), where its comment (`:107`) says "but not an identical name":
   run `two_at_once`.
4. A salary of 2^32 - 1 is told as "not found", one of 2^31 and more as negative (`:181`),
   where the comment (`:172`) says ">= 0 - success, the salary value". With 15 among the
   `Salaries` of `MCExercises.cfg` TLC finds `ImplementsDirectory` violated.
5. `remove_employee` reads the slot after the last one of a full array (`:156`); what it
   reads is never used.
6. 40 is "fourty" (`cp3-problem1.c:40`), where the comment at the top of the file says
   "forty five" (`:13`, `:24`). `NameReadsBack` states which names are misspelled.


## 7. What is proved

### tcp

Assumed: `ConstantsAssumption` (naturals, a window, no wrap, `ByteSwap` an
involution), and, where the statement says so, `CleanStream` or
`Blocks < WindowSize`.

* `TypeCorrect`: `TypeOK`, by itself inductive (with `Distance` bounding
  `sndSequence`).
* `InvariantHolds`: `TransferInv`. None of the safety properties is inductive:
  that a late packet does not find its slot taken depends on how far the sender
  could have been when it sent it. `TransferInv` relates every place a sequence
  number can be to two counters: numbers in flight, in the window, in the buffer
  and in the slots are below `sndSequence` and at most `WindowSize` above
  `lastAcked` (`SenderInv`, `ArrivalInv`, `BufferInv`); acknowledgements are at
  most `Promised` (`FlightInv`), the number the receiver last answered with or will
  answer with; kept blocks lie strictly above `Promised` and at most `WindowSize`
  above it (`KeptInv`), so two of them in one slot are equal. `Promised` lags one
  behind `rcvSequence` while `write_data` drains, because the slot of `rcvSequence`
  is then still full.
* `Integrity`, `AckSoundness`, `SuccessSoundness`, `SlotsAreEnough`: the safety
  properties, from it.
* `KeptBlocksSurvive`: the action property `KeptUntilWritten`, from the invariant
  before and after each step.
* `Refinement`: `ImplementsStream`, initial states and steps.
* `ShortStreamKept`, `ShortStreamSends`: the sender's properties on inputs shorter
  than the window, from the invariant `ShortInv` of `StreamProofs`, for every
  receiver, the overrun one included.

### Filesystem

Assumed: `DiskAssumption`, `VcbAssumption`, `CallsAssumption` (sizes of the disk and
of the calls).

* `TypesHold`, `FirstBlocksStay`: for every `Environment`. Both rest on `DirInHand`:
  while a write runs, the directory entry on disk is the `d` it has in hand.
* `ChainsStayApart`: for every `Environment` without `cut`, `full`, `stale` and
  `crash`; the four violations of `ChainsApart` show that each must be left out.
  `ChainsApart` speaks of the time between calls. `ChainsInv` extends it to every
  step: there is an assignment of owners under which a block that is linked but not
  yet marked, and the blocks of a file that is being deleted, are exempt from being
  used, the cursor of a write lies on a block of its file, and a block that is not
  used has no owner (`OwnsInCall`). Each action either keeps the owners
  (`SameOwners`), gives one unowned block to the file that writes, or takes all
  blocks from the file that is deleted.

* `ChainsComeToAnEnd`: `ChainsEnd`, under the same conditions. `ChainsInv` has a rank
  that grows along every chain (`Acyclic`). The blocks of one file are as many at most
  as the FAT has entries, so a loop that climbs over them has come to an entry with
  `eof` after that many turns (`RisingEnds`, by the pigeonhole principle).
* `OthersKeepTheirBlocks`: `OthersKeepTheirData`, under the same conditions. By
  induction along the chain every block of `ChainOf(s)` has the owner `s`; the block a
  write stores in has another.
* `FilesReadBack`: `ReadsBack`, for `UsedSpec`, under the same conditions without
  `rewrite` and `exhaust`, and for writes that fit a page (`OnePage`: a FUSE write
  carries a page at most, and `vfs_read` begins every page with the first block of the
  file). The findings of section 3 show that a disk with block 0 unused, a second write
  and a full disk must be left out. `ContentsInv` holds at every block write. Besides its
  owner, every block has a place: 1 for the first block of a file, one more for what
  follows (`Numbered`), no two blocks of a file at the same one. A block holds the piece
  of the file at its place, unless a write has just taken it or a delete is running
  (`Stored`); a file has as many pieces as its size asks for (`Sized`); a write has taken
  as many blocks as it has counted (`Counted`), and there are free ones ahead of its scan
  for the rest (`Room`), so that its scan never runs out (`ScanDoesNotEnd`). Only an
  induction along the chain (`FollowPlaces`) then says that the k-th block `vfs_read`
  comes to has place k. `MarkBlock` ends the chain at the block it marks; that no block
  of the file is needed behind it is what `Counted` says.
* `DirectoryAgrees`: for every `Environment` without `rename`, crashes and full
  directories included, at every block write: `ListedIsFound`. The invariant is that
  an entry carries a file's name exactly when it is valid, and no two the same one
  (`NamesInv`); it needs the kernel's lookup before `vfs_create`, which does not look
  itself.

### Shell

Assumed: `LinesAssumption` and `SymbolsAssumption` (lines are made of symbols).

* `ShellHolds`: `TypeOK` and `ShellInv`, together inductive. Two parts make `ShellInv`.
  `WaitInv` is about waiting: `losc[3]` is all that tells `main` not to, and it may be
  set by the line, by an earlier line, or by a read through the uninitialised `end`. In
  the last two cases there is nothing to wait for: `StaleIsEmpty` (an earlier line: no
  argument was kept), `BackgroundAsked` with `EndIsKnown` (a wild read: no argument, or an
  error that refuses the line). `CommandIsLine` keeps the parsed text tied to the line
  although `getword` cuts it up, and `Fresh` says what `reset` leaves.
  `WordsRead` follows a line of any length from token to token: either the `t` tokens
  before the one at `begin` are the beginning of a command, `argv` holds its words and
  `std_files` its files (`ReadTo(w, t)`, with the first `w` of them words), or the line is no
  command in any way of reading it and an error is recorded that will refuse it
  (`Doomed`).
* `ShellTypes`: `TypeOK` by itself.
* `EveryCommandIsUnderstood`: `RunsAsWritten`, from `WordsRead` at the end of the line; a
  line is a command in one way only (`OneReading`) and no command repeats an operator
  (`CommandRepeatsNothing`).
* `NoOtherLineRuns`: `RefusesTheRest`, from `WordsRead`, and from `StaleIsEmpty` for the
  lines behind an `&`.
* `WaitsForTheForeground`: `ForegroundWaits`, for any lines and any number of
  processes, from `WaitedFor`.
* `NoProgramAfterBackground`: `NothingAfterBackground`, from `StaleIsEmpty`.

They rest on `FirstFromFound` and `GetWordReads`, which say what `getword` finds,
leaves alone and may set, whatever it reads.

### Dns client

Assumed: `ClientAssumption` (the sets are what they are said to be), and, where the
statement says so, `Agreement` and `"reuse" \notin Environment`.

* `TypeCorrect`: `TypeOK`, for any clients, ports, names, zone and number of answers
  in flight; the other two rest on it.
* `OwnAnswers`: `OwnAnswerIsPrinted`. `Agreement` is that the wire format loses nothing
  of the names and answers of the instance: `Misunderstood` and `Mistaken` are empty.
  It is about recursive functions over bytes, which the prover cannot evaluate; it is
  what the invariant `WireAgrees` says of the names in use, and the run checks that.
* `ClientsImplementLookup`: `ImplementsLookup`, from `Agreement` and ports that are used
  once. The invariant ties each place to the question it is about: a query in flight
  comes from its asker's port and has its asker's name (`RequestsInv`), an answer in
  flight is one of the answers to the name in the query it belongs to (`RepliesInv`), so is the datagram in
  a socket (`SocketInv`), and what a client printed was read from it (`OutcomeInv`).
  They are inductive only together. That a datagram which comes to a client's port was
  asked for by that client or by a stranger needs all ports to differ besides (`PortsInv`).

### Exercises

Assumed: `EmployeesAssumption`, `ListAssumption` and `IntsAssumption`: sets are sets of
numbers, an array has a slot, `NULL`, `Wild` and the addresses differ, and there are
finitely many addresses (one for each element the program may ask for); and
`ArgumentsAssumption`: what is asked for is a sign and four groups of an int.

* `NoEmployeeTwice`, `EmployeesAreADirectory`: `NoneTwice` and `ImplementsDirectory`, for
  any names, ids and salaries, size of the array and width of an int; the second under the
  hypotheses `~TwoAtOnce` and `SalariesFit`, without which it is false (findings 3 and 4 of
  section 6). Where no one clashes with two, the first employee with the id or the name is
  also the reason the comment names (`AddEmployeeHires`). `EmployeesInv` is
  `NoneTwice` and the array's bounds; that the slot beyond the array, which
  `remove_employee` reads, never becomes an employee is part of the step.
* `ListStaysLinked`, `NoCrashBeforeReuse`, `ListIsAMap`: `Linked`, `CrashesOnlyOnReuse`
  and `ImplementsMap`, for any number of elements. `ListInv` says that there is a
  sequence of elements which `next` follows from the head to `NULL` and `prev` leads back
  along, whose ints ascend; `Walk` then reads that sequence (`ChainIs`). `DeleteShortens` and
  `InsertPlaces` say what the pointer assignments of the code do to the sequence;
  `delete_list` is the first iterated (`ListDeleted`). `PrintsTheMap` says that what is
  printed are the pairs on the list, with their ints ascending, which is what `OrderedMap`
  asks for.
* `ListStaysSorted`: the action property `StaysSorted`, from the same kind of invariant
  (`SortedInv`, with a sequence that passes every node once).
* `NamesReadBack`: `NameReadsBack`, for every int. A group of three digits is read back
  from its own words, by the cases of `tens` and `hundreds` (`TensReadBack`,
  `HundredsReadBack`): no word is in two tables, so each is worth what it was written for
  (`WordValue`), but for the one of 40 to a reader who spells it otherwise; that group then
  comes out as no number (`Good` says which groups do not). A name is the parts of its groups in a row (`BillionsFrom`, which
  evaluates the four steps of the recursion), and a part has the unit of its group and no
  other: what comes before it is empty or ends with an earlier unit (`Lead`), what comes
  after it has only later ones, so the reader cuts the name where the code joined it
  (`ReadsPart`). The name of 0 is a case of its own. The state adds little to this: what
  is printed is the name of what was asked for (`NamesInvariant`).

Chains and lists of any length are reached in spite of the provers' limits because
induction over the natural numbers is stated about a set instead of an operator
(`ByInduction` in `IterationProofs`, from well-foundedness), and because `Iterate` is a
recursive function: `IterateDef` proves that it satisfies its own equations.

### Model-checked only

`SenderEnds`, `ReceiverEnds`, `CallsReturn`, `LineEnds` and `EveryClientEnds`: liveness
is out of reach of the prover. `WireAgrees` is about how names of any length are written
and read byte by byte, by recursive functions; TLC evaluates it on the names of the
instance. The violations are TLC's counterexamples.

## 8. Plan

In the order of importance; 1 to 9 are done.

1. `Datagrams`, `Network`, `Sender`, `Receiver`, `Transfer`: the transfer.
2. `ReliableStream` and the proofs about `tcp`.
3. `FatDisk`, `FatFiles`, `FileContents`: the filesystem, and the proof that files
   share no block.
4. `Shell`, and the proof that it waits for the programs it should.
5. `DnsWire`, `DnsServer`, `DnsClient`, `DnsLookup`: the wire format, clients and server,
   and the proof that they implement a lookup.
6. `OrderedList`, `SortedList`, `Employees`, `NumberNames`: the exercises that keep state
   or have many branches.
7. Filesystem proofs: no write touches another file's data, from the owners of
   `ChainsInv`; chains end, from a rank that grows along each chain.
8. Shell proofs: what is parsed is what was written, from an invariant over the words
   read so far. Proofs about the lists and the employees of the exercises.
9. The proof of `ReadsBack`, from the owners and ranks of `ChainsInv`; and of
   `NameReadsBack`, by the cases of a group.
10. `ShellScript`: `Shell` reading a script, with the position of stdin shared with the
   children, and files that have contents.

### Not modelled

The scripts `run` and `test` (they start programs and compare their output); the layout
arithmetic of `mkfs`; I/O errors of the disk; argument parsing everywhere; `cksum`, which
is never called; `dump_packet` and logging; the exercises that print one result of their
arguments and keep nothing: `cp1-*`, `cp2-problem1`, `-3`, `-4`, `cp4-problem1`, `-2`. Of
those two are wrong in a way a model would not add to: `str_compare` of `cp4-problem1`
compares pointers, and the word count of `cp2-problem3` reads past an empty string.
