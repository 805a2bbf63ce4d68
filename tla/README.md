# Formal models of the PC-98 tools

TLA+ specifications of the network tools, picture programs and small drivers of this
repository, the TLC runs that check them and the TLAPS proofs about them. `../src/...` line
numbers are those of the source files as they stand beside this directory.

## 1. The system

A collection of 16 bit DOS programs for the NEC PC-98 and PC-88VA, built with
Open Watcom. Each is a single thread that polls; nothing is shared between
programs. What makes some of them hard is what they talk to: a resident protocol
stack (TEEN), a network, a server, a user with an ESC key.

| part | state it keeps | operations | what is hard | what makes it correct |
|---|---|---|---|---|
| TFTP client, receiving (`teen/tftp/tftp.c` 339-469) | the local file, `rpkt`, `blknum`, `retry`, the descriptor `udp` (peer, and where a datagram is read to), the handle | request, reopen of the port, DATA, OACK, ERROR, retry, ESC | datagrams lost, duplicated, late; an unowned port between two handles; two sessions answering; a retry that redirects the reading | no hole in the file; an ACK vouches only for stored blocks; success means whole |
| TFTP client, sending (245-334, 95-137) | `blknum`, `readbytes`, the peer | request, wait for an ACK, next block, last wait | a late or foreign ACK taken for the current one | one block ahead at most; one session; 0 means stored |
| TEEN UDP handle (`netteen.c`, `tlib/source/udp.asm`) | port, peer filter, receive queue | open, close, sendto, recvfrom | a full queue, closing with datagrams queued | (external: modelled from its use) |
| telnet client, receiving (`teen/esenet/esenet.c` 608-785) | the bytes read, the mode, half a command, `opt_do`, `closing` | text, NUL, commands, answers, closing | commands cut anywhere; data racing the close; answers through a full buffer | screen and answers do not depend on the cuts; everything shown before leaving |
| telnet client, JIS converter (478-576) | `context`, `firstbyte`, an unchecked array | one transition per byte | sequences cut between calls | output does not depend on cuts; array bound |
| telnet client, sending (177-251, 372-414) | the keyboard buffer, the line, `sw_line`, file position, what `send` has left | keys, line mode, send now, send a file, ESC | partial `tcp_send`, ESC in the retry loop, keys taken to look for it, no receiving meanwhile | order, no loss, file whole |
| TFTP client, command line (`tftp.c` 139-243, 471-634, `tftp_analyze_oack`) | the options, two names, a packet being built | one argument, automatic mode, request, options of the answer | which of several options counts, offsets in the packet, options in any order | the request says what the command line says; the numbers are those agreed |
| telnet client, set-up (`esenet.c` 787-1000) | the handle, the state of the connection in the stack | arguments, opening, the wait for the connection, shutting down, the wait for the end | the stack changes the state between two looks; ESC in each wait | the handle is given back once, after the connection, and the user is told the reason |
| SNTP client (`teen/sntp/sntpget.c`) | the clock | ten requests, one accepted answer, carry, set | unchecked late answers, 16 bit arithmetic | whichever request was answered, the clock is off by at most half its round trip and a second |
| ping, UDP echo (`teen/ping`, `teen/tlib/udpecho`) | counters, queue | send, receive, key | late answers, division, wrap | counts, pairing |
| MD5 tool (`md5sum/`) | buffered block, bit count, the place in the arguments and the list | options, update, final, check of a list | pieces of any size, padding at a block's edge, files that change or cannot be read | same digest however cut; the exit status says what the list's files are |
| GA loaders (`ga/sample/bmpload.c`, `rgbload.c`, `rgbld16.c`, `x68load.c`, `tiffload.c`) | line buffer, palette, three lines of carried colour | header, read line, RLE decode, diffuse, dither, keys | a file that ends inside a line or a buffer, parity of runs, what is carried between lines | every dot in its place; no light lost or made |
| GA saver (`ga/sample/bmpsave.c`) | the box on the screen, the mouse, the part marked | drag, keys, write | a box drawn by inverting must be drawn twice; corners in any order | no box left; what is saved reloads |
| FM driver (`fm_opl3/`) | shadow registers per channel | reset, patch, tone, stop | nine channels, eight elements; registers shared by a tone's pitch and its key | each channel as if it were alone |
| DPMI and language samples, TEEN stubs, `ga/sample/sample.c` | none | | | not modelled |

Interaction: the TEEN tools call the resident stack through register stubs and
poll its state; `esenet` is composed of the receiving loop, the converter below it
(`output`), and `send`, which the receiving loop uses for its answers and the
keyboard and file code for their data. `bmpload` reads what `bmpsave` wrote. The picture programs
share the reader of lines `freadline`, of which each has a copy, and the diffusion of `rgbload`.

## 2. Modules

| module | models | proofs |
|---|---|---|
| `Streams` | operators the properties of streams are said with: what is left, counts, selections | `StreamLemmas` |
| `TeenUdp` | one UDP handle of the stack; extended by the TFTP modules, `SntpGet` and `UdpEcho` | |
| `FileFetch` | abstract: what fetching a file promises | |
| `TftpRecv` | `tftp_recv`, network, server; refines `FileFetch` | `TftpRecvProofs` |
| `TftpSend` | `tftp_send` with `tftp_wait_ack`, network, server | `TftpSendProofs` |
| `EsenetJis` | `output_jis`, `loutput`, a JIS host | `EsenetJisProofs` |
| `TeenTcp` | the two byte streams of a TCP handle, and `send()`; extended by the next two | |
| `EsenetRecv` | `mainloop`, `recv_command`, `terminateFFor00`, a telnet host | `EsenetRecvProofs` |
| `EsenetSend` | `input`, the menu entries that change what is sent, `filesend`, a host that may echo | `EsenetSendProofs` |
| `EsenetOpen` | `main` and `telnet`: from the command line to the handle given back, with the states of the stack | `SmallToolsProofs` |
| `TftpArgs` | `para`, `automode`, `make_req_packet`, `tftp_analyze_oack`, a server that answers a request | `SmallToolsProofs` |
| `SntpGet` | `udptime` and `calc_time`, the DOS clock, a server | `SmallToolsProofs` |
| `UdpEcho` | `udpecho` and `udpecho_noconnection`, the keys that abort a wait | `SmallToolsProofs` |
| `Ping` | `ping`, the stack's one place for an ICMP message | `SmallToolsProofs` |
| `Md5` | `MD5Init`, `MD5Update`, `MD5Final`: how bytes become blocks | `SmallToolsProofs` |
| `Md5Sum` | `md5sum` with `getopt`; extends `Md5` | `SmallToolsProofs` |
| `FmDriver` | the driver, `fmtest`, and a program that keeps to `fm.h` | `SmallToolsProofs` |
| `SmallTools`, `MCSmallTools` | a machine that runs one of the programs from `EsenetOpen` down; `MC...` has its command lines and files | `SmallToolsProofs` |
| `GaScreen` | what the picture programs share: the board, `freadline` | |
| `BmpLoad` | `bmpload`, plain and run-length coded | `GaToolsProofs` |
| `BmpSave` | `bmpsave`; extends `BmpLoad`, which can load what it saved | `GaToolsProofs` |
| `RgbLoad` | `rgbload` (216 colours by error diffusion) and `rgbld16` | `GaToolsProofs` |
| `X68Load`, `TiffLoad` | `x68load`, `tiffload`; each extends the one before for the diffusion and the dither | `GaToolsProofs` |
| `GaTools`, `MCGaTools` | a machine that runs one of the picture programs; `MC...` has their files | `GaToolsProofs` |

How state corresponds to code:

* `TftpRecv`: `pc` is the place in the function (before the request, between
  `net_udp_close` and the second `udp_connect`, in the loop, returned). `elapsed` is the
  truth of `diff >= 2`: the timer is set when the loop starts to wait and not restarted by a retry, so
  one elapsed timer yields a burst of ACKs until a datagram comes. `file` is the
  sequence of `fwrite`s, a block standing for its bytes. One pass of the polling loop is one
  action: of what others write it reads the head of the receive buffer only. Where that is read to is the program's own state:
  `tftp_send_ack` points `udp` at its four bytes (tftp.c:149), and lines 386-387 point it back only before the wait for another packet.
  `small` says that an ACK sent again, from inside that wait (405), has left it there. A datagram that is longer is then thrown
  away, `net_udp_recvfrom` giving -1 and leaving the peer as it is (teen.ref:979, udp.asm:232), so the pass is one of `NoData`; one of four bytes (`HeaderOnly`: an empty last
  block, an unknown opcode) is read over the ACK, and the packet looked at is still the one in `rpkt`, with no data (`RereadData`,
  `RereadOack`); a shorter one ends the loop as ever. `cut` is history: which of these ended it.
* `TftpSend`: `Outcome` is the switch of `tftp_wait_ack` with its loop
  condition. `readbytes` keeps only what the code tells apart (a full, short or empty block, or never
  assigned: line 318 reads it unassigned when the first wait fails, which is a
  choice between both results in the model). `msgs` is monotone: every datagram ever sent may arrive at any time,
  any number of times, or never.
* `OptText` in both: an OACK's bytes 2 and 3 are the first two letters of an
  option name, at least 0x6162. It is assumed larger than the number of blocks, true below 12 MB.
* `EsenetJis`: one action per byte, one group of branches per `context`. A
  converted pair is two numbers outside the byte range, so that a reader of the output cannot
  confuse it with text. `used` counts the bytes of the call.
* `EsenetRecv`: a pass of the loop is `Recv`, a handler, `CheckState`, with the network between them. `Cmd` is
  `obuf` with what the call adds to it. `shown` is what `output()` is given, `want` and `due`
  what the host's items mean and should have answered.
* `TeenTcp`: `pend` is `obuf`/`olen` of `send()`, `tries` the 16 tries after which
  ESC is looked at. `SendTry` is a pass of either loop, with one `tcp_send`; `SendEscape` is a pass of the second in which the key is ESC.
* `EsenetSend`: bytes are numbered by where they come from, so that order and
  loss can be seen. `kbd` is the keyboard buffer of DOS: keys come at any time (`Press`), and `input`, the second loop of `send` and `filesend`
  between two blocks each take one with `getchnw`. The last two do it to look for ESC (`eschit`, esenet.c:125) and throw any other key away, so keys typed meanwhile are
  lost: `typed` is what was pressed without those, and `NoKeyLost` is about it. A menu key is pressed when no other key waits (`Menu`).
  Hexadecimal input (menu 6) is a typed character.
* `SntpGet`: the clock is the true time plus `skew`. A DOS call that gives the date and one that gives the time may have
  a tick between them (`DateThenTime`, `TimeThenDate`, `TimeThenDateSet`); the test for 0:00:00 makes the first
  exact. `sum` is what `calc_time` converts to an int, `ToInt` the conversion. `chosen`, `chosenAt` and `torn` are history.
* `UdpEcho`: `kbd` is what `kbhit` sees and `gets` takes. A string is its number.
* `Ping`: a turn of the loop is `PingTurn` and `PingTake`, with the network between them. `fault` is the division by zero.
* `EsenetOpen`: `opc` is the place in `telnet()`; `tcp` and `downstate` are what `tcp_state` and
  `tcp_downstate` would say now, and change between any two calls. `given` is the set of handles the stack
  counts as given out, `ahandle` the program's copy, `told` the last line printed. The time in `mainloop` is one state.
* `TftpArgs`: a packet is a sequence of cells, a string and its terminator one each, so that the offsets of
  `make_req_packet` and `tftp_analyze_oack` are those of the code in strings. A number in a packet is its value
  (the code writes and reads decimal text of the same number).
* `Md5Sum`: `Md5`'s context holds the whole blocks, the rest and the two words of the bit count, whose
  overflow is the code's carry. A digest is the blocks it was made from. `IsJob` says what can be asked: what is an option, `--` or a name
  depends on the place in the command line as `getopt` has it, and a name is of a file that opens or does not. `turn` is the place in the names or in the list.
* `FmDriver`: `freg` are the chip's registers, `shadow` the four arrays of eight.
  Channel 8 is past the end of each; `layout` says whether the first element of the next lies there (`packed`) or nothing that is used (`apart`).
* GA modules: a byte of a file is known by its place, and a dot on the screen carries the places its colours came from,
  so that "the dot in its place" can be said whatever the bytes are. `rd` is the file and `freadline`'s buffer with its
  `idx`, `fp` and `remain`; a place of the buffer never read holds `Never`. `rle_8` and `rle_4` decode real bytes,
  with the wrap of their unsigned char indices. The random share of the diffusion is a choice. A `fault` is a write past an array or a division by zero.
* `BmpSave`: `boxes` is what inverting has left on the screen, a drawing of a box that is there taking it away.

## 3. Runs

| run | result | what it asks | bounds |
|---|---|---|---|
| `tftp_recv` | pass | holes, wrong ACKs, exact blocks on a lossy network without duplicates, refinement of `FileFetch`, a begun transfer ends | 2 blocks, 2 sessions, a queue of 1, a last block without bytes (`LastIsEmpty`, so that it fits the four bytes), 1 retry, 2 faults (duplicates, retransmissions, strays); loss and reordering are free |
| `tftp_recv_options` | violation | does a request with options save the remote file? | perfect network, 1 session |
| `tftp_recv_timeout` | violation | does the transfer end when the first answer is lost? | perfect network, 1 session |
| `tftp_send` | pass | one block ahead, one session, 0 means stored, ERROR ends it | 3 blocks, 2 sessions, a queue of 2, duplicates without bound |
| `tftp_send_options` | violation | does a granted option start the transfer? | 1 block, 1 session |
| `esenet_jis` | pass | array bound, independence of cuts | pieces up to 3 bytes, 5 items, junk that holds every byte a branch tests |
| `esenet_recv` | pass | screen, answers, close | 3 items of 14, reads of 2 bytes, buffers of 2 and 3 |
| `esenet_send` | pass | order, loss, whole file, end of file | file of 5 in blocks of 3, send buffer of 2, 3 keys (characters, Return or ESC), 2 menu commands |
| `esenet_send_abort` | violation | is an aborted file a prefix? | as above, 2 keys |
| `esenet_send_echo` | violation | is received data shown while a file is sent? | file of 9, buffers of 2 |
| `small_tools` | pass | how right a clock is set; how far an answer shown lags behind; delays and loss of ping; digests and exit status; channels of the FM chip; the TFTP request; the telnet handle; sntpget ends | sntpget: 2 requests of 10, a clock up to 5 ticks off, a day of 16 ticks whose end falls inside. udpecho: 6 keys, 1 foreign datagram or disturbance. ping: 3 ICMP messages, a uint of 16 values, percents of 10. md5sum: blocks of 4 bytes with a length of 2, bit counts in words of 64 values, reads of 5, files of 0 to 9 bytes, lists of 2. FM: channels 0, 3 and 8, 2 tones (one too high), 5 calls. tftp: up to 4 arguments, a server with a limit of 600 on blocks. telnet: up to 3 arguments, 2 handles |
| `ga_tools` | pass | every dot in its place, light kept, the box erased, saved and loaded again, run-length pictures shown | a buffer of 24 bytes, screens of 3 to 5 dots and up to 5 lines, run-length bytes of 16 values with up to 3 codes, each file whole and cut short |

Why the bounds are enough: two blocks give a first, a last and an order; two
sessions give a foreign answer at every point; a queue of one overflows at the second datagram. The proofs
of section 5 lift the most important of these to every value. A command of three
bytes meets every cut with reads of two, and three items give a repeated WILL with something between. The converter has
six contexts and no path longer than four bytes between visits to `ascii`; five items are two such paths.

The scaled constants of `small_tools` and `ga_tools` keep the ratios the code depends on. Two MD5 blocks with a length field of half
a block put the end of a message at every place of a block, with and without room for the length, and reads of 5 with blocks of 4 are neither
multiples nor equal; the bit count overflows its low word at 8 bytes. A GA buffer of 24 bytes holds several lines of some files and a part of one more
of others, which is what `freadline` rounds; a byte of 16 values and a half byte of 4 keep the code's `% 2` and `% 4` and
the wrap of its index. Palettes, the diffusion's levels (51, 0 to 5) and the dither's table have their real values.

`ClockSetRight` has three premises, each of which excludes something the code does wrong: a difference that
does not fit the int of line 214 (in 16 bits, a clock more than about 4.5 hours off), midnight between lines 296 and 297, and
midnight between 342 and 343. Two requests and a late answer to the first give every pairing. `LossIsShare` likewise leaves out
a key in the first second (division by zero), answers that come twice and products above 65535. `RequestAsAsked` is of command lines with a
block size of 8 to 4500 and a time-out of 1 to 255, and of `-S` when receiving: what the documents say of the others the code does not do
(see the end of this section). `ChannelsIndependent`
leaves out channel 8 when the arrays lie one behind the other: its elements are then channel 0's of the next array (fm.c:37).
`RlePictureShown` leaves out the codes a decoder gets wrong: a move up, 255 bytes of which the index steps by two in an
unsigned char (bmpload.c:400, a loop without end), and 4k + 1 dots as they are in 4 bits. `RowsInPlace` takes files of 24 bits to have
no palette, since the program reads one only for fewer bits (bmpload.c:266). `BoxErased` says what `S` leaves behind. The end of ping.c still lists delays over
a second, or out of order, as measured wrong: since v0.2 sends the time with the request they are right (`DelayFromItsRequest`).

Findings (the violation runs):

* An OACK falls through to `fwrite` (tftp.c:445): the options are written in front of the file.
* Before the first packet there is no timeout (tftp.c:403), and `-T` is never read. One way to lose the first answer is the
  program's own gap between two handles, so it happens on a perfect network.
* `tftp_wait_ack` compares option text with a block number (tftp.c:121): a send with granted options ends at once.
* ESC inside `send()` leaves a gap in the file being sent (esenet.c:209).
* Nothing is received while a file is sent (esenet.c:241), against the history entry of v0.3d; with an echoing host both wait for ever.

Met while modelling, without a run of their own:

* An ACK sent again leaves the receive descriptor at its own four bytes (tftp.c:149, 405): every longer block after it is thrown away, until
  the retries run out. So a retry saves a transfer only when all that is missing is an empty last block, on a perfect network too; the model has it so, and `BegunTransferEnds` that it ends.
* A datagram of four bytes is read then, over the ACK, and the packet before is looked at once more, with no data: an old block ends the
  transfer with result 0 (tftp.c:389, 454), whatever is missing. This is `cut = "stale"`, which `ImplementsFetch` counts as failed and the code does not.
* The range checks of `-B` and `-T` (tftp.c:602, 608) join two conditions with `&&` that no number meets: any number goes out, against
  the messages behind them (604, 610) and tftp.xx:50.
* A sender finds the size of its file (tftp.c:269) and tells 0 (`-S`), against tftp.xx:54.
* `eschit` throws away a key that is not ESC (esenet.c:129): what is typed while `send` retries is lost.
* `ahandle` is an unsigned char (plain char is unsigned in Open Watcom without `-j`), so the -1 of `tcp_activeopen` is never `< 0`
  (esenet.c:814): without a free handle the client waits for a connection until ESC. `MinusOneIsPositive` in `SmallToolsProofs` is the fact.
* A host that accepts and closes between two looks at the state leaves the client waiting until ESC too (esenet.c:819).
* `md5sum -b`, which the usage names (md5sum.c:110), is refused: the switch has `'t'` where the option string has `b` (md5sum.c:54).

Every property of a passing run has a mutant: the operators commented "A slip"
stand in for a mapped definition and make TLC find the property violated.

## 4. Fairness

The programs are polling loops, so weak fairness of the client's own actions
(`Client`) is what the code guarantees; the clock ticks (`Tick`). ESC, menus, early failures and
the decisions of hosts and servers get none. `BegunTransferEnds` and `ErrorEndsTransfer` need only the
client and the clock: the retries run out whatever the network does. `CloseIsNoticed` and
`FileSendEnds` also assume that TCP delivers and the host reads: without it `send()` waits until the user presses ESC, as the code says. `PerfectSpec`,
used by the two violation runs of `tftp_recv`, adds a network that delivers and a server that answers,
which makes the counterexamples stronger. `SntpEnds` needs the steps of `sntpget` only (`SntpStep`), and that the look-up of the host ends. `RlePictureShown` needs that
a decoder goes on (`DecodeStep`): it computes and reads its file, and waits for nobody. In `EsenetSend.cfg` the receive buffer has room for the echo of
everything sent; `esenet_send_echo` shows what happens when it has not.

## 5. Proofs

All theorems are checked by `tlapm` for every value of the constants that meets the named assumptions
(`NBlocksAssumption`, `SessionsAssumption`, `OptTextAssumption`, `ClockAssumption`, `Md5Assumption`, `Md5JobsAssumption`, ...), which TLC
evaluates on the values of section 3. Every invariant of every passing run is stated by a theorem, and so is the refinement of `FileFetch`.

* `TftpRecvProofs`: `Inv` is `TypeOK`, `NoGap` and `AckedIsStored` with five facts that make
  them inductive. `DataSent`: a DATA datagram in flight or queued is not beyond its session's block.
  `AckStored`: an ACK in flight names a stored block. `BlknumStored`: so does the number a retry
  would acknowledge, or the packet looked at twice. `DownClosed`: the stored blocks are an initial segment. `Running`: before
  the end nothing has failed. The argument: a session reaches block n + 1 only by an ACK for n (`AckStored`), so what
  it sends next continues a file that has n; the code's missing comparison of block numbers
  is harmless because of this lock step and of nothing else. `FetchRefined` maps each step to a step or stutter of `FileFetch`.
  `CleanNetworkHolds` needs more: `CleanInv` says that while nothing has been duplicated, sent again or strayed, one
  session serves (`OneServer`), one datagram of it is under way (`OneCopy`) and the file is the blocks in order
  (`Filled`). Only a second copy can then be written twice.
* `TftpSendProofs`: `Inv` adds `AckedIsStored` (an ACK names a block its session has stored),
  `RbufWasSent`, `StoredWasSent`, `SentUpToBlknum` and `Phases` (which values of `pc`,
  `blknum` and `readbytes` go together). An accepted ACK for `blknum` shows that the session
  which gets the next block has stored all before it (`AckedIsBlknum`).
* `EsenetJisProofs`: a potential argument. `Owed` is the number of bytes a context has
  swallowed and may give back. Each transition pays what it writes from the byte
  it reads and the drop in `Owed` (`ConvertPays`), so `Len(sjisbuf) + Owed <= used + 2`
  holds, the 2 being what an inherited context may owe. With `used <= RecvBufLen` the array of `RecvBufLen + 3` is never overrun.
  For `CutsDoNotMatterHolds`, `Translated` says that what was written, followed by what the item under way has still to show, is what the items mean.
  `OnTheWay` lists which rest of an item goes with which context; a call may end at any of them, since neither mentions the call.
* `EsenetRecvProofs`: a reader is a function of one byte (`Step`) on four parts: a command begun, the screen, the answers,
  the options granted. `Leads(a, s, b)` says that the stream `s` takes the reader `a` to `b`. The invariant `Understood` is that the
  client is such a reader, and that what it has not handled - the rest of its buffer, the stack's, and what has not arrived - takes it
  to where the host's items say. It is needed because the property compares sums, which say nothing about half a command: a step that
  handles bytes moves the client along its own path (`LeadsOne` and its companions), one that receives only moves the border between the three
  parts, and an item of the host leads from nothing begun to nothing begun, so it can be put at the end (`LeadsOn`). The cuts do not
  occur in it. `ModeFits` and `OrderKept` say where half a command waits and that nothing follows the end.
* `EsenetSendProofs`: `Inv` is `TypeOK`, `SentInOrder` and `OneCall`: what `send()` has left to send is
  empty except in the two waits for it, so a new call never takes the place of an unfinished one. The rest is
  arithmetic on streams: what a partial `tcp_send` takes from the front of one sequence it puts at the end of the next (`Moved`, `Split`).
  `KeysInv` and `FileInv` say of the keys, and of the file's bytes, which part of each is in the keyboard buffer or not yet read, in the line, in `send()`, in the stack and with the host.
* `StreamLemmas` has what these need of sequences of any length: cutting and joining, counting, selecting, and induction over the numbers, which is
  stated with a set (`Induct`) and proved from the well-foundedness of finite sets. The sum of any number of numbers (`SumFunction`, a fold over a set in any order) is
  shown there to have a last term (`SumOneMore`), the sum of sums to be that of the pairs (`SumOfSums`), and a change of one term to change the sum by as much (`SumUpdate`).
* `GaToolsProofs`: `PictureInv` has a part for each program that holds while it runs.
  * The reader: `Reader(r, s, p)` says that what is left in `freadline`'s buffer is whole lines of s bytes, that each byte of them which the
    file has is in its place, and that the next line of the buffer is the one at p of the file. It is needed because the buffer is never cleared: after the
    end of the file it holds bytes of an earlier read, and only `Within` - how far the next line and those left behind it go beyond the file - bounds how
    much of that is shown. `FreadLineGives` takes both from a call to the next.
  * `BmpKept`, `RgbKept` and `TiffKept` add to it that the lines drawn are those before p (`BmpDrawn`, ...), one by one or, with dither, two for each of the file's, and where a line under way is.
    In the error diffusion the place of a dot does not depend on its light, so the proof says nothing of the levels.
  * `X68Kept` needs `FilledFor`. x68load reads one line in five without looking at the result: if the buffer is to be filled for that very line, the end of the file goes
    unseen, and the end is seen one buffer later. That the next fill is then not for such a line again rests on the number of lines in a full buffer, which must not be a multiple of five (`FifthOfProduct`).
    With the code's 16 lines it is not; the assumption `X68Assumption` of `X68Load` states it, because with 15 or 20 lines the program would show old lines up to the last one of the picture.
  * `SavedInv`: the part marked fits the screen and the lines of `bmpsave` (`SelFits`), from the places the mouse was seen at (`MouseSeen`), and the file then is that part, from the bottom line up (`Saved`),
    an `IsBmpFile` whose lines `BmpKept` shows. `BoxInv` is `BoxErased` with what it needs of the steps before: no box before the mouse is looked at, and coordinates that
    are numbers, so that a box drawn from the other corner is the same box.
  * `TypeOK` (`GaTypesHold`) is read off `PictureInv` and `TypeInv`, which has of each program what its places do not tell: the modes and palettes it sets, the light that waits
    (never negative), the decoder's place and numbers, and `BuffKept`, that a place of the buffer never read is `Never` and any other one of the file. It needs a height that fits the 16 bits of a line's number.
  * `NoLightCreated` (`NoLightCreatedHolds`) is an account of sums. `Diffused` says for each colour that the light of the dots the file has given, less three parts for each at most, is the light of the
    levels shown and of what waits in the line under way and in the two below it; a dot moves light between these (`CellsMove`, `BelowMoves`) and loses what the integer divisions
    drop, a line shown moves the whole of it (`LightLine`, `ScreenAdds`). The random share only says where the light waits. `Dithered` says of each pair of lines that every four dots have the light of their one (`FourSound`,
    from the table of the dither), `LinesNear` that a dot without dither is less than a level off. x68load and tiffload take a dot from two bytes: `X68Pairs` and `TiffPairs` say that the two lie together
    in the buffer, which holds because a buffer and a header have an even number of bytes; of an odd file the last byte pairs with an old one, so the balance of x68load is stated for even ones.
  * Assumed of the files: `IsBmpFile`, `IsRgbFile`, `IsTiffFile` - a line fits the buffer - which the code takes for granted: with a longer one `freadline` would compute with
    a buffer of no lines. `SaveAssumption` has it of the widths that the mouse can mark, at most 1024 dots of one byte, against a buffer of 16384 bytes.
* `SmallToolsProofs`: a part for each of the programs, and their composition.
  * The telnet set-up: `OpenIInv` ties three things together at each place of `telnet()`: the handle given (`HandlePhase`), the
    states the connection can be in (`TcpPhase`; `tcp_shutdown` leaves none in which the host still sends) and the reason
    for its end (`ReasonKnown`: a connection that is going has one). `EndKnown` is what follows at the end.
  * SNTP: `OnTheirWay` says of every request and answer, in flight or queued, that its stamps were taken between
    the moments they claim; `WhenChosen` keeps that for the answer taken until the clock is set. `DateThenTimeExact` shows that the date, the time and the
    test for 0:00:00 give the moment of one of the two calls; `MovedExact` that seconds, half seconds and carry add up to what `calc_time` gives;
    `StampsSuffice` is the bound itself. For any length of a day, width of an int and number of requests.
  * UDP echo: an answer is found by counting. `EchoAccount`: every line typed was shown, aborted or is being waited for.
    `EchoPlaces`: the k-th of the answers shown, queued and on the wire has at least the number k, so one that
    is shown is behind by no more than the aborted waits.
  * ping: no two requests carry the same time (`PingSent`), so `Cardinality(requests)` is the number sent; `PingPrinted` keeps with
    `DelayFromItsRequest` that the count of answers is the number of lines printed, both modulo the width of a uint (`CountsOn`). The loss then
    is the share, because the numbers answered are among those sent (`AnswersFewer`).
  * FM: `FmInv` says of each channel that the shadow arrays are what was loaded (`Loaded`), that the key's register is its shadow with the key
    on or off (`KeyShadowed`), and what a tone has left (`Played`). Each call writes a list of registers; `LastWritten` and `NotWritten` say
    what a list does, `RegistersApart` that the lists of two channels do not meet, for any set of channels up to nine. `Roomy` is the one exception, channel 8 of packed arrays.
    `NumbersFit` and `NumberReadBack` show that a frequency's number, halved into a block, fits the ten bits and is read back.
  * MD5: `ContextOf(c, D, n)` is that the context `c` has the whole blocks of the first n bytes of `D`, the rest of them at the beginning of its block, and their number of bits in two words.
    `UpdateKeeps` shows that bytes n + 1 to z take it from n to z, by the arithmetic of a length and its remainders (`PartArith`, `LowWordTells`: the low word alone tells how
    many bytes wait, since `WordMod` holds whole blocks). `FinalBlocks` shows that `MD5Final` then makes `Blocks(D)`, in one block or in two.
    `BlocksTell` is that messages with the same blocks are the same: the length at the end tells where the message ended. Without it a changed file could not be told from the
    listed one in the model either. `Md5Inv` ties this to the program: the file being read is the one whose turn it is (`Md5Reading`), and the digests, `ex`, `failed` and `checked` say
    what has become of the names or lines before the turn (`MainKept`, `CheckKept`). A length field of two equal words is assumed (`LengthBytes` even); with an odd one the last word is a byte longer and `Blocks` differs from `MD5Final`.
  * The command line of TFTP: `ArgsInv` says at each place of `main()` what the options are. `LineSeen(n, t, s)` is what the first n arguments say; it is kept apart from `optT` and `optS`,
    which change afterwards (a sender waits three seconds, an OACK brings other values) while what was asked for does not. `Sent` is that the request has these options: `OptionAsked` shows that an option at the end of a
    packet is one pair more for the server, which reads it by counting nuls. `Reading` is that the loop over the OACK has read the first j of the options agreed on, in some order, and `Heeded` that a value is the one agreed or the one before;
    since each option is agreed on once (`AgreedOnce`), the order does not matter. Assumed of a command line: its words are not empty (`IsLine`), which the blanks between them see to.
  * `SmallInv` puts the parts together for the machine that runs any of the programs: a part that shares the UDP handle holds while its own program runs, and the program that does not run has done nothing (`StepParts`).
    The theorems of a single program's specification (`ClockSetRightHolds`, ...) follow from the same lemmas.
  * `TypeOK` (`SmallTypesHold`) needs the bounds that keep it, `SmallBounds`: the tries counted (`SntpBounds`), a line of keys for each string (`EchoBounds`), an arrived message for each printed (`PingBounds`), the form of a context
    in all places, not only while it reads (`Md5Bounds`), numbers for the options the server grants (`ArgsBounds`). Assumed is that the time begins within its bound and that a command line is a sequence of words.

Only model-checked: the liveness properties (`BegunTransferEnds`, `ErrorEndsTransfer`,
`CloseIsNoticed`, `FileSendEnds`, `SntpEnds`, `RlePictureShown`; the prover has no ENABLED), and what the violation runs find. Induction over data is within reach only where it can be stated with a set of numbers (`Induct`); the library's
theorems with an operator as parameter are not, and `SelectSeq` cannot be expanded, so that selections are stated by counting (`IsSelection`).

## 6. Outside the models

* TFTP: the check for a resident stack and its version, datagrams of foreign hosts (tftp.xx:86 names this limit), blocks above 65535, a full disk (the
  result of `fwrite` is not read), block sizes above the buffer, arguments and messages, the
  `udp_state` polling of `net_udp_open`. No power-off: nothing is kept between runs. The early return for
  a file that cannot be opened (-2) and for a handle (-1) are one outcome. `tftp_recv` returns 0 after a
  packet shorter than four bytes: the refinement counts that as failed and says so with `cut`, as it does of a packet looked at twice after a retry, which ends the same way.
* Telnet: the test for a PC-88VA (`sw_va`) and for the stack's version, file reception and the log
  (copies of what is shown), VA text output,
  a connection cut during `send`, the 160 bytes of a typed line (the model bounds the line), `output_sjis`, which with its
  lead-byte test commented out shows its input unchanged.
* UDP tools: the strings of the echo, addresses shown, answers of `sntpget` shorter than a packet, leap indicator and stratum (the code does
  not read them), daylight saving (`tm_isdst` is never assigned; a `TZ` without it is assumed), the seconds that
  `printf` takes between reading and setting the clock beyond one tick.
* MD5: the rounds of `MD5Transform`, which keep no state of their own; the hexadecimal text of a digest.
* GA: what the library draws (it is not in the repository); failures of `malloc`; header fields that are not
  read again (`bfSize`, `biSizeImage`); the dashes of a box whose corners are swapped; an argument list without a
  file name; a file of 8-bit pixels shown in 65536 colours (`/16`).
* FM: the waits between port accesses.
* Everything listed as not modelled in section 1; the TEEN stack, the GA library and the BIOS are other programs.

## 7. Plan

Done: every part of section 1 with state of its own; eight modules of theorems, which state every invariant that a passing run checks. Left, in order of worth:

1. `EsenetRecv` composed with `EsenetJis` (the screen of a JIS host), and with `EsenetOpen`, whose `main` it is.
2. Properties for the hazards that have none: the sender's missing timeout, what a retry should do.
