# SSH Workspace: specifications, model checks and proofs

TLA+ specifications of the SSH Workspace application (a Tauri program: a Rust
back end under `src/src-tauri/src`, one web page under `src/ui`). They cover
the parts where threads, the page's event loop, the network and the disk meet:
session life cycle, command queues, transfers, editing in place, prompts,
forwarded connections, host keys, serial ports and the host store.
`PROJECT.json` lists the components, runs, mutants, hazards, findings and
theorems, and maps every definition to the lines it models.

## The system

Synchronous Tauri commands (`ssh_write`, `ssh_close`, `delete_host`,
`reset_sessions`, `save_host`, ...) run one at a time on the main thread.
Asynchronous ones (`connect_host`, `sftp_open`, `sftp_list`, ...) run on a
blocking pool. Each session has threads of its own. The page is single-threaded
but interleaves at every `await`.

| Component | State | Operations | Talks to |
| --- | --- | --- | --- |
| Terminal back end (`ssh.rs`) | map id -> queue sender; per session: queue, pump thread, `pending`, `alive` | connect, send, disconnect_host/all, pump | page (events), X11 and tunnel threads (`alive`, queue), host store |
| Terminal tabs (`main.js`) | `tabs`, and per tab `sid`, `dead`, dot, reconnect button, unlisteners | open, attach, reconnect, close, delete, exit event | back end (commands, events) |
| SFTP back end (`sftp.rs`) | map id -> sender and cancel flags; worker; transfer threads; watchers | list..chmod, transfer, edit_open, close | permits, page, a new SSH session per transfer |
| Transfer permits (`sftp.rs`) | counter under a mutex, condition variable | acquire, drop | transfer threads |
| Transfers and editing (`sftp.rs`) | position and length of a copy; a watcher's last time | upload, download, resume, poll | files on both sides, permits, the user's editor |
| Copy loop (`ssh.rs`) | two byte buffers, end-of-file flag | read, write, exit | jump bridge, tunnels, owner's `alive` |
| Tunnels, X11, bridge (`tunnels.rs`, `x11.rs`, `ssh.rs`) | listeners, helper sessions, handshake buffer | accept, SOCKS5, connect, copy, setup rewriting | terminal session (`alive`, queue), copy loop |
| Prompts (`ssh.rs`, `main.js`) | map id -> reply sender; one resolver per modal | ask, time out, reply, submit, cancel | connecting threads and the page |
| Host store (`hosts.rs`, `secrets.rs`) | host list in memory, `hosts.json`, OS keyring | upsert, duplicate, remove, load | page, connecting threads |
| Host keys (`ssh.rs`) | `known_hosts` | check, reset | every connection |
| Serial (`serial.rs`, `main.js`) | map id -> sender, worker, device; the tab's id and `dead` | connect, write, break, close, reset | page |

What makes them correct, and hard: a session must have an owner and end when it
is told to, although the order to end may come before the session is known; no
keystroke may be lost or reordered on its way through three buffers; no waiting
thread may be forgotten (permit, blocking call, prompt); bytes forwarded in both
directions must survive short writes and half-closes; a copy must be whole, and a
save reach the server, while other threads write the same files; files that are
read, changed and rewritten without a lock must not lose what they hold; the
disk, the keyring and memory must agree after a failed write or a crash.
`hazards` in `PROJECT.json` has one entry per place where this can go wrong.

## Modules

| Module | Models | State and actions |
| --- | --- | --- |
| `Semaphore` | what the permits promise | who asks, who is inside |
| `TransferPermit` | `Permit`, `PermitGuard`, the transfer threads | `count`; `pc` per thread. A section under the mutex is one action, so the drop is two: the decrement, and `notify_one` with the lock released |
| `Queues` | `Only`, what of a queue is in a set | used by the properties of both terminal back ends |
| `Terminal` | what a tab may count on from its back end | `phase`, `given`, `taken` per line: a line is opened once; its input goes out in order while it lasts; told to end, it ends; none is given afterwards |
| `SshSession` | `connect`, `SshManager`, `pump_loop`, the pump thread's last lines, `disconnect_host`, `disconnect_all`, the X11 export | `conn` follows `connect`, `pump` follows the pump thread. `sweep` is the one synchronous command that takes several steps; the others run only when it is idle. `SshLine` is the terminal it implements |
| `TermTab` (extends `SshSession`) | the page's tabs over that back end | `tab[t].ph` is the await of `attachSsh` the tab is at; `listeners` and `events` are the two halves of `listen`; `requests` are `ssh_close` calls nobody awaits |
| `SerialPort` | `SerialManager`, the worker, `openSerial`, `closeTab` | `call[t]` is the await of `openSerial`, `worker[t]` the worker's place; `device` is who has the one device open. `PortLine` is the terminal it implements |
| `SftpSession` | `SftpManager`, the worker, blocking calls, transfers, watchers | `queue` is the mpsc channel; dropping the receiver is an action of its own; transfers use the permit through `Semaphore` |
| `TransferFile` | the transfer thread, `upload_path`, `download_path`, `copy_progress` | a file is a sequence of pieces named by their writer; `job[x]` is a thread's copy: what it measured, where it is, the piece it holds |
| `EditSync` (extends `TransferFile`) | `edit_open`, `download_file`, `watch_edit` | `edit[e]` is the call with the place and the piece of its download, then its watcher with the last time it saw; the editor's saves and the clock are the environment |
| `Splice` | `splice_channel` | one action per statement of the loop, the peers and the owner around it; `skipped` is how much of the socket was read before the loop |
| `Socks5` (extends `Splice`) | `socks5_target` | `field` and `need` are the `read_exact` that comes next, `target` what has been read; the bytes come from the wire of `Splice`, where the client may already have put more |
| `X11Setup` | `xauthority_cookie`, `rewrite_setup`, the first part of `proxy` | `hs` collects fragments, `toLocal` is what goes to the X server; numbers are 16 bits in either byte order; no cookie (`NoCookie`) is not an empty one |
| `Forwards` (extends `Socks5`, `X11Setup`) | the helper threads of the tunnels, of X11 and of the jump bridge; `serve`, `proxy_to_local` | `helper` is the listening thread, `conn` the thread of its connection, from the handshake to the copying |
| `AuthPrompt` | `UiPrompter::prompt`, `ui_prompt`, `auth_prompt_reply`, the event handler, `askSecret`, `askText` | `owner[m]` is whose resolver a modal holds, `title[m]` whose question it shows; an answer is the title it was typed under |
| `HostStore` | `hosts.rs`, `secrets.rs`, the healing in `authenticate`, the bookmark star | a write is two actions, truncate and fill; `conn` is a connection working on a clone of a host, `tab` a file tab holding one |
| `KnownHosts` | `check_host_key`, `reset_host_key` with and without `ssh-keygen` | `conn[c]` and `reset` hold the lists read; a write is two actions, the truncation and the list from the start of the file, a rename one, after which older writers write to a file without a name |
| `TransferPermit_proofs`, `SftpSession_proofs`, `AuthPrompt_proofs`, `HostStore_proofs`, `KnownHosts_proofs` | theorems about the module of that name | |
| `Terminals_proofs` | theorems about `SshSession`, `TermTab`, `SerialPort`, and both as a `Terminal` | |
| `Forwards_proofs` | theorems about `Splice`, `Socks5`, `X11Setup`, `Forwards` | |
| `EditSync_proofs` | theorems about `TransferFile`, `EditSync` | |

`MC*` modules give constants their values. `MCTerminals` also puts the two
terminal back ends side by side: they have no state in common, and a behaviour
is one of either, chosen at the start, while the other stays where it starts.

Operators whose comment starts with *Mutant* are not part of a specification:
they are variants of the definition below them with a plausible bug, used to
confirm that the properties notice it.

History variables are marked as such where they are declared (`accepted`,
`typed`, `orphaned`, `missed`, `unheard`, `batch`, `deleted`, `stranded`, `used`,
`disturbed`, `meddled`, `trusted`, `overlap`, `patched`, and the two `excused`): no guard
that stands for code reads them, except that ids are never reused and that a bound
stops counting. The last seven record what someone else did to a file while a thread
held an older view of it; the properties use them to say exactly when a loss is not the code's
to prevent with the design it has.

### Abstractions worth knowing

* A data command is one element, not a byte string; a partial write takes whole
  elements. What `pump_loop` guarantees is an order of elements, and splitting
  one changes nothing the properties can see. `Splice` does count bytes.
* `pump_loop`'s keepalive failure, a failed write and the remote end of file are
  all "the loop returns"; the receiver, with what it holds, is dropped with it.
* A condition variable may wake a waiter unasked, and `notify_one` picks any.
* The page's continuation after `listen` is a step of its own: the registration
  happens in the back end, and the exit handler may run before the page resumes.
* `persist` either fails before it touches the file, or truncates it; a crash or
  a failure after that leaves it unreadable, and `load` takes it for an empty list.
* `protect` asks the keyring once and believes the answer: it is available for
  the whole command or not at all. Every secret field goes through the same
  lines, so that the runs have one, `password`; the proofs have any.
* `TransferFile` merges upload and download, which differ only in the side of the
  destination, and copies one file: the recursion makes one such copy after
  another in the same thread.
* `KnownHosts` keeps a line's name and key. A check matches a server's own name
  and its bare address, as the library's `check_port` is used. Both writers truncate
  the file and then write their list from its start. A writer that truncated it earlier
  and writes later writes over the other's list: lines have any length, so what stays
  behind the shorter list is any part of the longer one (`Lands`). A list goes out
  whole or not at all, and what is left of a line that was cut names no server.
  `ssh-keygen` renames a new file into place, so that a list whose writer has truncated
  the old one reaches nobody (`AddsInVain`). Hashed names are left out.
* The download of `edit_open` reads and writes a piece at a time, as a transfer does
  (`DownloadReads`, `DownloadWrites`), beside transfers and saves of the same files.
* `Socks5` reads numbers off the wire, field by field; the text of an address
  (`to_string`, `from_utf8_lossy`) is left out, and with it a name that is not UTF-8.
  A byte on the wire is its position; `Says` gives the value it has in the client's
  request, and what follows the request is payload.
* `Forwards` has one connection per helper, which is all that connections of one
  helper share with each other. X11's way back, the same loop as `Splice`, and its
  short writes are left to `Splice`. Without a cookie the client's block is passed on as
  it is; a record with no data is a cookie of length zero, and the block is rewritten.
* A serial tab is its session: a tab opens its port once. The worker's
  `Disconnected` branch cannot be reached while the map holds the sender, except
  through a close, which sends first.

## Runs

| Run | Question | Bounds |
| --- | --- | --- |
| `permit` | cap kept, no wakeup lost, every transfer ends, the permit implements the semaphore | 4 transfers on a cap of 2, so that two wait at once (the code's cap is 4; the proofs cover every cap) |
| `terminals` | SSH: input, hook line, exit order, every Disconnect and every sweep ends what it should. Serial: typed input, live tabs, devices given back. Both: the back end implements `Terminal`, fairness included | 1 session, 4 data commands (hook, export and two typed of 2 letters), 1 deletion, 1 reload; or 2 serial tabs for 1 device, 2 keystrokes each, 1 reload |
| `tabs` | orphans, stale live tabs, dead tabs | 2 tabs, 2 attempts, 1 host, symmetric; reload left to `SshSession`, since it destroys the page |
| `sftp_serve` | callers return; transfers queued in time are done; watchers cancelled | 1 call, 1 edit, 2 transfers on 1 permit, 2 Disconnects |
| `forwards` | bytes in order, orderly exit, the handshake takes its own bytes, own cookie, everything ends with its owner | each of 5 kinds; 2 bytes each way (a short write leaves a rest), behind the request on a dynamic tunnel, and the client may stop after any of them; 10 SOCKS requests (3 kinds of address, a name of no length, one wrong in each of the 6 places where it can be); 5 Xauthority files (the display's record, a wildcard, none that fits, none at all, one without data); blocks of both byte orders with 4 lengths of name and 3 of data, cut anywhere |
| `auth_bridge` | answers, replies, timeouts | 2 batches of 0 to 2 questions over 2 modals |
| `store` | disk, markers and keyring agree, in both directions | 2 hosts (an original and its copy), 1 secret, 1 connection, 1 file tab, 1 crash |
| `files` | copies are faithful, saves reach the server | 1 file edited twice over, 2 threads at once, 2 saves of 2 pieces within 2 seconds, symmetric; the file has 1 piece at first, and the other pane a longer one that begins alike, so that a transfer, a resume and a second download meet files that are shorter, longer and changed in between |
| `host_keys` | one key per name, keys remembered, changes noticed | 2 connecting threads and a reset, 2 servers of one address, 2 keys, 1 change; any part of the longer of two lists left behind the shorter |

`CHECK_DEADLOCK FALSE` is used where the system stops for good: all transfers
finished, the loop returned, all attempts used up.

### Disagreements between the code and what is said of it

Each of these runs checks one statement of a comment or message of the program,
and TLC's counterexample is a behaviour of the code.

| Run | Statement | What happens |
| --- | --- | --- |
| `auth_takeover` | "answer each sequentially and reply with the answers" (`main.js:523`) | a second batch replaces the modal's resolver; the first handler never resumes, even with a user who answers all he sees |
| `edit_shared` | "saving the local copy uploads it back" (`main.js:1893`) | two remote files of one name share the session's local copy, and both watchers upload it: one file is overwritten with the other |
| `bridge` | the bridge "serves exactly one connection (the inner SSH session) and exits when it does" (`ssh.rs:295`) | the inner session's socket has closed and the target is silent: the copy loop waits for both ends, and the bridge has no owner whose end it would see |

Passing properties stand next to these: `AnswersAreOwn` and `ThreadReturns` say that
a taken-over batch costs a timeout and never gives an answer to the wrong
connection, `EditNotLost` what does hold of a file that is edited alone,
`BothClosedEndSplice` and `OwnerEndStopsForwards` when the copy loop does end.

Smaller differences met while modelling are in the wording of properties that
pass:

* A connection that is under way when its host is deleted, its tab closed or the
  page reloaded yields a session nobody owns. `NoOtherOrphans` says that there is
  no other way to one, `LiveTabIsLive` the same of tabs that only look alive.
* A watcher whose download was answered before the session ended starts after it,
  with a flag no list holds, and runs until its file goes or a save finds the session
  gone. `ListedWatchersCancelled` speaks of the others.
* A shell that ends before `attachSsh` resumes leaves a tab whose session is gone
  and which has no reconnect button: the exit handler has made the button, and the
  resumed function removes it. `DeadTabOffersReconnect` speaks of tabs *shown* dead.
* A transfer queued behind a `Disconnect`, or after the worker has left its loop, is
  dropped without an `sftp-done` event. `QueuedBeforeCloseIsDone` speaks of the others.
* A serial tab closed while `serial_connect` is under way has no id to close: the
  device stays open until the page is reloaded (`ClosedPortIsFree`). A worker that
  ends on an error leaves its entry in the map; nothing but a little memory depends
  on it, since the page knows (`LiveConsoleIsLive`).
* `splice_channel`'s comment says "until either side closes" (`ssh.rs:328`); the
  loop needs both ends to be over. `BothClosedEndSplice` says so.
* A resume trusts the length of the destination, so one that is not a prefix of the
  source ends up corrupt and is reported as done; such a copy counts as disturbed
  in `UndisturbedCopyIsFaithful`.
* A save in the second its copy already bears, a save before the watcher's thread has
  first looked at the copy, or uploads of two saves that overlap, can leave the
  server without the last save; `EditNotLost` excuses exactly these, failed uploads
  and downloads over the copy. A download's end makes up for it, but not if anything
  has written the remote file or the copy since it began, or an upload is under way
  that still will: `io::copy` has then read some of the old file and some of the new,
  and the watcher that starts behind it takes the mixture for what the server has.
* Concurrent writers of `known_hosts` can drop each other's lines, and a reader can
  meet a truncated file and take every server for new: `KeysRemembered` and
  `KeyChangeNoticed` bound the damage to such overlaps. Two writers that have both
  truncated the file leave the shorter list with the end of the longer one, and with
  it perhaps a second key for a name: `OneKeyPerName` excepts the names of lines left
  behind so, and says that there is no other way.
* A record of `~/.Xauthority` without data counts as the display's cookie: the X server
  is shown an empty one, although another record might have the right one.
* A keyring entry can outlive its host: the keyring does not answer during the
  deletion, a connection stores the secret again after it, or a crash takes a host
  that was not on disk. `NoOtherLeftovers` says that there is no other way; the
  direction that always holds is `MarkersHaveEntries`, no marker without an entry.

## Fairness

Weak fairness on what threads that exist do when scheduled, and on delivery of
events and calls inside the process. In particular: `connect()` returns, an `sftp`
call returns, a transfer ends, a command
that has begun on the main thread is carried through, the prompt's timer fires, a
serial read ends after 60 ms, a page's request to the back end is answered. In
`Forwards`, what the helper and the connection block in has a timeout (accept polls,
SOCKS reads) or is taken to return (connecting), except the bridge's `accept`, which has none and gets no
fairness; the copy loop's turns are fair, the peers' bytes are not.
Only the TCP half of connecting has a timeout of the program's own (10 s, and 30 s for
a read or write of the socket). The SSH handshake, authentication, channel requests and
SFTP calls wait inside libssh2, for which no session timeout is set: that they return
assumes that the server answers in the end or that the connection breaks. A server that
does neither keeps the thread, and what waits for it; no liveness property says more.
Nothing is assumed of the user, the remote shell, peers of a forwarded
connection, saves of an edited file, spurious wakeups or the keyring. Only
`AttentiveSpec`, in the run `auth_takeover`, adds a user who answers every modal
that is shown, to make the counterexample independent of his patience. `HostStore`,
`KnownHosts` and `EditSync` have safety properties only and assume no fairness.

## Proofs

`TransferPermit_proofs` proves, for every finite set of transfers and every
positive cap, type correctness, `CapKept`, `NoLostWakeup`, and that every step
is a step of `Semaphore` or a stutter (`PermitSimulatesSemaphore`).
The inductive invariant `PermitInv` is the type invariant with
`count = Cardinality(At("holding"))` and
`NoLostWakeup`. The last is inductive only together with the exact count: a drop
frees a permit and makes a notifier in the same step; `notify_one` turns the
notifier into a woken thread, or finds nobody waiting; a woken thread either
takes the permit or parks because there is none. Each action moves one thread
between two program points, or two threads for `notify_one`, so four lemmas about
cardinality (`MoveOne`, `CountOne`, `MoveTwo`, `AtFinite`) carry all the
arithmetic. Assumption: `PermitAssumption` (finitely many transfers, a positive
cap).

`Terminals_proofs` is about the two terminal back ends and the page's tabs, for all
sets of sessions, tabs, hosts, consoles and inputs.

* `SshTypes`, `SshExitIsLast`. `ExitIsLast` is not inductive: `EmitExit` only looks at
  the pump. `Teardown` adds what each of the four lines after `pump_loop` has
  established when it is passed, that `exits` is 1 exactly when the last line is
  reached, and that a pump exists only after `connect()` has returned, so that
  neither `InsertEntry` nor `SendHook` can undo an earlier line.
* `SshInputConserved`. It filters the queue (`Only`), and a recursive filter is out of
  the provers' reach; `Only` is the last value of a table over the queue. That the
  table exists, and is unique, goes by the least length at which it would not
  (`LeastNumber`, from well-foundedness). What an append or a dequeue does to it
  follows, and the invariant is then inductive with the types and `Teardown`.
* `SshHookFirst` needs only that nothing is *accepted* before `connect()`'s own line
  (`HookAccepted`); conservation of input carries this to what the shell reads.
* `TabsImplementSessions`: a step of the page is a step of the back end or leaves it
  alone, so that all of the above holds under the page.
* `DeadTabsHaveNoSession`, `NoOtherOrphansEver`, `LiveTabsAreLive`,
  `DeadTabsOfferReconnect` follow from one invariant, `TabInv`: what each await of
  `attachSsh` knows (`PhaseOK`), that sessions a tab has given up are out of the map
  (`GivenUpOK`), who is registered with the back end and who can unregister it
  (`ListenOK`), that an exit that has happened is on its way or was missed (`NewsOK`),
  that an id belongs to one tab (`Own`), and `NoOtherOrphans` from the start of the
  attempt on, before the session is in the map (`Traced`).
* `TypedReachesDevice`, `LiveConsolesAreLive`, from `SerialInv`: the types, that a worker
  exists only for a console `serial_connect` has opened, and that an end is news
  from the moment the tab is there, before it has an id.
* `SessionsAreTerminals`, `ConsolesAreTerminals`: the safety half of `ImplementsTerminal`.
  `LineMoves` says what a step may do to one line; a step that moves only one is
  then a step of `Terminal` whatever it does inside. Ordering several sessions or
  consoles to end (a sweep, a reload) is the case that moves more than one, which
  `TellEnd` has. What the shell or the device has taken is a prefix of what
  was given by conservation; that no line is open before it has been entered in
  the map needs `Entered`.

Assumptions: `SshAssumption`, `TabAssumption`, `SerialAssumption` (the special commands
are none of the inputs, `None` is no session or host, bounds are numbers).

`Forwards_proofs` proves, for every number of bytes, `BytesInOrder` and
`CompleteDeliversAll` of the copy loop. `BytesInOrder` is inductive with the types:
three lemmas (`ReadKeepsOrder`, `WriteKeepsOrder`, `SendKeepsOrder`) say what moving
bytes from one of the three places to the next does to their concatenation, and
rest on associativity alone (`Cat` is `\o` under a name the solvers do not expand).
`CompleteDeliversAll` needs `Ending`: the loop's flag for the socket's end of file
implies that the socket's peer has closed *and* that its wire is empty, which stays
true because a closed peer sends nothing. Both are proved with the bytes a
handshake has taken from the front of the socket's wire (`Skipped`), and so hold of every
tunnel and of the bridge (`ForwardedBytesInOrder`, `ForwardedCompleteDelivers`).
`SocksTakesItsOwn` proves `HandshakeTakesItsOwn` for every request a client can make, of
any lengths. `AskInv` says of each field what has been read when it comes up: its place in
the request is what was skipped, its length is `need`, and what the earlier fields
allowed holds of the request. Each field is then one lemma about a part of a
concatenation; that the next `need` bytes of the wire are those of the field is
`BytesInOrder` of the socket, so that `AskInv` is inductive with it.
`XServerGetsOwnCookie` proves `XServerSeesOwnCookie` for every stream, of any bytes,
lengths and fragments, and any cookie. `SetupInv` relates what was read to what was passed on: until
the block is complete nothing is passed on and `hs` is what was read; afterwards
what was passed on is what was read with the block replaced. The work is
arithmetic on lengths: that the two padded lengths are bounded by what was read,
and that reading more changes neither (`Complete` and `Total` are stable).
Assumptions: `SpliceAssumption`, `AskAssumption` (what the format has room for),
`SetupAssumption`, `ForwardsAssumption`.

`EditSync_proofs` proves `CopiesFaithful` and `EditsNotLost` for any files, contents,
edits, transfers and any cap. `CopyInv` says of each place of a copy what it knows of
its two files: what it has opened exists (`There`), and, unless something else
touched one of them, the destination is a prefix of the source that ends at the
position, with the piece in hand next (`Faithful`). `SyncInv` adds what a watcher owes
the server: unless excused, a save is unnoticed, or an upload of the copy has not yet
opened the file, or the only copy into the file is a faithful one from the edited
copy, or the file is that copy. A download owes nothing while it goes on, its copy
being excused; that it may clear the excuse at its end is `DownOK`: unless somebody has
meddled with its two files, the copy is a prefix of the remote file that ends at its
position, with the piece in hand next. Most of the proof says that copies elsewhere do
not matter. Assumptions: `FileAssumption`, `EditAssumption`.

`SftpSession_proofs` proves `ListedWatchersCancelled`. The invariant `WatchInv` ties
the entry to the worker's phase: a flag is listed only with the entry, and the
entry goes in the step that flips the flags.

`AuthPrompt_proofs` proves `AnswersAreOwn` and `NoReplyLost` for any number of
connections. What makes them inductive is `Shown`: a resolver that a modal still
holds belongs to a handler with exactly one question on the screen, under its own
title, whose answers and remaining questions add up to the batch; with `OneModal`,
no handler holds two. A handler that has lost its modal satisfies nothing and
needs nothing, since it never acts again. Assumption: `PromptAssumption`.

`HostStore_proofs` proves all five properties of the store (and its types) for any
number of hosts, secrets, fields and crashes. The invariant asks the same of the
three places a host can come back from, memory, file and tab: each marker is its
own and has an entry, unless the host was deleted. `Later` says how the keyring may
change (`GoodLater`: what was good stays good), so that each command only has to
show that the one host it stores is good. `BlankKeepsSecret` needs in addition that
ids are never reused, or a copy could replace a host. `NoOtherLeftovers` is the other
direction, inductive by itself: a command that stores a host touches only that
host's entries (`ProtectLeaves`). Assumption: `StoreAssumption`.

`KnownHosts_proofs` proves `OneKeyPerName`, `KeysRemembered` and `KeyChangeNoticed` (and
the types) for any number of connections, servers and keys. The file alone is not
inductive: a stale list may be written back. For the first, *every* list is
single-keyed, in the file or in anybody's hands, but for the names of lines a write
has left behind it (`patched`, which only grows); the only step that makes a list
longer adds a name that concerns a server none of its lines concerns. For the
others, `MemInv` says what a list is worth to its holder: one that nobody has made
out of date (`overlap`) says what the file says, less the lines of reset servers,
and while its holder writes, the file is empty and the list is all that is left.
Assumption: `HostKeyAssumption`.

Two attempts failed for a good reason. `EditNotLost` was not provable as it was first
stated: a save before the watcher's first look at the copy is never uploaded, which
the history did not excuse and the run's bounds did not reach. In `X11Setup`,
overlapping arms of two `CASE` expressions left the value open where the code's order
decides; they are now `IF`s. Both models were corrected.

Model-checked only:

* liveness under fairness, which is outside what the proof system handles:
  `EveryTransferEnds`, `DisconnectEndsSession`, `ListedSessionsEnd`, `ClosedPortIsFree`,
  `CallsReturn`, `QueuedBeforeCloseIsDone`, `BothClosedEndSplice`, `OwnerEndStopsForwards`,
  `ConnectionSettles`, `ThreadReturns`;
* the fairness halves of the refinements `ImplementsSemaphore` and `ImplementsTerminal`,
  whose safety halves are proved.

Every invariant and every other action property that a run checks is proved. The
type invariants (`TypeOK`, `SshTypeOK`, `SpliceTypeOK`, `StoreTypeOK`, `HostKeyTypeOK`) are
proved, alone or as parts of larger invariants, and are not checked again by runs.

## Not modelled

* Output from the shell, resize, recording: nothing else depends on them.
* The recursion of a transfer into directories, its progress events,
  `delete_remote` and symbolic links, the listing of a remote tree: sequential
  calls with no state of their own between them.
* Host fields other than the authentication; the parser of `~/.ssh/config`;
  fonts; local file panes; rendering; packaging. Pure parsing, presentation or
  direct file system calls.
* X11's search for a display and the parser of `DISPLAY`; the settings of a
  serial line.
* The network below a session, and the remote file system: a call returns or
  fails.

## Plan

What is left, the most consequential first:

1. The safety parts of liveness properties as theorems: a listed session has a
   Disconnect ahead of it or has ended (`ListedSessionsEnd`), a blocked caller has a
   queued command or a reply on its way (`CallsReturn`), a waiting prompt has its
   timer (`ThreadReturns`).
2. The composition of `EditSync` with `SftpSession`: uploads that are refused
   because the session has gone.
3. The tabs checked against `Terminal` instead of the back end.
