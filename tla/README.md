# A TLA+ model of T2HASH-CORE

This project models the tunnel of `src/t2tunnel` in TLA+, checks the models with
TLC and proves the main safety results with TLAPS. It describes the code as it
is; where the code does something else than the repository's README says, a run
shows it (see "Disagreements").

## The system

`t2tunnel` is one binary that runs as a *server* or a *client*. A client accepts
local TCP connections and carries each as a smux stream over one connection to a
server; the server dials a target for each stream. The connection is KCP over
UDP, KCP over raw packets, TLS, or WebSocket; in all cases smux runs on top of an
obfuscation layer. A web panel configures and starts it as a systemd service.

| Part | State it keeps | Operations | What is hard | What makes it correct |
|---|---|---|---|---|
| Multi-path client (`multipath.go`) | current session and its server, failure counts, last failures, `m.current`, `m.mu` | `Run`, `handleConn`, `getSession`, `markFailed` | the lock is released before `OpenStream`; dials happen under the lock; sessions die at any time | one connection, none forgotten; failures blamed on the right server; failover reaches a server that works |
| Single-server clients (`engine.go`, `engine_tls.go`, `engine_ws.go`, `engine_raw.go`) | `session`, `mu` (not in the raw client) | accept loop, `getSession`, handler | the same; the raw client has no lock; a broken session lingers until its keep-alive | one connection; never a nil session; reconnection |
| `pipe` (`engine.go`) | two goroutines, a `sync.Once`, a `WaitGroup` | copy, close both | either side may end, reset or stop reading in any order | returns with both ends closed; loses nothing of the direction that ended; never hangs once one side has ended |
| Server (`engine.go`, `engine_tls.go`, `engine_ws.go`) | listener, smux sessions, transport connections, streams, target connections | accept loops, session loop, stream goroutine | everything is a goroutine; a session ends while its streams dial or pipe, the listener closes while connections are handed over | nothing is stranded; what a session held is released; sessions and streams are independent |
| Raw-mode process (`engine.go` `main`, `iptables.go`) | iptables rules in the kernel, signal goroutine | `Apply`, signal handler, `Cleanup` | the rules outlive crashes, `log.Fatal` and signals before `Notify` | no duplicates; rules present while running; a clean exit leaves none |
| Network discovery (`autodiscover.go`) | interface, addresses and the gateway's MAC | route, interface, neighbour table, ping | the kernel changes the table between the readings; some parameters are given, others found | a tunnel runs with all of them, and with those given |
| Obfuscation (`obfs.go`) | read buffer | `Write`, `Read` | 16-bit lengths, errors in mid-frame | the byte stream is preserved |
| WebSocket transport (`ws_transport.go`) | accept channel, done channel, current reader | upgrade, `Accept`, `Close`, `Read`, `Write`, dial | connections handed over while the listener closes or the channel is full | each is accepted or closed |
| TLS transport (`tls_transport.go`) | a socket no session owns yet, how much of the hello was sent | dial, handshake, `fragConn.Write`, listen | the network fails or falls silent at any step, under the client's mutex | no socket is forgotten; the hello is sent whole; the dial ends |
| Raw packets (`rawpacketconn.go`) | receive channel, deadlines, sequence number | `readLoop`, `ReadFrom`, `WriteTo`, `Close` | full channel, deadlines changed while blocked, close while reading | no reader blocked after close |
| Panel (`webpanel/panel.go`) | password file, login sessions, service file, the service in systemd | first run, login, logout, actions, save, uninstall | a crash while saving or before showing a password; requests that overlap; commands whose failure nobody sees | a password that was shown; only live sessions act; systemd has loaded what was saved; an uninstallation is complete |
| ASM tunnel (`ASM-TUN-V1.0.asm`) | learned peer address | two UDP relays | peers that change | replies go to the last peer |

Interaction: a client (`MultiPath`, `ClientSession`) dials (`Dialer`), obtains a
smux session (`Smux`), opens a stream and calls `pipe` (`Pipe`). The server
(`Server`) accepts the connection, starts a goroutine per session, and that one a
goroutine per stream, which calls `pipe` too. `RawLifecycle` surrounds a process
in raw mode, with `AutoDiscover` at its start. smux runs over `Obfs`, which runs
over KCP, TLS or WebSocket; in raw mode KCP runs over `RawPacketConn`. `WebPanel`
starts and stops the whole as a systemd service.

## Modules

| Module | Models | Notes |
|---|---|---|
| `Smux` | what the clients rely on of the smux library: `IsClosed`, `OpenStream`, keep-alive | external; extended by the client modules |
| `SharedSession` | abstract: local connections share one connection to a server | implemented by both clients |
| `MultiPath`, `MCMultiPath` | `multipath.go` | one action per step between blocking calls |
| `ClientSession`, `MCClientSession` | `runClient`, `runClientTLS`, `runClientWS`, `runClientRaw` | every access to the shared variable and every step of a dial is a step |
| `Dialer` | `dialTLS`, `dialWS`, `fragConn` | the state of a dial; extended by `ClientSession` |
| `Pipe` | `pipe` | |
| `Server` | the accept loops, `WSListener`, `handleServerSession`, `handleTLSServerSession` | |
| `RawLifecycle` | `main` in raw mode, `IPTablesManager` | |
| `AutoDiscover` | `autodiscover.go` and the parameters of `main` | extended by `RawLifecycle` |
| `RawPacketConn` | `rawpacketconn.go` | receiving, sending and closing |
| `Obfs` | `obfs.go`, and `wsConn` of `ws_transport.go` | one direction of the byte stream |
| `WebPanel` | `webpanel/panel.go` | |
| `MultiPathProofs`, `ClientSessionProofs`, `PipeProofs`, `ServerProofs`, `RawLifecycleProofs`, `RawPacketConnProofs`, `ObfsProofs`, `WebPanelProofs` | | theorems |

### Smux

A session is *up*, *broken* or *closed*. It breaks when its socket fails; then
`OpenStream` fails although `IsClosed()` is still false, until the keep-alive of
24 s closes it. A session that is merely silent (no answer from the server)
goes from up to closed directly. Names of sessions are reused when nothing
refers to them, so that the model is finite while a behaviour may reconnect
without bound.

### SharedSession

Its state is the set of open connections and, for each goroutine, whether its
local connection is idle, waiting or streaming. A connection is made only when
there is none. The refinement mapping of both clients takes the sessions that
are not closed for the open connections and the goroutine's program counter for
its phase.

### MultiPath

`pc[h]` follows `handleConn`: `getSession` (waiting for `m.mu`), `scan` (the
loop over the servers, which holds `m.mu` because it dials), `openStream`,
`markFailed` (waiting for `m.mu` again) and `pipe`. The parts of `getSession`
and `markFailed` that do not block are one step, because they run under the
lock. `failCount` is counted up to the limit it is compared with; `recent[k]`
stands for `time.Since(lastFail) < 30s`, and `BackoffExpires` for the passing of
30 s. `link[k]` is the network to server `k`: *ok*, *refusing* (dials fail) or
*resetting* (dials succeed, sessions do not last) or *silent* (connections are
accepted and nothing is answered); it changes at will. `GivesUp` says when a dial
to a silent server ends: always, by the time-out of the dialer, unless
`OwnHandshake` (`-utls` or `-frag`) makes `dialTLS` do the handshake itself.

### ClientSession and Dialer

The clients have the same text but for their dial and the lock, so they are one
module; `transport` says which one runs (`wss` is `ws` with TLS). The dials of
KCP send nothing and so succeed without a server. Those of TLS and WebSocket
connect, write the ClientHello, wait for the handshake and, for WebSocket, for
the upgrade; the network may fail or fall silent before each. `open[h]` counts
the sockets of a dial that are neither closed nor handed on to a session.
`fragConn` writes the hello in chunks: `off[h]` is its loop variable, `wire[h]`
what has been written. Without the lock, two goroutines may both find no session
and both dial; the final `return session` reads the shared variable again, and
the model does too.

### Pipe

Goroutine `e` copies from end `e` to the other one. Each end has a remote party
that sends, finishes, resets, reads or stops reading, and a window of chunks that
may be written before it reads. `stream` says which end is the smux stream (`a` at
the server, `b` at a client): its remote party is another `pipe`, so when it
finishes it has closed the stream, and from then on smux refuses writes to it while
what it sent before can still be read. A chunk for it then ends the pipe, and what
was read from the stream by then is all that is delivered (`Refused`); that is one
of the reasons `EndsForAReason` allows. Because a goroutine holds one chunk at a time,
positions in each direction are enough to describe the data. `closeBoth` is two
steps under a `sync.Once`, whose second caller waits for the first.

### Server

`conn[c]` follows a connection: for WebSocket through the upgrade and the
`select` of the handler into `l.accept` (a channel of capacity `Cap`), for KCP
and TLS straight into the listener's backlog; then the accept loop takes it and
starts its session. `loop[c]` is the goroutine of the session with its two
deferred calls, `pc[x]` that of a stream. `pipe` is one step that closes the
target connection, as `ReturnsClean` of `Pipe` guarantees. At "write" the goroutine
of `pipe` that copies to the target is blocked in `out.Write`, because the target
does not read; it does not look at the stream then, so the end of its session does
not end the pipe, and the target connection stays open for as long as the target
neither reads nor goes away. Otherwise `pipe` returns once its session has ended.
`SessionEndReleases` therefore promises the transport connection in any case, and
a stream with its target connection only if the target is not blocked for ever.
`Close` of the listener is modelled although
nothing in the repository calls it; when `l.srv.Serve` returns by itself, that is
logged and `Accept` keeps waiting, which is what `ServeEnds` does. `Accept`
chooses freely between the channel and `closer`, and when it takes `closer` the
process ends.

### RawLifecycle and AutoDiscover

A parameter is unset, given, found or the address of zeros that the kernel shows
for an entry it is still resolving. `AutoDiscover` runs only when one is missing;
the neighbour table may change between any two of its steps, and `readNeighMAC`
falls back to `/proc/net/arp` when `ip` does not work.

The rules in the kernel survive the process. `Apply` checks and adds each rule;
only then is the signal handler installed, and only then are the remaining flags
validated. The handler's `Cleanup` runs beside `main`. A process can end by
`log.Fatal`, by a return of `main`, by a kill or by the handler, and is started
again (the unit file has `Restart=always`), one at a time. An operator may have
added rules by hand before. `iptables -C` and `-D` may fail for reasons of their
own; `faults[x]` counts how often they did for rule `x`, and `NoDuplicates` and
`CleanExitLeavesNothing` allow one copy of that rule for each such failure. A
failure that cost more than its own rule, or more than one copy of it, would
violate them.

### RawPacketConn

A packet is its number in the order in which the capture hands packets to
`readLoop`; it may have no payload, and the capture may end by itself. Every
`select` takes any case that is ready; `default` only when none is. `reader` is
the one goroutine of KCP that calls `ReadFrom`; it remembers whether it armed a
timer, which depends on the deadline at the time it began. `SetReadDeadline` may
be called at any time. It is a data race with `ReadFrom`: the reader may see a
mixture of two deadlines, which is one of the three kinds of deadline again and
so a value another call might have set. KCP exposes deadlines of its own and nothing
in the repository sets one on this connection, so no property is about them; they
are modelled because `Close` and `ReadFrom` have to work with any. `WriteTo` reads `seqNum`, advances it
and sends in three steps under `writeMu`; each may be where it fails. `wire`
keeps the last packet sent.

### Obfs

`wire` is what is in flight between one `Write` and the `Read` of the peer, byte
by byte (a 16-bit length counts as one). A data byte is its position in the
stream; lengths and padding carry values of their own. A reader that has lost
its place would interpret them as each other. `stage` follows the four
`io.ReadFull` parts of `Read`. With `transport = "ws"` each frame is preceded by
the start of its message, and `msg` says whether `wsConn.r` is set; a read then
crosses message boundaries and skips messages that are not binary. `ConnFails`
cuts the stream at any byte, in the middle of a write too. The random delay of
`applyJitter` changes nothing but time.

### WebPanel

`main` makes, saves and shows a password when `loadDB` finds none. `os.WriteFile`
is two steps, for the password file and for the service file: it empties the
file, then writes it. A file cut short is *torn*; a service file in which one
request wrote over another's text is *mixed*. `fd` holds the requests whose open
file is still the one in the directory. `loadDB` takes a file it cannot read,
intact or not, for none. Each request handled is a slot `r` that
moves through the commands of its handler; any command may fail, and the handler
goes on where the code does. systemd is modelled by what the panel needs of it:
the text it has loaded, the unit the running service was started with, and
whether it is enabled. `known` is the password the administrator saw last. Three
variables remember what went wrong, for the properties to except: `unseen` (killed
between saving and showing the password that is in the file; a new password and a
deleted file clear it), `stale` (a file changed without a successful
`daemon-reload`; the next one that succeeds clears it) and `alone` (the request that ran undisturbed).

## Runs

| Run | Checks | Shows |
|---|---|---|
| `multipath` | `NoOrphanSession`, `BlameIsAccurate`, `AllDownMeansAllFailed`, `ImplementsSharedSession`, `EveryClientResolved`, `FailoverReconnects`, `FailoverPassesSilent` | one connection through every failover, the right server blamed; nobody is stuck; the only server that works is found again, back-off and silent servers notwithstanding |
| `multipath_serves` | `FailoverServes` (violated) | see below |
| `multipath_leaves` | `FailoverLeavesServer` (violated) | see below |
| `multipath_silent` | `FailoverPassesSilent` (violated) | see below |
| `client` | `NoNilSession`, `DialLeavesNothing`, `HelloIntact`, `ImplementsSharedSession`, `EveryClientResolved`, `Reconnects` | all clients, through every step of their dials |
| `client_raw_shared` | `OneConnection` (violated) | what does not hold without the lock |
| `pipe` | `EndsForAReason`, `ReturnsClean`, `ClosingFrees`, `EndPropagates` | |
| `server` | `NoneStranded`, `EveryConnectionServed`, `SessionEndReleases`, `StreamsAreIndependent` | nobody is handed over to nobody, and nothing outlives its session but a stream whose target never reads again |
| `raw_lifecycle` | `RunsConfigured`, `RunsProtected`, `NoDuplicates`, `CleanExitLeavesNothing` | parameters and rules over crashes and restarts |
| `raw_packet_conn` | `InOrderOnce`, `NoSeqOverlap`, `CloseReleases`, `LoopEndsWithCapture`, `EveryWriteReturns` | order survives drops; two writers never use the same sequence numbers; nobody who waits is forgotten |
| `obfs` | `StreamPreserved`, `WholeFrames`, `NothingLost`, `EveryByteRead` | the byte stream of smux, over streams and over messages |
| `panel` | `ServesShownPassword`, `ResetRecovers`, `OnlyLoggedIn`, `LoadedIsSaved`, `UninstallLeavesNothing` | the panel killed at any step, two requests at once |

### Bounds

- Goroutines: two clients, two connections and two streams, two requests. Every
  race in the code is between two of them; the safety results are proved for any
  number.
- Servers: two, so that the rotation wraps and failover has somewhere to go.
  The proofs cover any number.
- `FailLimit`: 1 in the passing run instead of the 3 of the code, so that
  back-off is reached quickly; it is only ever compared with the count. The runs
  that show disagreements use 3.
- `LinkState`: the passing run of `MultiPath` has servers that refuse and servers
  that are silent; *resetting* ones break the liveness of failover, which
  `multipath_leaves` and `multipath_serves` show. The safety proofs cover all.
- Session names: one per goroutine and server suffice for `MultiPath`, since a
  new name is needed only when others are held; `ClientSession` needs one more,
  for the shared variable. The raw client can leak sessions without bound, so it
  runs out of names and a goroutine that finds none left waits; this is why
  `EveryClientResolved` excepts it.
- `Dialer`: a hello of three bytes, no chunks, chunks of two (which do not divide
  it) and of four (longer than it). The proof covers every length and size.
- `Server`: a channel of one, so that a second connection finds it full. KCP
  stands for TLS, whose loop is the same.
- `WebPanel`: two passwords (a new one differs from the one known), one token, two
  texts of the service file, so that a save changes what is loaded.
- `Pipe`: two chunks each way and a window of one, so that a writer blocks.
- `RawLifecycle`: the three rules of the code, at most two failures of `iptables -C` or
  `-D` for each. The proofs cover any number of both.
- `RawPacketConn`: a channel of two and three packets, so that two wait in it in
  order and a third finds it full;
  two writers and two writes, from a sequence number that wraps between them. The
  order of packets is proved for any capacity. `NoSeqOverlap` needs a bound: after
  4 GiB of failed writes in a row the numbers would meet again. The theorem says
  how large it may be.
- `Obfs`: lengths of two bits instead of sixteen, writes up to the longest that
  fits (`MaxWrite < LenSpace` is the assumption; in the code 32768 bytes and a
  header of 8 against 65536), buffers shorter than a frame, four bytes in all,
  padding of one or two. The safety results are proved for all of these sizes.

`pipe`, `server` and `obfs` do not check for deadlock: a pipe that has returned, a
server whose listener was closed and a connection that has failed do nothing
more.

### Fairness

Goroutines are scheduled (weak fairness of their steps). Taking a `sync.Mutex`
is strongly fair, because Go hands a mutex over to a waiter after 1 ms. Dials end
because they have time-outs (10 s for TCP and for the handshake of
`DialWithDialer`, 12 s for WebSocket upgrades on both sides) with one exception,
the handshakes of `-utls` and `-frag`: there `EveryClientResolved` has the premise
that the network does not stay silent, and `multipath_silent` shows what happens
without it; keep-alives and the 30 s of back-off expire. Local connections keep
arriving, which the liveness of failover needs because the client reconnects
only on demand. Nothing is assumed of the network, nor that a pipe over a
working session ever ends. In the clients a pipe is assumed to end some time after
its session. A local party that stops reading can delay that without limit, but a
client has as many goroutines as it has local connections, and the slot stands for
the next of them. In `Server`, where the goroutine itself is what matters, the end
of the pipe is strongly fair only while the target is not blocked: a target that
reads again and again lets the finite rest of the stream's buffer through, and then
the error of the session is read. `EndPropagates` states its assumption on the remote
parties (they keep reading) as its premise. In `RawPacketConn` the end of
`readLoop` is strongly fair, because Go's `select` chooses at random among the
cases that are ready; neither packets nor calls of `ReadFrom` are assumed to come.
In `Obfs` the goroutine of smux that reads keeps reading. In `Server` the send on
the accept channel is strongly fair, because a Go channel serves its senders in
turn. In `WebPanel` only `main` is fair: it runs, and the administrator starts it
again when it has ended; `ResetRecovers` excepts a panel that is killed for ever.

## Disagreements

- `FailoverServes`: `markFailed` closes whatever `m.session` holds. If two
  goroutines failed on the same session, the first `markFailed` drops it, a new
  session is made, and the second `markFailed` closes the new one under the
  goroutine that just obtained it, which then fails and does the same to the
  next. The failure count never reaches 3, because each dial resets it. The
  schedule that keeps this up for ever is unlikely, but one turn of it, a working
  session closed with all its streams, needs only two local connections at the
  moment of a failure. The README promises automatic reconnection.
- `FailoverLeavesServer`: a server that accepts connections but whose sessions
  break is never left, because a dial that succeeds resets `failCount` and keeps
  `m.current`. The README promises that the client goes to the next server.
- `FailoverPassesSilent`: with `-utls` or `-frag`, `dialTLS` calls `Handshake` on a
  connection without a deadline (`tls_transport.go:139` and `:151`; for WebSocket
  through `NetDialTLSContext`, which ignores its context). A server that accepts
  the connection and then says nothing holds the goroutine that dials, and with
  it `m.mu`, for ever: the client neither goes on to the next server nor serves
  anybody. The README promises that it goes to the next server.
- `OneConnection`: the raw client makes a connection per local connection when
  several arrive together; the one that is overwritten stays open. The README
  says that streams share one connection.

## Proofs

Checked by TLAPS for every value of the constants:

- `MultiPathProofs`: `TypeCorrect`; `NoOrphan`, `BlameAccurate` and
  `Refinement` from the inductive invariant `IInv`; `GivesUpOnlyWhenAllFailed`.
  `NoOrphanSession` is not inductive: that a dial does not add a second open
  session needs `ScanInv` (whoever dials has found `m.session` nil or closed, and
  it stays so), which needs `LockInv` (only the holder of `m.mu` dials).
  `BlameIsAccurate` needs `RecordInv` (`m.sessionSrv` belongs to `m.session`).
  The last theorem adds `PassedFailed` (the servers the loop has passed have
  failed) and `RotationCovers` (the rotation modulo `n` meets every server).
- `ClientSessionProofs`: `NeverNil` for all clients, from `StoreInv` (a goroutine
  about to return the shared variable finds it set, since nobody clears it);
  `NoSocketLeft`, which is inductive with the types; `HelloSentIntact`, whose
  invariant says that what was written is the hello up to the loop variable, or
  all of it; `Refinement`. The invariant of the last says that `getSession` is a
  critical section, that the shared variable is nil or closed from the check to
  the store, and that an open session is the shared one or about to be stored.
- `PipeProofs`: `EndsWithReason` and `LeaksNothing`. The invariant relates what
  was written to what was read (`CopyInv`), says that every goroutine that has
  ended and every closed end has a reason (`ReasonInv`: a reset, a direction delivered
  whole, or a closed stream that refused a write), and that the
  `sync.Once` is done only when both ends are closed (`OnceInv`).
- `RawLifecycleProofs`: `Protected`, `NeverDuplicates` and `CleanExit`. The
  invariant says that `Apply` and `Cleanup` never run at once, because the
  handler is installed after `Apply`, that a rule `Apply` has passed is present, and
  that the copies of a rule are bounded by the failures of `iptables` on it: with
  one more in general, with none more when `Apply` is about to add it and once
  `Cleanup` has passed it. `Configured` needs what each stage of `AutoDiscover` has found
  so far, and that `FillIn` leaves what was given alone.
- `RawPacketConnProofs`: `KeepsOrder`. The invariant says that `readLoop` holds a
  packet exactly between its two selects, that it is newer than the whole channel
  (`HeldInv`), and that the channel is sorted and newer than what was read
  (`ChanInv`). `WritersNeverOverlap` and `FewFailuresNoOverlap` are about the
  sequence numbers. `LockInv` says that `writeMu` covers a packet from the reading
  of `seqNum` to its sending, so that what is sent next is numbered from `seqNum`
  or from the packet about to be sent (`NextSeq`). `GapInv` says how far that is
  from the end of the last packet sent: as far as calls that failed after they
  had advanced `seqNum`, and every call was sent, has failed or has not returned.
  So with packets of at most `L` bytes two of them can overlap only after
  `SeqSpace / L` calls that failed or have not returned (in the code, about three
  million packets of 1400 bytes that were never sent), however many were sent;
  the first theorem, which states the run's property, takes the bound on all
  calls instead. `TypeCorrect` adds that the channel never exceeds its capacity.
- `ObfsProofs`: `TypeCorrect`, `PreservesStream`, `GivesWholeFrames` and
  `LosesNothing`, for every width of the lengths, all sizes of writes, padding
  and buffers, over a stream and over WebSocket messages. `StreamPreserved` is not
  inductive: that the byte a reader takes for data is data needs to be known of
  everything in flight. A small automaton reads bytes and message marks: its
  state is how much data and padding of the frame is to come, the position in
  the stream, and whether a message is open. `ReaderInv` gives for each stage of
  `Read` the state it stands for (`Cur`); `WireInv` says that from there the
  automaton reads all of `wire` and, while the connection is up, ends between two
  frames at the position of the writer. A write appends a frame, which leads from
  one boundary to the next (`ParseFrame`, for which `MaxWrite < LenSpace` is
  needed); a read takes the first symbol (`ParseHead`); a failure leaves a prefix
  (`ParsePrefix`). `StreamInv` is then a matter of one frame.
- `ServerProofs`: `TypeCorrect` and `NothingStranded`. The invariant says that a
  queued connection is in the channel, that a client can open streams only while
  the loop of its session accepts them (`UpInv`), and that the loop of a waiting
  stream has not passed `session.Close()` (`BacklogInv`).
- `WebPanelProofs`: `TypeCorrect`, `PasswordShown` (from what holds at each stage
  of `main`), `LoggedIn` (a token of the process was given out for the password
  it checks), `LoadedSaved` (what is written but not loaded belongs to a pending
  request), and `UninstallComplete` (what the request that runs alone has already
  stopped, disabled and removed stays so).

The assumptions are the ASSUMEs of the modules: there is a server, the limits are
positive, the hello is not empty, and `None` is no session, goroutine, connection
or password; lengths fit their fields, and a packet is shorter than the sequence
space. Every invariant and every action property of a passing run, and both
refinements, are stated by a theorem. Only model-checked: the liveness
properties, because the prover does not handle fairness (`EveryClientResolved`,
`FailoverReconnects`, `FailoverPassesSilent`, `Reconnects`, `ClosingFrees`,
`EndPropagates`, `EveryConnectionServed`, `SessionEndReleases`,
`StreamsAreIndependent`, `CloseReleases`, `LoopEndsWithCapture`, `EveryWriteReturns`, `EveryByteRead`, `ResetRecovers`), and
the disagreements, which are counterexamples.

## Not modelled

- The packet connection of the raw client, which nobody closes when its KCP
  connection or its session fails: `DialLeavesNothing` is about sockets of TCP.
- Whether parameters given by hand fit those discovered: `RunsConfigured` does not see
  a given interface beside the hardware address of another.
- What smux does when streams that nobody reads use up its receive buffer, so that
  a session waits for them; `StreamsAreIndependent` is about the accept loop.
- What an uninstallation leaves when its commands fail: the code does not look.
- Requests of the panel that only report: status, logs, peers (`parsePeers` and a
  TCP connection to each peer, which says little of a UDP or raw tunnel). They
  change nothing. Of the commands that install packages or Xray the model knows
  that they run and may fail.
- The panel's page and the installers: user interface and linear scripts.
- `ASM-TUN-V1.0.asm`: an installer for two UDP relays in assembly, another program
  than the tunnel. Each is a single loop whose only state is the address it last
  heard from.
- Certificates, encryption, the content of TLS and WebSocket handshakes, KCP,
  smux beyond what `Smux` states, and packet layouts: libraries. In particular,
  what KCP does with a reconnection that reuses conversation 1 (`engine_raw.go:67`).
