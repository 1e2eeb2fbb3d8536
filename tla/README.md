# Formal models of SOPE

SOPE holds two programs. `PROJ2` is a home banking service: a server with
several bank office threads, and a user program that sends it one request and
waits for the reply. `PROJ1` is `forensic`, which lists the files of a directory
tree with one process per directory. This directory holds TLA+ models of the
service, TLC configurations that check them on small instances, and TLAPS
proofs of their main properties for every size. `PROJECT.json` lists the
components, the runs, the lines of code each definition stands for, what the
runs found, the hazards and the theorems.

## 1. The system

| Component | State | Operations | Interacts with |
|---|---|---|---|
| messages (`types.h`, `constants.h`, `replymaker.c`) | none | make a request, make a reply | everything |
| account table (`accounts.c`) | `accounts`, `usedAccounts`, one mutex per account | look up, open, lock, unlock | the offices share it |
| handlers (`bankoffice.c` 54-243) | locals of an office | validate, create, balance, transfer, shutdown | account table; `shutdownFD` |
| request queue (`queue.c`) | ring: front, rear, size, capacity, array | push (resizing), pop, full, empty | main thread pushes, offices pop |
| bank offices, main thread (`bankoffice.c`, `server.c`) | two semaphores, `queueMutex`, `activeOffices`, `shutdownFD` | read a request, queue it, take it, send its reply, shut down | FIFO, queue, accounts |
| server FIFO (`fifoMaker.c`) | who has it open, its mode, what is in it | create, open, write, read, end of file | users and main thread |
| user program (`user.c`, `argProcessing.c`, `fifoMaker.c`) | its request, its own FIFO, an alarm | check arguments, send, wait for the reply, time out | server FIFO, its own FIFO |
| hash coprocess (`accounts.c` 67-136) | two pipes and a forked `sha256sum` | hash a password | one per call, forked from any office |
| log (`log.c`, `logfileopeners.c`) | a descriptor | write a line | everything |
| `forensic` (`PROJ1`) | a tree of processes, two counters, a flag set by SIGINT | scan a directory, scan a file, signal, wait for children | files, signals |

What is hard about it:

- **Accounts.** An office works in steps with delays in between: it locks the
  account that asks, checks its password, unlocks it, locks it (and perhaps a
  second one) again, checks, writes. Offices interleave at every step. Correct
  means: every request looks atomic, balances stay in range, no money is made or
  lost, no account is opened twice, no office waits for ever for a mutex.
- **Queue and semaphores.** A bounded buffer whose ring can also resize. Correct
  means: FIFO, never overfull, never popped when empty, no signal lost.
- **Shutdown.** An office makes the FIFO unwritable and closes the server's own
  write end; the main thread meets the end of the file only when the last user
  has closed its end, waits by polling until the queue is empty and no office is
  active, and cancels the offices. Correct means: nothing accepted is lost, no
  office is cancelled while it works, the server stops.
- **Descriptors.** The number of the closed descriptor is used again by
  whatever is opened next, while `shutdownFD` still holds it.
- **Users come and go.** Timeouts, replies without a reader, a full FIFO.
- **Forks and pipes.** A fork copies what other threads have open, so that the
  children of two offices may wait for each other's input to end, while the
  offices hold mutexes; a child that cannot be made ends the server.
- **forensic.** Signals that interrupt `wait` and are merged while pending.

## 2. Modules

| Module | What it is |
|---|---|
| `Requests` | requests, replies, codes, the constants of `constants.h` |
| `Bank` | *abstract*: the service as its clients see it, each request executed at one instant |
| `Accounts` | the table, its mutexes and what an office does to them for a request; implements `Bank` |
| `MCAccounts` | its instances for TLC |
| `AccountsProofs` | its theorems |
| `FifoQueue` | *abstract*: a queue |
| `RequestQueue` | the ring of `queue.c`; implements `FifoQueue` |
| `MCRequestQueue` | its instance |
| `RequestQueueProofs` | its theorems |
| `BankOffice` | extends `Accounts` with the server FIFO, the users that write to it, the main thread, the queue with its semaphores, the office loop, the children forked for hashes, shutdown and `sendReply` |
| `MCBankOffice` | its instances |
| `BankOfficeProofs` | its theorems: the invariant of the whole server, that a shutdown loses nothing, that replies reach their users |
| `ClientArgs` | `createRequest` and what it calls: the arguments of the user program, their checks and conversions |
| `UserSession` | the user program from the request it has made to its end: own FIFO, sending, alarm, reply |
| `Session` | *abstract*: a run of the user program ends, and what it shows tells whether the request may have been carried out |
| `Conversation` | extends `UserSession` with a server of which only the FIFOs are seen; implements `Session` |
| `ConversationProofs` | its theorems |
| `UserProgram` | extends `Conversation` and `ClientArgs`: the user programs with the arguments typed |
| `MCUserProgram` | its instance |
| `UserProgramProofs` | its theorems |
| `HomeBanking` | joins `BankOffice` and `UserSession`: the server with its user programs; its server is one that `Conversation` allows |
| `MCHomeBanking` | its instance |
| `HomeBankingProofs` | its theorems |
| `HashCoprocess` | `generateHash` called by several offices at once, with the processes it forks |
| `HashCoprocessProofs` | its theorems (the instance needs no module) |
| `ForensicArgs` | `processArgs` of `forensic`, word by word |
| `Listing` | *abstract*: a run of `forensic` ends, having listed what was asked for unless something excuses it |
| `Forensic` | extends `ForensicArgs` with the processes, their signals and the redirection; implements `Listing` |
| `MCForensic` | its instance |
| `ForensicProofs` | its theorems |

### How the models correspond to the code

**`Accounts`.** `pc[o]` is where office *o* is in `manageRequest`; `mutex[a]` is
the owner of `accountMutexes[a]`; `used`, `balance` and `secret` are the table. A
step is what runs between two points at which another office can see or do
something: taking a mutex (`LockHeader`, `LockLow`, `LockHigh`), a read of the
table with the decision that depends on it (`Validate`, `HandleCreate`,
`HandleTransfer`, `HandleBalance`), one write (`CreateAccount`, `Debit`,
`Credit`), releasing a mutex. `Low` and `High` are the `min` and `max` of
`getDoubleAccountAccess`. Sums and differences are of `uint32_t` (`Wrap`).
`HashFaults` lets `createAccount` find no hash, also for the administrator's own
account at the start; then it opens nothing, and the reply is the same. `Hashing`
is where an office is in `generateHash`. That it may never come back from there,
or take the server with it, is in `BankOffice`: an office of `Accounts` need not
take another step, and no property of this module says that it does.

**`RequestQueue`.** The record `queue` has the fields of the C struct. A push into
a full ring first makes it twice as long. `queue_resize` is written as what its
loop leaves; `MoveAll` is the loop, and `ResizeMovesAll` says that they agree.

**`BankOffice`.** `main` is where the main thread is in `main`, `readRequests`,
`addRequestToQueue`, `waitForRequestFinish` and `destroyBankOffices`; `loop[o]`
is where office *o* is in `runBankOffice`, `getRequestFromQueue`,
`handleShutdownRequest` and `sendReply`, and when it is in `manageRequest` (label
`manage`) the office does the steps of `Accounts`. `active` is `activeOffices`:
any Booleans at the start, because nothing initialises what `malloc` returns.
`CheckOffice` reads one flag at a time, as the code does, and begins again when
one is set. `shutdownFD` is what the descriptor with that number is open on: the
server FIFO, nothing (`"free"`), or the FIFO of a user, because after `close` the
number is the lowest one free and the next `open` of `sendReply` gets it.
`replyFD[o]` says whether office *o* writes its reply on that number or on one of
its own. A user opens the server FIFO (when it has a reader and may be written
to), writes (or gives up when it is full) and closes it.

Where `Accounts` is at `Hashing`, `BankOffice` has the child that `generateHash`
forks. `ForkHash` makes it; it gets the server's end of the server FIFO if that is
open, and the input pipes of other calls if these are open (`holds`, any of
those that may be: which of them are open at that instant is the business of
`HashCoprocess`). `EndHash` is its end: it comes when nobody else has its input open
(`Inherited`), so that children that have each other's never end. `LoseHash` is a
fork or an exec that fails. Then generateHash returns no hash and `createAccount`
goes on, or the server is killed (`HashKills`): by SIGPIPE, or by `strcmp` of `NULL`
in `validateAccount`. The main thread meets the end of the server FIFO only when
no child has it open either.

**`ClientArgs`.** An argument is the number `atoi` makes of it, an `int`; the
fields of a request are `uint32_t` (`ToUint32`). `HeaderIdOK`, `TargetOK` and
`ValueOK` are the comparisons as they are written, of the converted number: so
an account id may be `MAX_BANK_ACCOUNTS`, and the test for a negative delay
never refuses one. A password is its length. The last argument is the sequence
of the words that `strtok` finds.

**`UserSession`.** `step[p]` is where the process with pid *p* is in `main`,
`sendRequest` and `awaitReply`. `AlarmRings` can happen at any step between
`alarm(30)` and `alarm(0)`, and goes on as `sigAlarmHandler` does: timeout
logged, FIFO removed, end. Opening the own FIFO takes two steps (`OpenOwn`, the
reader that waits, and `OpenedOwn`, when a writer has come), because an office
that comes before the first finds no reader. When the process ends, its pid can
be given to another one (`Again`), which starts with what is left in the file
system: the FIFO, if it was not removed. `came` and `arrived` are what the
server has done to the FIFO. `OpenOwnFails` is the `open` of the own FIFO that
fails: the program returns `USR_DOWN` without logging it or stopping its alarm,
which may still ring before it has ended. `result` is what the user is shown: `OTHER` is the
reply `newReply` makes before anything is read. `logged` counts the lines of the
log about replies.

**`Conversation`.** The programs of `UserSession` with a server that takes a
request or not (its FIFO may be full), replies once to each, as late as it likes,
may find the user gone, and may die: everything `sendReply` can do, in any order.
Of its FIFO a user sees only whether it opens and takes a request. `taken` and
`due` are the requests it has had and those it has not begun to reply to, `ends`
the users' FIFOs it has open.

**`UserProgram`.** Adds the arguments: `CheckArgs` is `processUserArgs`.

**`HomeBanking`.** Each step of `sendRequest` is a step of `BankOffice`'s user
and of `UserSession` at once, and so is an office's opening of a user's FIFO and
its writing of the reply; all other steps are one module's alone. An office
finds a user down exactly when nobody has the FIFO open to read. `BreakPipe` is
the write to a user whose alarm has rung since the office opened the FIFO: no
code catches SIGPIPE, so the server ends. `Talk` says what `Conversation` sees of
this server: it is up until the main thread has ended, it has taken the requests
that were written, those are due that no office has begun to answer, and an
office that is about to write a reply, or to close it, has a FIFO open.

**`HashCoprocess`.** `at[o]` is where office *o* is in `generateHash`. `open` is
what the server has open; a child has what the server had open when it was
forked, that is also the ends of other offices' pipes, until it ends. `Fork` that
fails changes nothing, as the code does not look at it. `WritePassword` needs
somebody who has the reading end open; if nobody has, `BreakPipe` ends the
server. `ReadNothing` is the early `return NULL`, which leaves the read end open.
A child that cannot become `sha256sum` (`GiveUp`) calls `exit`, which writes its copy
of what the server has printed and not yet written (`Buffered`, when the server's
output is no terminal) into the pipe: if that is long enough for a hash it is
taken for one (`Printed`), else `NULL` is returned.
Children that have ended stay processes, for nobody waits for them.

**`ForensicArgs`.** One action per option. `-o` and `-v` open their files with
`"w"` at once (`Empty`). The loop ends before the last word whatever it has been
taken for, so `-o file` empties the file it then looks at.

**`Forensic`.** A process is told by the directory it scans. `ReadEntry` takes
the next entry unless `receivedSigInt` is set, `Fork` makes the process of the
directory below, with the flag and the standard output of its parent.
`BeginFile`, `Redirect`, `ListFile` and `Restore` are `scanfile` in order. A
signal is pending at most once (`pending`, `unheeded`) and may end a `wait`
(`Interrupts`), after which the process does not wait again. `Tells` is `kill`
to the first process, handled at once when the process is itself that one and
lost when it has ended.

### Left out of the models

- Delays: `opDelay` and `opDelayShutdown` are the time between two steps, which
  is arbitrary anyway.
- Account ids outside the table in the server. The client lets the id
  `MAX_BANK_ACCOUNTS` through (`ClientArgs` says so); what the server then does
  with it is undefined. So is what becomes of a password or pid too long for the
  array it is copied to.
- `pipe` and `close` that fail in `generateHash`, and the text of a child without
  `sha256sum` taken for a hash in `Accounts`: `HashCoprocess` says when a call
  returns it. `BankOffice` does not say when a `NULL` comes either, only that it may.
- Pipes that get the number of the closed descriptor, which a second shutdown
  request would close. Users' FIFOs that a child inherits: their users meet the
  end of the file later after the server's death, and their alarm ends that wait.
- A server that dies while it sets up the administrator's account, before it has
  a FIFO.
- The superuser, whom the mode of the FIFO does not stop.
- `queueMutex`: a push, a pop and a look at whether the queue is empty are each
  one step, as the mutex makes them.
- The two reads of a reply, which the server writes with one `write`, are one
  step.
- A server that is started again with requests or replies of the one before.
- The log (`log.c`, `logfileopeners.c`), the texts displayed, the TLV lengths.
- Of `forensic`: a `popen` that fails while a file is listed (`getFileType` and
  `getCheckSum` then return `NULL`, which `scanfile` prints or crashes on), and
  with it a file that is begun and not listed; what the line of a file says
  (type, access bits, dates, checksums, which come from `popen`), the log of
  `-v`, a SIGINT that ends a program `popen` has started, an output file that
  `scanfile` cannot open again, and a standard output that is the output file
  from the beginning.
- `file_check.sh`, which checks the contents of a zip file.

## 3. Runs

| Run | Bounds | What it shows |
|---|---|---|
| `accounts` | 2 offices, 3 accounts, `MAX_BALANCE` 4, `UINT32` 10, 14 requests, each taken any number of times | `LocksMatchControl`, `BalanceBounded`, `ChecksStillHold`, `NoCircularWait`, `MoneyConserved`, `OpenedOnce`, and `ImplementsBank` |
| `min_balance`, `created`, `first_error` | the same | three disagreements with `types.h` (section 6) |
| `request_queue` | capacity 3, at most 5 items, 2 kinds of item | `RingOK`, `ResizeMovesAll`, `ImplementsFifo` |
| `bank_office` | 3 users, 2 offices, queue of 1 place, FIFO of 2, hashes that fail or never come | `SemaphoresMatchQueue`, `CancelledWhenIdle`, `NothingLostAtShutdown`, `RepliesReachTheirUsers` |
| `bank_office_live` | 2 users, 2 offices, one of two requests of the one and of three of the other, hashes that fail or never come | `EveryRequestServed`, `ShutdownCompletes` |
| `two_shutdowns` | 2 users that both ask for a shutdown, no hash that fails | the server exits (section 6) |
| `user_program` | 1 pid, 3 processes one after the other, `MAX_BANK_ACCOUNTS` 2, `MAX_BALANCE` 3, `UINT32` 16, passwords of 2 to 3 | `ProgramTypeOK`, `OneReplyLogged`, `FifoLeftOnlyUnsent`, `OwnAnswer`, `SentAsTyped`, and `ImplementsSession` |
| `home_banking` | 2 users, one of them stopping the server, 2 offices, queue and FIFO of 1 place, each pid used once, hashes that fail or never come | `DeadOfLateReplyOrHash`, `LogsAgree`, `UntakenNowhere`, and `KeepsToConversation` |
| `hash_coprocess` | 2 offices, 2 calls each, 3 processes, `sha256sum` may not run, output buffered | `HashOfOwnPassword`, `DescriptorsReturned`, `KilledOnlyWithoutChild`, `EveryCallEnds`, `FifoEndsUnlessKnot` |
| `forensic` | all lines of up to 4 words about a file, 7 more; a directory with a file and two directories below it, one of them empty; the file or the empty directory may be unreadable | `ArgsAsUsage`, `InputKept`, `ListedOnce`, `CountsNeverAbove`, `OrphansOnlyIfInterrupted`, `StrayOnlyByOthers`, `StopsAfterSigInt`, and `ImplementsListing` |

Why the bounds are enough. Two offices are what an interleaving, a race for an
account id and a cycle of two mutexes need; longer cycles are excluded by the
proof. Three accounts are the administrator's and two that transfers in both
directions use. The amounts and balances reach every code: too little money, too
much, an empty account. The queue run starts at capacity 3 and grows to 6 with
the front at every index, so items lie across the end of the array when it
resizes. One place in the queue with two users writing makes the main thread
wait for a place and the offices wait for a request. The FIFO of two requests
with three users makes a write fail.

The first process of `user_program` is run with every number at a bound and on
both sides of it, negative ones included, which `UINT32` = 16 lets wrap; the
later ones send a transfer or are refused. Three processes are what a stale
reply needs to be read by one that was not the next, and a FIFO left behind to
stop more than one. In `home_banking` the alarm rings at any step, so that a
reply comes too early, in time or too late; a FIFO of one makes writes fail. Its
graph is too large to check liveness in: that is left to `bank_office_live` for
the server and `user_program` for the programs. Two offices with two calls each
let a child inherit the ends of an earlier call, and a cycle of children wait
for one another; with three processes for four calls the last fork fails. In
`forensic` a process has two below it, so that the signals of one can come
together with those of the other, or interrupt the wait for it.

`bank_office` and the other runs of `BankOffice` do not check deadlock: the
system stops when the server has stopped and the users are done, or when
nobody asks for a shutdown and nobody writes. That it does not stop otherwise is
what `EveryRequestServed` and `ShutdownCompletes` say. The programs of
`user_program` and `forensic` come to an end, and the offices of `hash_coprocess`
have no more calls to make, or wait for ever, in these runs; `ImplementsSession`,
`ImplementsListing` and `EveryCallEnds` say when.

**The abstract service.** In `Bank` a request is pending, then executed in one
step, then answered. The outcome is not written as the handlers write it, but as
the first error, in the order of `ret_code`, of those that apply. When one applies is
taken from the code (`NO_FUNDS` is a balance less than the amount, and an account
that does not exist has no other error), not from the words of `types.h`, which say
more: `min_balance` and `first_error` are about that difference. `Accounts` maps
to it with `Settled`: a transfer takes effect when the receiver is credited, and
what has left the sender until then counts as the sender's. An office executes in
the step that sets its reply. The refinement says that the two phases of locking
(header account, then the accounts of the operation) give up nothing: `Bank`
checks the password and executes at the same instant.

**Fairness.** `BankOffice!Spec` assumes weak fairness of the main thread, of each
office, and of the writing and closing of the users that have opened the FIFO.
Weak fairness of a thread is that the scheduler runs it. It is enough although
mutexes and semaphores could starve a thread in principle, because each user
sends one request: after finitely many steps nobody else competes. Users need
fairness because a user that has the FIFO open without closing it keeps the main
thread from the end of file; `sendRequest` has nothing that waits between
opening and closing. No fairness makes a user start.

`UserProgram!Spec` assumes weak fairness of each program: it goes on whenever it
can, and an alarm clock that runs rings in the end (30 seconds pass). Nothing is
assumed of the server, which may never answer. `HashSpec` assumes it of each
office that is in a call and of each child; `Forensic!Spec` of the program as a
whole, which is enough because each of its runs is finite. `HomeSpec` and `AccountsSpec`
have no fairness.

Fairness of an office does not bring it out of `generateHash`: `EndHash` is not
enabled as long as another child has the input open, nor is the return of the
office, and for a knot of children that is for ever. So nothing is assumed there
that the scheduler does not give. `EveryRequestServed` and `ShutdownCompletes`
excuse the offices that wait for ever because of a knot, and those that want a
mutex such an office holds (`HeldUp`); offices that held up each other by
mutexes alone would be excused too, but `NoCircularWait` says that there are
none. The run meets knots: without that excuse TLC refutes `EveryRequestServed`.
In its instance a knot takes both offices and both users, so that nobody is left
to ask for a shutdown; that part of the excuse of `ShutdownCompletes` would need
a third user, whose graph is too large for liveness.

**The other abstract specifications.** `Session` says that a program that asks
comes to an end, and that "refused", "no FIFO", `SRV_DOWN` and "not sent" are shown
only when the request is not in the server's hands and never will be. `Listing`
says that `forensic` ends with all its processes, that nothing is listed that was
not asked for, and that what was asked for is listed unless SIGINT or an error of
the program is the reason that it was not.

## 4. Properties

`Accounts`

- `LocksMatchControl`: an office holds exactly the mutexes that its place in the
  code says, so none is leaked or released twice.
- `ChecksStillHold`: what a handler checked is true when it acts.
- `BalanceBounded`: no balance wraps around or exceeds `MAX_BALANCE`.
- `NoCircularWait`: in no set of offices does each wait for another.
- `MoneyConserved`, `OpenedOnce`: action properties.
- `ImplementsBank`: the refinement of `Bank`; it has no liveness.

`RequestQueue`: `RingOK`, `ResizeMovesAll`, `ImplementsFifo`.

`BankOffice`

- `SemaphoresMatchQueue`: the queue is never full at a push (so `queue_resize` is
  never called by the server) and never empty at a pop.
- `CancelledWhenIdle`: `pthread_cancel` hits only offices that wait for a request.
  It depends on the order in `getRequestFromQueue`: the office is marked active
  before it takes the request, and the main thread sees the queue empty before it
  counts.
- `NothingLostAtShutdown`: after the end of file nothing comes any more, and when
  the offices are cancelled all that was written has been dealt with.
- `RepliesReachTheirUsers`: with one shutdown request, also when its descriptor's
  number is used again.
- `EveryRequestServed`: a request that was written is answered or its user found
  down, unless the server has died, or the office that has it, or each office, is
  held up for ever by children that wait for each other.
- `ShutdownCompletes`: after a shutdown request the server stops, unless it has
  died or some office is held up for ever.

`UserProgram`

- `OneReplyLogged`: the alarm never rings once the reply has been logged, and no
  program ends with a reply, a timeout or a server down that it has not logged.
- `FifoLeftOnlyUnsent`: a FIFO that nobody owns any more comes from a write that
  failed (`sendRequest` exits there without removing it); it stops every later
  process of that pid.
- `OwnAnswer`: a user may be shown the reply to another process's request,
  because a reply does not say to which request it belongs, but only after a
  process of that pid has timed out or could not open its FIFO.
- `SentAsTyped`: no conversion to `uint32_t` changes a request, but a negative
  delay.
- `ImplementsSession`: the refinement of `Session`, its liveness included.

`HomeBanking`

- `DeadOfLateReplyOrHash`: with one shutdown request, the server ends before its time
  for two reasons only: a user that has timed out between the opening of its FIFO
  and the writing of its reply, or a hash that cannot be made, in an office that
  creates an account or checks the password of one that exists. So a request
  about an unknown account, or one in any other step, cannot take the server down
  that way.
- `LogsAgree`: what the user is shown and what the server has logged. A user whose
  request was carried out may see a timeout, also when the office was faster
  than the user's `open`; one that is told "not sent" never was served.
- `UntakenNowhere`: a request that is told not sent is nowhere in the server.
- `KeepsToConversation`: a refinement. To its users the whole server, with its
  main thread, queue, offices, shutdown and reused descriptors, is the server of
  `Conversation`: it takes a request once, answers it once and to the user it is
  from, and closes what it opens. So what holds of users with any server holds of
  them with this one.

`HashCoprocess`

- `HashOfOwnPassword`: whatever children inherit, a call gets the hash of its own
  password, or `NULL`, or, if its own child could not run `sha256sum`, what that
  had to print.
- `DescriptorsReturned`: a call leaves nothing open, or one end if it returns
  `NULL`.
- `KilledOnlyWithoutChild`: SIGPIPE ends the server in a call that has no child of
  its own, because the processes are used up or that very child could not run
  `sha256sum`; what other calls' children do has no part in it.
- `EveryCallEnds`, `FifoEndsUnlessKnot`: a call ends, and children give up the
  server's FIFO, unless there is a `Knot`: children that hold the writing ends
  of one another's input, each forked while the other's pipe was open in the
  server. Knots are reachable; then the offices wait for ever. The two
  properties say that this is the only reason.

`Forensic`

- `ArgsAsUsage`, `InputKept`: what a line is taken for, and whether it costs the
  user the file to be looked at. `InputKept` names the case in which it does:
  `forensic -o file`.
- `ListedOnce`: also when forks fail and signals interrupt.
- `CountsNeverAbove`: the counters of directories and files can be too low, as
  pending signals merge and the first process may have ended, but never too
  high. That they are too low is what the code does, and no property forbids it.
- `OrphansOnlyIfInterrupted`: a process outlives those below it unless SIGINT,
  an error or, for the first one, the signals of `-o` end its wait.
- `StrayOnlyByOthers`: when a message gets into the output file. It excuses every
  run with other processes or something unreadable, for the code lets it happen
  there; alone, the first process is never told of a file after it redirected its
  output.
- `StopsAfterSigInt`: after SIGINT one more file per process at most, none for a
  process forked later.
- `ImplementsListing`: the refinement of `Listing`, its liveness included.

Each property has a mutant of the code that TLC finds violating it (`PROJECT.json`).
The mutants stand before the definitions they change.

## 5. Proofs

All theorems hold for every value of the constants allowed by the assumptions
`RequestsAssumption`, `AccountsAssumption`, `QueueAssumption`,
`BankOfficeAssumption`, `ClientArgsAssumption`, `MaxRunsAssumption`,
`UserProgramAssumption`, `HashCoprocessAssumption`, `ForensicArgsAssumption` and
`ForensicAssumption`, each in the module that declares the constants. Some theorems of `BankOfficeProofs` (`RepliesAreRight`, `RepliesReachUsers` and
`OneShutdownIsSurvived`) and all of `HomeBankingProofs` but `UntakenIsNowhere` have
one more hypothesis, which is in their statement (`OneShutdown`).

`AccountsProofs` proves `AccountsSpec => []AccountsInv` where `AccountsInv` is
`AccountsTypeOK`, `LocksMatchControl`, `BalanceBounded` and `ChecksStillHold`.
None of the last two is inductive alone: a transfer's debit does not wrap
because the check still holds, and the check still holds because no other office
can write an account whose mutex one has (`WritesAreLocked`, `HeldDisjoint`),
which is `LocksMatchControl`. There is a lemma per conjunct (`TypeInductive`,
`LocksInductive`, `BalanceInductive`, `ChecksInductive`), with a step per
action. `AccountsOpenedOnce` proves the action property from the same invariant.
`AccountsDeadlockFree` proves `NoCircularWait`: an office that holds a mutex and
waits holds only smaller ids than the one it wants (`WaitsUpwards`), so the one
of the set that wants the highest account waits for nobody in it
(`HighestAccount`, by well-founded induction).
`AccountsImplementBank` proves `ImplementsBank`. It needs how far each request is
(`ProgressInv`: decided or not, its password checked, its write allowed) and what
is settled (`SettledIs`): an office that holds an account's mutex sees it as
settled, because a transfer that is half done holds it too (`HeldIsSettled`).
Then the codes of the handlers are the first errors of `Bank`'s set
(`OutcomeOfTransfer` and the like), a debit changes nothing that is settled, and
the credit moves the money (`DebitInBank`, `CreditInBank`).
`AccountsConserveMoney` follows from this refinement: it is proved of `Bank`'s
steps (`BankConserves`) and so of those of `Accounts`. The sum of the property is
the community modules' fold, a recursive function over the subsets of the account
ids. That it has a value, and one only, for each subset is proved by induction
over the number of elements (`SubsetInduct`, `TableExists`, `TablesAgree`), and
from that what the proof needs of sums (`SumsAgree`, `SumTakes`, `SumWithout`,
`SumOfMove`). An account that has not been opened must count as nothing
(`UnopenedEmpty`), and nobody can have lost what is settled in one that has.

`RequestQueueProofs` proves `RingConsistent` (`RingOK` is inductive) and
`QueueIsFifo`, the refinement of `FifoQueue`: a push appends to `Contents`
(`PlaceAppends`, with `ResizeKeepsContents` when the ring is full) and a pop
takes its head (`PopTakesHead`). `ResizeIsItsLoop` proves `ResizeMovesAll`: after
*n* turns of the loop of `queue_resize` the old ring is `OldAfter` and the new one
`NewAfter` (`OneTurn`), and no turn is the first at which they are not
(`LoopOfResize`). `RingIsNotResized`: a queue that holds no more than its capacity
keeps it.

`BankOfficeProofs` proves `Spec => [](AccountsInv /\ OfficeInv)` of the whole
server. A step of an office is a step of `Accounts` or leaves the accounts alone
(`AccountsStep`), so `AccountsInv` carries over; destroying the table, which is
not a step of `Accounts`, keeps it too. In the same way `ServerImplementsBank`
carries the promise of `Bank` over to the server, up to `Destroy`. `OfficeInv`
ties together four facts that need each other. `SemaphoresMatchQueue` needs that a
cancelled office rests: one that died between two steps of the bounded buffer
would take a place with it. That comes from `EndInOrder` (offices are cancelled
only when all have been seen inactive after the queue was empty), whose step for a
look at an office needs `BusyIsActive` (an office that has taken a request is
marked) and, for the office that has passed `sem_wait` but not marked itself,
`EmptyQueueNobodyComes`: with the queue empty the semaphores leave no such office.
`LoopMatchesWork` then gives `CancelledWhenIdle`. `CountStep` says what a step
does to the number of offices at a place; the semaphore lemmas add up these.
`QueueIsUsedWell` follows: what `BankOffice` says of its queue, a sequence, is
what the ring of `RequestQueue` does when it is never full at a push nor empty at
a pop, and `RingIsNotResized` then says that this ring is never resized.
`ServerConservesMoney` carries the sum over to the server, as
`ServerImplementsBank` does the refinement; it needs that an unopened account is
empty as long as the table is not destroyed (`UnopenedWhileOpen`).

Its last part adds `EndInv` for `NothingLostAtShutdown`. The main thread is
past the end of the file only when the FIFO is not writable, empty and open in
no user (`LateOK`); for that, the mode must have been changed wherever the write
end is closed or about to be (`ClosedOK`). `AllAccounted` says where a request
that has been written is: in the FIFO, in the main thread's hand, in the queue,
in an office, or served. At the end four of these places are empty.

It ends with `RepliesReachTheirUsers`, and that the server survives, if
at most one user asks as the administrator for a shutdown (`OneShutdown`; the run
`two_shutdowns` shows that it must be assumed). The number of the closed
descriptor is in danger only from a second shutdown request, so it must be shown
that there is no second one: every request is in one place only (`PlacesInv`) and
is what its user sent (`SentInv`), and the closed descriptor is the doing of a
request that has been served or is past closing in its office (`DescriptorInv`).

`ConversationProofs` proves the safety properties of the user programs against any
server that `Conversation` allows, for any pids and number of processes. `TalkInv`
ties each step of a program to its alarm, its FIFO, its log and whether the server
has its request; with it every step is a step of `Session` (`PromiseKept`,
`TalkIsASession`). `OwnAnswer` needs `ReplyInv`: a request awaits its reply, or its
reply is open in the server, in a FIFO, or read, one of these and once; and one
that is owed to an earlier process means that that process gave up waiting.

`UserProgramProofs` says that a program with its arguments keeps to `Conversation`
(`ProgramConverses`), so that these theorems hold of it, and proves what is about
the arguments. `SentAsTyped` rests on `BoundedNotNegative`: a negative `int`
converts to more than any bound, if twice the bound fits in a `uint32_t`.

`HashCoprocessProofs` proves the three safety properties from `HashInv`. `Stage`
says how far a call has come, and for each stage which of its ends are open in
the server (`EndsOK`), where its password and its hash are (`DataOK`) and who
can read the password (`ReaderOK`). What other calls' children hold of a pipe
does not occur in it: they can delay a hash but neither read nor write one.

`ForensicProofs` proves the safety properties of `Forensic` for every finite
tree of directories, every set of command lines and any failures. `ScanInv` is
about the tree: what the process of a directory has not read yet is listed by
nobody and scanned by nobody (`TreeOK`). It needs that a directory is in one
directory only, which `ForensicAssumption` says (there are no links).
`SigIntInv` follows SIGINT, `UsrInv` the two signals of `-o`, and `CountInv`
counts a signal that is pending with those that have been handled, so that each
directory and file that was begun with pays for at most one of them. `ArgsInv`
says that the words so far are a reading of the usage, extended by one or two
words at each step, and that any reading of the whole line agrees with it so
far. `ForensicIsAListing` is the refinement of `Listing` but for its fairness. It
needs `ListInv`: what a process was to list is listed, excused, not read yet or
in its hand. When all processes are over, nothing is unread or in hand, so every
directory that was asked for was visited, because each is reachable from the root
of the tree, the other thing `ForensicAssumption` says.

`HomeBankingProofs` proves the four properties of `HomeBanking`. A step of the
service is a step of `BankOffice`, or leaves it alone, or is the one by which a
user that has gone kills the server (`HomeSteps`), and that one keeps what the
other proofs know of the server (`ServerInv`). `LinkInv` says where a user program
is when it is at a place of `sendRequest`, and what it shows; with it a request
that was not sent has no place in the server (`NotWrittenNowhere`), which is
`UntakenNowhere`. `WaitInv` is about a user's FIFO: what is in it is a reply that
was sent, somebody who has opened it writes to it or has written, and a user whom
an office is about to answer waits or has timed out. That an office finds nothing
in the FIFO before its own reply rests on every request being in one place, and
that its descriptor is the user's on `OneShutdown`. From it come `LogsAgree` and,
for replies, `DeadOfLateReplyOrHash`. For hashes that needs what is known of a
request on its way through `Accounts` (`ProgressInv`): an office that has lost its
child is where it makes a hash (`LostByFault`), has no reply yet, and the account
whose password it checks exists, as no account is closed before the main thread
ends (`DeadByHash`; the three together are `HashInv`, which `HashInvStep` proves
inductive).

`HomeConverses` proves `KeepsToConversation`. There is a lemma for each kind of
step: a user's write makes its request taken and due; an office that opens a
user's FIFO, or finds it down, takes the request off what is due, which it was
because a request is in one place only and its user has not been served
while it is there (`PlacesInv`, `HeldByOne`); and every other step of the server, from a push into
the queue to the cancelling of an office, changes nothing that users see. Where
`Conversation` lets a server die, this one dies by a late reply or for want of a
hash, or ends. The theorems of `ConversationProofs` are instantiated with
this server (`AnyServer`) and so hold of the whole service: `HomeLogsOneReply`,
`HomeLeavesUnsent`, `HomeShowsOwnAnswer` and `HomeIsASession`. This is the reason
why `Conversation` is a module: its server is an assumption about the code, and
`HomeConverses` discharges it.

The invariants of these proofs were checked by TLC too, but for the parts that
quantify over infinite sets (`PlacesInv`).

Induction. The library's induction theorems take an operator, so the proofs about
sums and about the loop of `queue_resize` use well-foundedness instead: the set of
numbers for which the fact fails, if not empty, has a least element
(`NatInduct`).

Only model-checked: all liveness, which the prover does not do:
`EveryRequestServed`, `ShutdownCompletes`, `EveryCallEnds`, `FifoEndsUnlessKnot`,
and the fairness of `Session` and `Listing` in `ImplementsSession` and
`ImplementsListing`.

## 6. What the runs found

1. `min_balance`: a transfer may leave its sender with 0. `types.h:28` says that
   less than `MIN_BALANCE` (1) is too low.
2. `created`: a creation whose hash cannot be made is answered with OK.
3. `first_error`: a request of an account that does not exist and that the account
   might not make anyway is refused with `ID_NOT_FOUND`; `types.h:17` asks for
   the first error of the list, `OP_NALLOW`.
4. `two_shutdowns`: two shutdown requests. The first one's `close` frees the
   descriptor; an office's reply gets its number; the second one's `close` closes it
   under that office, whose `write` fails, and the server exits.

## 7. Plan

All components that keep state are modelled, and every safety property that a
passing run checks is stated by a theorem. What could follow:

- The users of `HomeBanking` once more with pids that are used again; then
  `OwnAnswer` of the whole service would be about stale replies too.
- Which states `OneShutdown` can be weakened to: a second shutdown request that is
  served before any reply is open does no harm.
- `HashCoprocess` as an implementation of the children of `BankOffice`.

### Not modelled

- The log (`log.c`, `logfileopeners.c`): it formats a line and writes it with
  one `write` to a file opened for appending. It keeps no state, and no property
  is about its text.
- `file_check.sh`: a script about a zip file.
- The texts of `forensic`'s lines and its log, which come from `popen` of other
  programs.
