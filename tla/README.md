# EMMS in TLA+: models, model checking and proofs

EMMS is a daemon that captures the e-mail traffic of a network, blocks mails with
forbidden keywords by resetting their connection, and records mails with monitored
keywords or spam. This directory holds TLA+ modules for the daemon (`src/trunk/src`,
`src/trunk/utils`), the TLC configurations that check them and the proofs that TLAPS
checks. Paths below are relative to `src/trunk`.

## The system

```
 libnids capture thread            one analysis thread        one monitor thread       four log threads
   nids_callback     -- Acq mq -->   per family        -- monitor_queue -->  per family -- log_queue --> per family
   (src/analy.c)                     analy_noweb.c        [2]   monitor.c           [2][4]    log.c -> db.c
                                     analy_webmail.c  ------------ blocked mails ------------>   |
                                          ^                                                       |
                                          +------------- mailpool (utils/mem.c) <-- free ---------+

 main thread: accept -> Tpool (utils/tpool.c) -> accept_request: S start, E stop, A/D reload keywords, C/H/M statistics
```

| Part | State it keeps | Operations | Hard because |
|---|---|---|---|
| `utils/mcq.c` ring buffer | slots, `head`, `tail` | enq, deq, empty, full | written for two threads without a lock |
| `utils/acq.c` queue | an Mcq, a mutex, a condition | enq, deq, empty, full | signal after unlock, spurious wakeups, full queue |
| `utils/mem.c` pool | free stack, blocks | alloc, free | compare and swap, ABA, growth while others free |
| `utils/tpool.c` | task list, `isshutdown`, workers | run, addwork, free | flag set without the mutex, missed broadcast |
| `src/analy_noweb.c` | a node per connection, one static parser state | SMTP, IMAP, POP3, MIME | packets of many connections interleave in one parser |
| `src/analy_webmail.c` | a node per connection | request lines, forms, XML, attachments | the same, over HTTP |
| `src/monitor.c`, `src/log.c` | `monitor_queue[2]`, `log_queue[2][4]` | push, match, insert, free | who owns a mail; ten threads; bounded queues |
| `src/match.c` on `utils/match.c` | `match_use[2][6]` automata | match, rebuild | replaced while threads match |
| `src/spam.c` on `utils/shash.c` | word counts, one cursor | filter, load, save | two threads share the cursor |
| `src/kill.c` | raw socket, one static address | reset a connection | shared by both analysis threads |
| `src/db.c` | ODBC handles and buffers | insert, select | static buffers, nine callers |
| `src/main.c`, `src/analy.c` | `isboot` | start, run, stop | started and stopped by any client worker |
| `src/analy.c`, `analy_*_putin` | the queue `mq`, packet buffers, the table of nodes | select, queue, find a node, free | a stream of libnids is reused while packets of it wait; a close can be lost |
| `utils/list.c`, `mhash.c`, `shash.c` | lists, hash tables | insert, find, delete, walk | a walk is state of the table, shared by its users |
| `utils/match.c` | the table of an automaton | add, build, match | a queue in an array that is just large enough |
| `utils/base64.c`, `urlencode.c` | none | decode | inputs split over packets |

What makes the parts correct:

* a queue delivers what it accepted, whole, once and in order, and wakes whoever waits;
* a node of a pool has one owner; allocation and release end;
* a mail goes through the threads once: it is recorded under each heading it matched
  and then given back, it is in one place at a time, and nobody waits for ever on a
  full queue;
* a packet is parsed with the node of its own connection, whatever was lost before;
* what is searched is what the sender wrote, however it was encoded and cut into
  packets, and a keyword in it is found;
* each word of a mail counts once in its spam score;
* a parser writes only into a mail that is its own and hands it on once, however the
  packets of different connections interleave;
* the service stops its threads before it frees what they use.

`PROJECT.json` lists under `hazards` the places where this can go wrong.

## The modules

| Module | Models | State | Actions |
|---|---|---|---|
| `BoundedFifo` | the promise of a bounded queue | the queue | `Enq`, `EnqFull`, `Deq`, `DeqEmpty` |
| `Mcq` | `utils/mcq.c` | ring, indices, both threads' locals | one per access: test, copy of one word, publication |
| `Acq` | `utils/acq.c` | mutex, waiting set, ring, pcs | one per lock, wait, signal, access |
| `Mpool` | `utils/mem.c` | free stack as links, locals | one per load, link, compare and swap |
| `List` | `utils/list.c` | (operators) head, tail and length of a linked list, its nodes | `List_push`, `List_popleft`, `List_free` |
| `Tpool` | `utils/tpool.c`, the loop of `main` | mutex, waiting set, a `List` of tasks, pcs | one per lock, wait, signal, join |
| `Mhash` | `utils/mhash.c` | (operators) buckets as sequences | `Mhash_insert`, `Mhash_find`, `Mhash_del` |
| `Capture` | `nids_callback`, both `putin` functions, `analy_callback` up to `parse` | the streams of libnids, `mq`, the buffers, the table, the packet in hand | one per event of a stream, one per enqueue, one per step of the analysis thread that reads the stream |
| `MailLifecycle` | the promise of the mail path | stage of each mail, records owed | `Alloc`, `Block`, `Submit`, `Lose`, `Log`, `Clear`, `Record`, `Release` |
| `Pipeline` | `src/monitor.c`, `src/log.c`, the pushes of the analysis | pool, queues, pcs of twelve threads | one per push, dequeue, verdict, insertion, release |
| `MailHolder` | what both analysis modules do with `node->mail` | the mail of each node, the life of each mail | `Take`, `LogPush`, `MonitorPush`, `Forget`, used by the actions of the next two |
| `Noweb` | `src/analy_noweb.c` | the node of each connection, the static parser state | one per packet case, then the steps of `parse_mime` |
| `Control` | the commands `S`, `E`, `A`, `D` of `src/main.c`; `analy.c`, `match.c`, the start and end of every module | `isboot`, the command of each client, the instances of each resource, the threads and their identifiers | one per operation of a command: initialise, create, cancel, join, release |
| `Webmail` | `src/analy_webmail.c` | the node of each connection, the static position in a form | one per packet case, then one per parser function and kind of packet |
| `Shash` | `utils/shash.c` | (operators) buckets as sequences | `Shash_insert`, `Shash_find`, insertion of many words, the order of a walk |
| `Spam` | `src/spam.c` | the word file, the table, its cursor, `filter_word`, the filters under way | one per access of a walk to the cursor; `Load`, `Train`, `Save` |
| `Automaton` | `am_addword`, `am_build`, `am_match` of `utils/match.c` | words, table, queue and failure pointers | one per word, one per node visited |
| `Decoders` | `utils/base64.c`, `utils/urlencode.c`, the string functions of `utils/match.c` | (operators on bytes) | |
| `Content` | the data of `parse_mime`, `parse_content` and the forms | the field, the part under way, the static `buf`, what was kept | one per field, one per packet |
| `MCNoweb`, `MCWebmail`, `MCCapture`, `MCSpam`, `MCContent` | symmetry and values for TLC | | |
| `UtilsProofs` (`Mcq`, `Mpool`, `Tpool`), `CaptureProofs`, `NowebProofs`, `WebmailProofs`, `PipelineProofs` (`Acq`, `Pipeline`), `ServiceProofs` (`Control`, `Spam`), `KeywordProofs` and `ContentProofs` (`Content`) | proofs | | |

`Pipeline` uses queues as sequences because `Acq` is shown to implement `BoundedFifo`,
and the pool as a set because `Mpool` is shown to have one owner per node (with one
allocating thread: `mpool_shared` shows what the second one does to `mailpool`).
`Pipeline`, `Noweb` and `Webmail` all implement `MailLifecycle`: `Noweb` and `Webmail`
detail its analysis stage for one family each, with the later stages as environment
(`HolderDownstream`), and `Pipeline` everything behind it for both families.

`Capture` is what lies before `Noweb` and `Webmail`: those choose the connection of
each packet, and `Capture` shows that the node a packet meets is that of its
connection. `Content` is what lies inside of their choices: `Noweb` and `Webmail` let a
part of a mail match or not, and `Content`, with the automaton and the decoders, says
what matches. The four tables of operators (`List`, `Mhash`, `Shash`, `Decoders`) are checked by
the runs of the modules that use them.

How state and actions correspond to the code:

* `Noweb` and `Webmail`: a call of `parse` starts at `pc = "deq"` with the packet and
  ends there; in between `cur` is the node in hand. What the packet contains is chosen
  when the code looks at it. The functions with many returns are sets of *ways*: each
  way says what the node is left like and whether the mail was handed on.
  The fields of a node are functions of the connection; a closed connection has the
  values its next node starts with. In `Noweb`, `reused` records the POP3 connections that
  began a mail in one already handed on (two RETRs in a row), and `twice` that such a mail
  was handed on again.
* `Webmail`: `Way(isncomplete, ishead, isreceive, do)` is the macro `RETURN` with the push
  before it. `flag` is the static variable of `parse_sendmail`, and `flagOf` records whose
  form set it. `pc = "aborted"` is a
  failed assertion, or a header that the code relies on and does not find.
* `Pipeline`: one program counter per thread; a queue is a sequence, and `log_push`
  on a full queue is a step that cannot be taken yet.
* `Control`: a command is a program, the sequence of the operations it carries out, and
  one step is one operation (`Inits`, `Runs`, `StopProgram`, `Rebuild`, and `Undo` for
  what a failed start takes back). A resource is a global pointer, `cur`, to one of its
  instances, of which those in `live` exist. `Slot` is where `log_run` keeps an
  identifier: `log` has three columns and is indexed up to 3, so `log[0][3]` is
  `log[1][0]`, and `log[1][3]` lies behind the array. `Misuse` is the use of a pointer
  or thread that is gone: the process ends or goes on. `pthread_cancel` of a thread that
  has ended answers 0 or an error.
* `Capture`: `Establish`, `PutData`, `PutClose` and `TimeOut` are the states libnids calls
  with (the last one does nothing in `nids_callback`, but frees the stream). A freed stream
  keeps its address until it is reused. `InsertKey`, `InsertIndex` and `InsertPort` are the
  three reads of `msg.ts->addr` for the first packet of a connection. `recycled` and
  `lost` record which tuples the properties must leave out.
* `Spam`: a walk is the loads and stores of `cur_node` and `cur_index` that the `-O1` build
  makes. `mon[m].alone` says that no other filter ran since this one began; what a filter
  that is disturbed counts is not kept. `StopMonitors` cancels the threads wherever they are.
* `Automaton`, `Content`: letters and bytes are numbers. `Letter` is one turn of the inner
  loop of `am_build`. The sender's side (`Raw`, `Stream`, `base64_encode`) produces the
  input; `Decoded` and `Appended` are what a packet does to `buf`, `dlen` and the text kept.
* `Acq`, `Mcq`, `Mpool`, `Tpool`: one action per access to shared memory or call of
  the thread library, named after the line it stands for.

Definitions marked `Faulty` are variants of the definition below them with a plausible
bug; they are used by no specification and serve to see each property fail.

## What is checked

| Run | Bounds | Shows |
|---|---|---|
| `mcq` | 4 slots of 2 words, 2 values | the two copies never touch the same slot, nothing half-written is visible, the ring is a FIFO of 3 items |
| `acq` | 2 producers, 2 consumers, 4 slots, 2 messages each | no lost wakeup, FIFO, delivery |
| `mpool` | 1 allocating and 2 freeing threads, blocks of 2 nodes, 2 blocks | one owner per node, leaks only at the step the FIXME names, lock freedom |
| `tpool` | 3 workers, 3 tasks | tasks once and in order through the linked list, every task taken, memory outlives the workers, `Tpool_free` returns unless there is exactly one worker |
| `pipeline` | 3 mails, queues of 1 | one place per mail, life of a mail, mails return |
| `noweb` | 3 connections, one per protocol, 2 mails | a connection owns the mail it fills, life of a mail, both but for what two RETRs in a row do |
| `webmail` | 2 connections, 2 mails | the same without exception, the rest of a mail finds its parser, a form loses its place only to another form that ended |
| `control` | 1 client, 2 addresses per resource and role, failures of one kind | threads run on what is open, keywords are complete, one thread per role, nothing is released twice, nothing is left, every command is answered |
| `capture` | 2 tuples of 2 protocols in one bucket, 2 streams, 3 connections, 2 buffers, a queue of 2 | the right node for each packet, one node per connection, none is left, buffers return |
| `spam` | 2 filters, 3 words in 2 buckets, any number of stops and starts | each known word of a mail counts once and with its own numbers, a crash needs two filters, the file has each word once, filters end |
| `content` | automata of 2 of 6 words, names up to 5 letters in 6 encodings, texts of 1 to 7 letters cut everywhere, also in the boundary behind them | keywords are found, fields and texts read as written, the automaton is built |
| `mpool_shared` | 2 allocating threads, 1 freeing | violation: a node handed out twice |

`ImplementsFifo` and `ImplementsLifecycle` are refinements of `BoundedFifo` and
`MailLifecycle`; `LifecycleKept` of `Noweb` is the refinement of `MailLifecycle` up to the
step that sets `twice`. The type invariants of all modules hold as well; those of `Mcq`, `Acq`,
`Mpool`, `Noweb`, `Webmail`, `Pipeline` and `Control` are proved.

The bounds are enough for the cases of the code. A ring of four slots wraps and fills
while two words allow a copy to be overtaken in its middle. Two producers and two
consumers are the least with which a signal can wake the wrong one. Two blocks of two
nodes let the pool run empty, grow, and be refilled while it grows. Queues of one slot
make every push meet a full queue, and three mails keep both families and a log
thread busy at once. One connection per protocol lets three parsers share the static
state; two mails let one be with the monitor while the other is filled, and with three
connections let the pool run out. Two webmail connections are enough for one to change
what the other finds in a static variable, and for both to hold a mail while a third is
asked for. Two addresses per resource let a new instance get the address of the old one
or another, and let the service be started and stopped twice, whatever failed in
between; the log thread that is never ended takes one address in each of the two.
Three connections on two streams let a stream be reused while a packet of it waits, by the
same tuple or by another one, and let a node be left behind and met again. Two buckets,
one of them with two words, give a walk every kind of step: along a bucket, to the next
one, and off the end; two filters are all there are. Two words are enough for one to
begin, end or lie inside of the other, with the letters of `MCContent` chosen so that they do;
the texts fill one, two and three groups of base64 with no, one and two padding
characters, and are cut after any character, as is the boundary behind them; one text that
is not encoded has a boundary in it.

Bounds named in the modules: `MaxMsgs` (Acq), `MaxBlocks` (Mpool), `MaxTasks` (Tpool),
`Mails` (the pool does not grow: when all are out, allocation fails), `twice` (Noweb: when
a mail was handed on twice, what the two threads that have it do is not followed), `cut`
(Content: a form is not followed behind an escape that a packet cuts, nor any part behind
its boundary), `Ids` and `MaxFailures`
(Control: instances and threads that exist at once, a start waits for room; and how many
kinds of failure one run has, each as often as it likes), `MaxBufs` and `MaxConns`
(Capture), `MaxLines` (Spam: a longer file is not loaded), `MaxWords` (Automaton), and in `Pipeline` the stutter
`AllLost` when every mail of the bounded pool was given up.

### Fairness

Threads that can run are run (`WF`), and a thread that keeps asking for a POSIX mutex
gets it (`SF` on the lock steps, since others take the mutex in between). A worker goes
on with the command it carries out, and a cancelled thread ends, because the threads
have asynchronous cancellation. Calls to the database return, and the client of a task
ends its connection. The capture and analysis threads, filters and `am_build` go on (`FairSpec` of `Content`, which the
other properties of the run do not need). Nothing is assumed of the outside: no packet need arrive, no client
need connect or send a command, no wait ends by itself, and no producer need call.
`LockFree` of `Mpool` has only weak fairness of whole threads: a single call may be
overtaken for ever, all of them may not.

## What is proved

* `UtilsProofs`, of `Mcq`: for every power of two `QLen` and every `Size`, type correctness, that
  copies never collide, that published slots are whole, and that the ring implements
  `BoundedFifo`. The inductive invariant adds to `TypeOK` where the local index of each
  side stands relative to `head` and `tail`, and how many words of a copy are done;
  without it a step of the copy could be at any slot.
* `PipelineProofs`, of `Acq`: for every number of producers and consumers, type correctness, mutual
  exclusion and `NoLostWakeup`. The mutex invariant ties `mutex` to the set of threads
  whose pc is inside; the wakeup invariant says that a nonempty queue always has
  somebody awake who will signal or look. For the refinement of `BoundedFifo`, `StoreInv`
  and `LoadInv` say what slot the thread inside is about to write or has read, and
  `LiveFilled` that a slot between the indices holds a message.
* `UtilsProofs`, of `Mpool`: for every number of threads that free, blocks of any size and any number
  of them, type correctness, `OneOwner` and `LeakOnlyAtPublish`, for one thread that
  allocates (`OnePopper`; `mpool_shared` shows that two are too many). The invariant says
  of the nodes at rest, on the stack or leaked, that no two are linked to one node and
  none to the top (`ListInv`), so that what is popped is linked from nowhere; and of the
  allocating thread, that the node it looks at is still at rest and its link is the one
  it read (`PopInv`): no other thread can take that node and bring it back. The stack is
  a recursive function of the links (`Within`). That it is the least set that contains the
  top and is closed under links is proved by looking at the least number at which it
  would not be.
* `UtilsProofs`, of `Tpool`: for every number of workers and of connections, type
  correctness, `InOrder` and `PoolOutlivesWorkers`. `TasksInv` says that some
  numbering of cells is the linked list: it begins at the head, ends at the tail, follows
  the links, names no cell twice and every cell in use, and cell i holds task
  `Len(taken) + i`. Adding a task extends the numbering (`PushChain`; that `malloc` still
  finds a cell is counted in `CellFree`), taking one shifts it (`PopChain`), and the walk
  of `List_free` is that numbering (`WalkIs`, `FreeEmpties`), so that it releases
  everything. `WorkersInv` says which workers exist and which have ended, by their number,
  and who sleeps: nobody but a joined or never created worker is left when `joined`
  reaches `current_num`.
* `ServiceProofs`, of `Control`: for one client, any set of addresses and any number of
  failures, type correctness, `UsesOpen`, `KeywordsComplete`, `OneThreadEach`, `ReleaseOnce` and
  `NothingLeft`. What these claim depends on where a command is in its program, so the
  invariant speaks of the rest of it. `ProgramInv` says what that rest can be: the end of
  the list of initialisations, creations or steps of `match_rebuild`, or a program that
  releases nothing twice, joins each thread before it releases what the thread needs, and
  begins with the capture thread. That `server_stop` and what follows a failed start are
  such programs follows from how they are composed (`Piece`): each `_stop` function is a
  piece, and pieces can be put behind each other if the first does not release what the
  threads of the second need. `OpenInv` says that what was initialised
  and is not yet released is there (`There`), `LeftInv` that nothing else is,
  `ThreadInv` that each running thread is the one whose identifier was kept, and that its
  join is still to come, `CaptureInv` that the analysis threads run only behind the capture
  thread: without it, the early return of `analy_stop` could leave them.
* `ServiceProofs`, of `Spam`: for any number of filters, mails, words and buckets, type
  correctness, `AloneRight`, `CrashOnlyIfRaced` and, if the file has each word once at
  first, `SavedOnce`. First what the operators of the table compute: insertion keeps a word
  in the bucket of its hash (`InsertIs`, `InsertedIs`), what is written from a cursor on
  has a word twice only if the table has or the cursor's node is in a bucket behind its
  index (`RemainingIs`), and how the words a walk has passed grow from node to node
  (`NodePassed`, `BucketEnds`). `AloneInv` then says of a filter that runs alone what it
  has read of its mail (`Reads`), and that it has counted exactly the words of the mail
  among those its walk has passed (`Walks`): without it the words counted would say nothing
  about the words not reached yet. While such a filter is under way no other one is, and
  one that has ended is no longer touched by what moves the cursor (`NotRunning`). `FileInv`
  adds that the cursor's node is in no bucket behind its index, which is what lets
  `spam_close` write without rewinding.
* `CaptureProofs`: for any number of tuples, streams, buffers and connections, any
  length of the queue and any buckets, type correctness, `RightNode`, `OneNode` and
  `NothingLeft`. First what the operations of the table do to its buckets (`InsertIs`,
  `DelIs`). The messages under way are numbered in the order in which they are treated,
  from the analysis thread (place 0) through the queue to the capture thread; a step
  shifts them or drops one (`StepMoves`), or puts one behind the others (`PutShape`). The
  invariant says that the stream of a packet has its tuple or was reused
  (`MessageInv`), what the packet in hand entitles the thread to (`CallInv`), that a node is
  in its bucket once (`TableInv`), and, by `OrderInv`, that between two closes all packets of
  a tuple are of one stream, which is that of its node: without the last one, nothing would
  keep a packet of a new connection in front of the close of the old one.
* `NowebProofs`: for every set of connections and mails, type correctness, `OwnMail`
  and the refinement of `MailLifecycle` (`LifecycleKept`), whatever the clients send. It begins with what each step
  on a mail of `MailHolder` (taking, handing on, forgetting, a step downstream) does to the
  relation of nodes and mails: `FillerInv`, that the filler of a mail in analysis is the one
  connection whose node points to it. Without it nothing would keep a second node from
  pointing to a mail that is being filled. `WebmailProofs` repeats these lemmas, because no
  module can extend both `Noweb` and `Webmail`. The inductive invariant adds to `FillerInv` what the packet in hand entitles the thread to (`CallInv`);
  `WaysEnd` shows that every way through the switch of `parse_content` that hands the
  mail on also ends it.
  A connection in `reused` is no filler; it leaves the set with the mail it writes into, and
  only its hand-over can set `twice`.
* `WebmailProofs`: the same without any exception, `DirectionKept`, and `FormPosition`, for
  any number of forms at once: the form that set `flag` last has ended if `flag` is no key,
  so that a form which goes on is another one. `CallInv` here says which kind of node each step of a call has in hand; `Proper` is
  what every `RETURN` has to respect.

* `PipelineProofs`, of `Pipeline`: for every set of mails and every length of the queues, type
  correctness, `OnePlace` and the refinement of `MailLifecycle`. `OnePlace` is about
  positions in queues and is not inductive; the invariant is `OneSpot` (at most one
  variable refers to a mail) with `QueuesOnce` (no queue holds one twice) and `HandInv` (a
  thread has a mail in hand exactly where its code works on one). Every step moves one
  mail from one spot to another, or none (`StepMoves`), and that keeps the invariant.
  For the refinement, `RecordInv` says that nothing was written of a mail that no log
  thread has, and what was written at each point of its log thread; stage and debt of a
  mail are then a function of its one spot (`StageOfSpot`), and a step changes them for
  the mail it moves alone.

* `KeywordProofs`: for any keywords, any fields, texts and attachments of characters up to
  127, and any way to encode and cut them, `FindsFirstKeyword`. This is the correctness of `am_build` and `am_match`, which are recursive functions of the model. A node is what
  leads to it (`Trie`; `TreeIs` for the tree of the words added). While `am_build` runs,
  `Building` says which nodes wait in the queue and in which order (`Queued`), that the
  failure pointer of each is the longest node that ends it without being it, and how far
  the row of each node is complete (`Tabled`: an entry is the longest node that ends what
  was read, `Best`). The order matters: a failure pointer leads to a shorter node, whose
  row is complete (`NextIs`), because nodes wait in the order of their length. The queue
  never holds more nodes than there are letters, and wraps at its end (`TailIs`); that
  the tail can stand one place behind the end, if every word is one letter, is a case of
  its own (`FlatAt`). An empty queue then means that every row is complete (`AllDone`,
  `Complete`), so that the walk of `am_match` is at the longest node that ends the text
  read, and stops at the first that is a word (`MatchIs`, `MatchFinds`). The rest shows that
  what is searched is a string, through every decoder (`UnescapeIs`, `StreamLoopIs`,
  `StrDecodeIs`, `DecodedIs`). Recursive functions are shown to exist by the least number
  at which they would not (`StageByStage`, `LetterByLetter`, `BackwardRuns`).

* `ContentProofs`, which begins where `KeywordProofs` ends: `FieldWhole` and `TextRight`, for
  the same parameters. The first follows each way to write a field and back again, for names
  and what follows them of any length. Of base64, `Coded` says what each character of a code is, `GroupOf`
  that the decoder gives back the three bytes of a group, and `Base64Back` that the whole
  text comes back, with a zero behind it if its code ends in one `=`: this zero is what
  cuts off the rest of the field. Of escapes, `EscapedAs` says where each character and its
  digits are, `CharBack` that two digits give the character back in small and capital
  letters, although `url_decode_byte` computes the small ones modulo 256, and
  `EscapesBack` that the loop of `url_decode` and `quote_decode` goes from one to the next.
  `StrDecodeWord` says where `str_decode` finds the word and what follows it: the code
  must not hold a `?`, nor a CR at which the line would end (`CodeFree`). `FieldsReadBack` is
  for any name in any way that escapes it. `FieldsWhole` needs more (see below).

  `TextRight` says what is kept of a text however its packets, and the boundary behind it,
  are cut, and that the process ends only in the case `MayCrash`. It is not inductive: it says nothing of the bytes that
  wait in `buf` from one packet to the next. `RightInv` does (`PartKept`): the characters
  received are some whole groups of the code and at most three that wait (`AtGroup`), and
  what is kept is what these groups hold (`GroupsKept`). `Lined` describes the code in its
  lines by where each group begins. `CodePacket` is that the loop of a packet goes from a
  group, or from the end of a line in front of one (`Place`), to another, whatever line ends
  and halves of a group the cut leaves at either side. That no code and no escaped text
  holds the boundary (`EndPlace`, `EndPlaceOf`) makes the end that is found the right one; a
  boundary that was cut is behind the whole code (`CodeOver`), and decoding it only adds. `OldEqual` is about what is behind
  the waiting bytes in `buf`: a "=" is there only if an earlier text left it, which is what
  confines a negative `dlen` to `MayCrash`.

Assumptions are those the modules name: disjoint sets of threads, a power of two as
length (which `Mcq_new` ensures by rounding), positive sizes, keywords that are not
empty. Some theorems need more, and
say so: `OnePopper` (`Mpool`), one
client (`Control`), a first file without repetitions (`SavedOnce`; what is in the file
before the daemon is first started is not the daemon's doing), and `PlainFields`
(`FieldWhole`: no name and nothing that follows one holds a CR, `%`, `+` or `=`. A sender
who writes such a character as it is, not escaped, is not understood: `str_decode`
unescapes what is not an encoded word as well, and takes an `=` among the first two
characters for one. `FieldsReadBack` asks it only of what is not escaped). Under `What the checks
found` is what happens without the first two.

No invariant and no refinement is only model checked. All liveness is (`Delivered`,
`LockFree`, `TaskTaken`, `FreeReturnsIfTwo`, `MailsReturn`, `BufferReturns`, `Answered`,
`FilterEnds`, `BuildEnds`), because it is outside of what the prover can do.

## What the checks found

* Two threads allocate from `mailpool`, although `Mpool_alloc` is written for one
  (`mpool_shared`; `utils/mem.c:142`).
* `server_stop` releases `mailpool` (and closes the database before that) while the
  monitor and log threads still take mails from their queues and give them back
  (`src/analy.c:104`); the comment at `inc/global.h:68` leaves the nodes to the log
  module. `ReleasedEarly` of `Control` is that exception to `UsesOpen`: without it TLC
  finds one start and one stop. The other resources are released in the right order.
* A POP3 mail that begins right after another is written into that one, which the
  monitor thread has (`src/analy_noweb.c:331`): a client that sends RETR twice is enough.
  The run contains it. `OwnMail` and `LifecycleKept` hold of all other connections, before,
  meanwhile, and up to the step that hands the mail on again.
* Two users who send a webmail at the same time can abort the daemon
  (`src/analy_webmail.c:368`): the form of one ends, and the other is continued from
  nowhere, which is the `assert(0)` of line 587. The run contains it; `FormPosition` says
  that nothing else leads there.
* A boundary or an end of a form that is cut by the edge of a packet is not found
  (`src/analy_noweb.c:550`, `663`; `src/analy_webmail.c:519`, `548`): it and what follows are
  kept as text. A text that is not encoded and has `\r\n--` in it, as in front of a
  signature, ends there. `TextRight` allows both, and says what is kept.

What the properties had to leave out, because the code does it:

* With one worker, `Tpool_free` can wait for ever: the flag is set without the mutex
  (`utils/tpool.c:111`). `FreeReturnsIfTwo` claims it for any other number.
* An IMAP answer with a long tag hands a null mail to the monitor thread, which asserts
  that it is none (`src/analy_noweb.c:303`). `sentNull` records it.
* `log[0][3]` is overwritten by `log[1][0]`: one log thread is never ended, and another
  one is cancelled and joined twice (`src/log.c:36`). `Forgotten` is that thread.
* When the start of the analysis fails at `mailpool`, the service is started all the
  same, and the results of the two analysis modules are not looked at
  (`src/analy.c:67`). `Sound` says that this did not happen.
* A capture thread that ended by itself may make `analy_stop` return before it stops
  the analysis threads (`src/analy.c:92`). `Sound` leaves it out as well.
* The first packet of a connection reads the tuple, its bucket and its port from the stream
  of libnids, although the message carries the tuple (`src/analy_noweb.c:228`). If the stream
  was reused by then, the node belongs to the other connection, lies in a bucket where
  it is not found, or fails the assertion on the direction. `recycled` leaves those
  tuples out.
* A close that meets a full queue, or a connection that times out in libnids, leaves its
  node, with a stale `ts`, to the next connection of the same tuple; `kill()` then takes the
  addresses of whoever has that stream. `lost` leaves them out.
* `spam_close` writes the words from where the last walk stopped (`src/spam.c:184`): none
  after a filter that ended, all but those of bucket 0 before any filter (so that the
  training program loses them too), the rest after one that was cancelled.
* Two filters that overlap skip and repeat words, and can follow a null pointer, because
  `*value` is read from the shared cursor once more.
* A keyword that lies in the middle of a longer one is not found where the text goes on
  like the longer one and leaves it (`utils/match.c:287` hands on letters, not words).
  `Hidden` says which.
* A base64 field with one `=` loses what follows it, for example the address
  (`utils/base64.c:187`); a name whose second character is `=` makes `str_decode` follow a
  null pointer, and a field that is not encoded loses its `+` and `%` (the names of the run
  have none of these).
* A mail that is one base64 text shows only its first packet, because as many bytes are
  appended as were received, with a zero behind what was decoded
  (`src/analy_noweb.c`, `Appended`). Of a mail with an attachment only the first packet of
  the text is kept.
* If both a text and an attachment in base64 end in one `=`, the old bytes of `buf` can
  make `dlen` negative, and `memmove` is called with it (`MayCrash`).
* Quoted-printable bodies go through the base64 decoder; a `%` escape of a form that a
  packet cuts is lost (the FIXME at `src/analy_webmail.c:524`); a keyword that two packets
  share is not found.
* Words of one letter each, all different, put one entry behind the queue of `am_build`.
* Commands of two clients are not kept apart: `isboot` is read when a command begins and
  written when it ends. With two clients `UsesOpen`, `KeywordsComplete`,
  `OneThreadEach`, `ReleaseOnce` and `NothingLeft` fail: two `S` start two threads of
  each role, two `E` release everything twice, and an `A` that is under way during an
  `E` reads the database that was closed. The run and the
  proofs have one client.

## What is not modelled and why

* In `Noweb` and `Webmail` the bytes of packets and mails: what the control flow makes of
  them is a choice there. `Content` has the bytes, of one mail at a time: that the
  packets of two mails mix in the static `buf`, as their positions do in `Noweb`, is
  outside of it.
* Bytes above 127 (`url_decode_byte` on a signed `char`), and the conversion of words to GBK.
* `DEBUG` output, and the reset packets of `kill.c`, on which nothing inside the program
  depends.
* `isfilename` of a webmail node, which says only in which packets a name is looked for.
* The failure of `malloc` inside a pool, after which the pool is freed under its users.
* libnids, ODBC and zlib: external libraries. The life of a `tcp_stream` that a node
  keeps a pointer to is theirs.
* Mutexes that a cancelled thread holds, and what `accept_request` leaks: its
  `close(clientfd)` is behind an endless loop (`src/main.c:372`).
* Functions without a caller in `src/`: `kmp_match` (it misses `ab` in `aab`), `am_rebuild`,
  `url_decode_replace_2`, `List_append`, `List_add`, `List_del`, `List_pop`,
  `Shash_del`.
* The failure of `calloc` in `am_addword` and of `iconv_open` in `match_build_from_db`, which
  leaves an automaton that was not built.
* Weak memory in `Spam`: accesses take effect in the order in which they are made. Two
  writers of `filter_word` leave the word of one or no word at all.
* The static statement and buffers of `src/db.c`, which eight log threads share without a
  lock: any mixture of their records is possible, so that there is nothing left to claim.
* The spam score, which is floating point; the configuration reader, sockets and host
  statistics, which are input and output.

## Plan for later work

In the order of importance to the system:

1. The tracing that reads a mail after it was handed on, as further steps of `Noweb`
   and `Webmail`.
2. Two mails at a time in `Content`.
