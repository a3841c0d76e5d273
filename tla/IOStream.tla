------------------------------ MODULE IOStream ------------------------------
(***************************************************************************)
(* iobuffer_stream_t of C-kern/io/iosys/iobuffer.c: a file is read ahead   *)
(* into a ring of buffers by an iothread_t while its reader works with the *)
(* buffer readnext_iobufferstream returned last.                           *)
(*                                                                         *)
(* The reader is the only client of the iothread_t; every buffer has its   *)
(* own iotask_t, which is identified by its index.  Sizes and positions    *)
(* are counted in pieces of the file; piece k stands for its contents.     *)
(***************************************************************************)
EXTENDS IOThread, Integers

CONSTANTS BufferSize,  \* pieces which fit into an iobuffer_t
          MaxFileSize, \* bound: pieces of a file
          ShortReads   \* read transfers a part only and fails, or the file was cut

ASSUME IOStreamAssumption == /\ Clients = {Owner}
                             /\ Tasks = 0 .. Cardinality(Tasks) - 1
                             /\ Cardinality(Tasks) > 1
                             /\ Invalid = {}
                             /\ BufferSize \in Nat \ {0}
                             /\ MaxFileSize \in Nat \ {0}
                             /\ ShortReads \in BOOLEAN

VARIABLES rpc,        \* where the reader is in the functions of this file
          nextbuffer, filesize, readpos,
          offset,     \* offset[i], bufsize[i]: what task i reads
          bufsize,
          content,    \* content[i][k]: the piece of the file at k in buffer i, or -1
          held,       \* the buffer the reader works with, or NoTask
          consumed    \* pieces in the buffers the reader gave back

ringVars == <<nextbuffer, filesize, readpos, offset, bufsize>>
readerVars == <<held, consumed>>
streamVars == <<rpc, ringVars, content, readerVars>>
allVars == <<vars, streamVars>>

NrTasks == Cardinality(Tasks)
Smaller(a, b) == IF a < b THEN a ELSE b

StreamTypeOK ==
    /\ rpc \in {"closed", "opening", "insert", "idle", "next", "wait", "queue", "eof", "failed", "closing"}
    /\ nextbuffer \in Tasks /\ held \in Tasks \cup {NoTask}
    /\ filesize \in 0 .. MaxFileSize /\ readpos \in 0 .. MaxFileSize /\ consumed \in 0 .. MaxFileSize
    /\ offset \in [Tasks -> 0 .. MaxFileSize] /\ bufsize \in [Tasks -> 0 .. BufferSize]
    /\ content \in [Tasks -> [0 .. BufferSize - 1 -> -1 .. MaxFileSize - 1]]

StreamInit ==
    /\ Init
    /\ rpc = "closed"
    /\ nextbuffer = 0 /\ filesize = 0 /\ readpos = 0
    /\ offset = [i \in Tasks |-> 0] /\ bufsize = [i \in Tasks |-> 0]
    /\ content = [i \in Tasks |-> [k \in 0 .. BufferSize - 1 |-> -1]]
    /\ held = NoTask /\ consumed = 0

-----------------------------------------------------------------------------
(* init_iobufferstream and start_reading *)

\* The size of a file is read once; an empty file is not opened.
Open == /\ rpc = "closed"
        /\ InitThread
        /\ filesize' \in 1 .. MaxFileSize
        /\ rpc' = "opening"
        /\ UNCHANGED <<nextbuffer, readpos, offset, bufsize, content, readerVars>>

\* The tasks which are queued first: all but the last, as far as the file goes.
NrStart(size) == Smaller(NrTasks - 1, (size + BufferSize - 1) \div BufferSize)

\* start_reading: initreadp_iotask, setsize_iotask and setoffset_iotask.
StartReading ==
    LET nr == NrStart(filesize)
    IN  /\ rpc = "opening"
        /\ alive /\ pc[Owner] = "idle"
        /\ state' = [i \in Tasks |-> NULL]
        /\ nextbuffer' = 0
        /\ offset' = [i \in Tasks |-> IF i < nr THEN i * BufferSize ELSE 0]
        /\ bufsize' = [i \in Tasks |-> IF i < nr THEN Smaller(BufferSize, filesize - i * BufferSize)
                                       ELSE BufferSize]
        /\ readpos' = Smaller(filesize, nr * BufferSize)
        /\ consumed' = 0
        /\ rpc' = "insert"
        /\ UNCHANGED <<objectVars, listVars, pending, workerVars, ready, pc, alive,
                       filesize, content, held>>

StartInsert ==
    /\ rpc = "insert"
    /\ InsertLast(Owner, [k \in 1 .. NrStart(filesize) |-> k - 1])
    /\ rpc' = "idle"
    /\ UNCHANGED <<ringVars, content, readerVars>>

-----------------------------------------------------------------------------
(* readnext_iobufferstream *)

\* The buffer returned before belongs to the stream again.
ReadNext ==
    /\ rpc = "idle"
    /\ alive /\ pc[Owner] = "idle"
    /\ rpc' = "next"
    /\ held' = NoTask
    /\ consumed' = IF held = NoTask THEN consumed ELSE consumed + bufsize[held]
    /\ UNCHANGED <<vars, ringVars, content>>

NextNoData ==
    /\ rpc = "next"
    /\ state[nextbuffer] = NULL
    /\ rpc' = "eof"
    /\ UNCHANGED <<vars, ringVars, content, readerVars>>

NextWait ==
    /\ rpc = "next"
    /\ state[nextbuffer] = QUEUED
    /\ rpc' = "wait"
    /\ UNCHANGED <<vars, ringVars, content, readerVars>>

\* wait_eventcount: the event may be that of a task which was taken without it.
WaitEvent ==
    /\ rpc = "wait"
    /\ Counter!Take
    /\ rpc' = "next"
    /\ UNCHANGED <<objectVars, listVars, state, pending, workerVars, pc, alive,
                   ringVars, content, readerVars>>

NextError ==
    /\ rpc = "next"
    /\ state[nextbuffer] \in {ERROR, CANCELED}
    /\ rpc' = "failed"
    /\ UNCHANGED <<vars, ringVars, content, readerVars>>

NextTake ==
    /\ rpc = "next"
    /\ state[nextbuffer] = OK
    /\ state' = [state EXCEPT ![nextbuffer] = NULL]
    /\ held' = nextbuffer
    /\ rpc' = "queue"
    /\ UNCHANGED <<objectVars, listVars, pending, workerVars, ready, pc, alive,
                   ringVars, content, consumed>>

Following == (nextbuffer + 1) % NrTasks

\* Mistake: the buffer which was just returned is read into.
PreviousBug == nextbuffer

\* The buffer which was returned by the call before.
Previous == (nextbuffer + NrTasks - 1) % NrTasks

\* Mistake: the last, incomplete block of the file is forgotten.
MoreToReadBug == readpos + BufferSize <= filesize

MoreToRead == readpos < filesize

NextQueue ==
    LET size == Smaller(BufferSize, filesize - readpos)
    IN  /\ rpc = "queue"
        /\ MoreToRead
        /\ bufsize' = [bufsize EXCEPT ![Previous] = size]
        /\ offset' = [offset EXCEPT ![Previous] = readpos]
        /\ readpos' = readpos + size
        /\ InsertLast(Owner, <<Previous>>)
        /\ nextbuffer' = Following
        /\ rpc' = "idle"
        /\ UNCHANGED <<filesize, content, readerVars>>

NextLast ==
    /\ rpc = "queue"
    /\ ~MoreToRead
    /\ nextbuffer' = Following
    /\ rpc' = "idle"
    /\ UNCHANGED <<vars, filesize, readpos, offset, bufsize, content, readerVars>>

-----------------------------------------------------------------------------
(* free_iobufferstream *)

Close == /\ rpc \in {"idle", "eof", "failed"}
         /\ Free
         /\ held' = NoTask
         /\ rpc' = "closing"
         /\ UNCHANGED <<ringVars, content, consumed>>

CloseDone ==
    /\ rpc = "closing"
    /\ ~thread /\ pc[Owner] = "idle"
    /\ Counter!Reset
    /\ rpc' = "closed"
    /\ UNCHANGED <<objectVars, listVars, state, pending, workerVars, pc, alive,
                   ringVars, content, readerVars>>

-----------------------------------------------------------------------------
(* What the worker transfers *)

\* state is iostate_OK "if (off || !err)": also if an error ends a transfer
\* after a part of it, or pread returns 0 because the file became shorter.
Transfers(size) ==
    {[bytes |-> size, state |-> OK], [bytes |-> 0, state |-> ERROR]}
    \cup (IF ShortReads THEN {[bytes |-> n, state |-> OK] : n \in 0 .. size - 1} ELSE {})

ReadBlock ==
    /\ DoIO
    /\ \E t \in Transfers(bufsize[task]) :
          /\ result' = t.state
          /\ content' = [content EXCEPT ![task] =
                            [k \in DOMAIN @ |-> IF k < t.bytes THEN offset[task] + k ELSE @[k]]]
    /\ UNCHANGED <<rpc, ringVars, readerVars>>

WorkerOther == wpc # "io" /\ WorkerStep /\ UNCHANGED streamVars

\* The steps of the functions of iothread_t the reader is in.
ThreadCall == /\ OwnerStep \/ ResumeWorker(Owner) \/ CancelStep(Owner)
              /\ UNCHANGED streamVars

ReaderCall == \/ StartReading
              \/ StartInsert
              \/ NextNoData
              \/ NextWait
              \/ WaitEvent
              \/ NextError
              \/ NextTake
              \/ NextQueue
              \/ NextLast
              \/ CloseDone

StreamNext == \/ Open
              \/ ReadNext
              \/ Close
              \/ ReaderCall
              \/ ThreadCall
              \/ ReadBlock
              \/ WorkerOther
              \/ Spurious /\ UNCHANGED streamVars

StreamSpec == StreamInit /\ [][StreamNext]_allVars

\* Both threads are scheduled; the reader ends the calls it started.
StreamFairSpec == /\ StreamSpec
                  /\ WF_allVars(ReadBlock \/ WorkerOther)
                  /\ WF_allVars(ThreadCall)
                  /\ WF_allVars(ReaderCall)

-----------------------------------------------------------------------------
(* Properties *)

\* The reader gets the file in order, and while it works with a buffer nothing
\* is read into it: the buffer holds the pieces which follow the consumed ones.
BlocksInOrder ==
    held # NoTask => \A k \in 0 .. bufsize[held] - 1 : content[held][k] = consumed + k

\* "ENODATA - Es gibt keine weiteren Daten mehr, alle Daten wurden schon gelesen."
EndMeansAllRead == rpc = "eof" => consumed = filesize

\* readnext_iobufferstream never waits for ever, however the events of tasks it
\* found ready without waiting are mixed with those it waits for.
ReadNextReturns == rpc = "next" ~> rpc \in {"idle", "eof", "failed"}

-----------------------------------------------------------------------------
(* The inductive invariant *)

\* The reader has a stream whose buffers are in use.
Reading == {"insert", "idle", "next", "wait", "queue", "eof", "failed"}

\* How many buffers are in the ring between buffer f and buffer i.
Distance(i, f) == IF i >= f THEN i - f ELSE i - f + NrTasks

\* The n buffers which start with f are those in A.  They hold what is between the
\* positions pos and end of the file, one block after the other.
Ring(A, f, n, pos, end, off, size) ==
    /\ \A i \in Tasks : i \in A <=> Distance(i, f) < n
    /\ IF n = 0 THEN pos = end ELSE off[f] = pos
    /\ \A i \in Tasks : Distance(i, f) < n => off[i] + size[i] <= end
    /\ \A i \in Tasks : Distance(i, f) = n - 1 => off[i] + size[i] = end
    /\ \A i, j \in Tasks : Distance(j, f) < n /\ Distance(j, f) = Distance(i, f) + 1
                             => off[j] = off[i] + size[i]

\* The buffers which are being read into, or were read and are not taken yet.
Ahead == {i \in Tasks : IF rpc = "insert" THEN i < NrStart(filesize) ELSE state[i] # NULL}

\* The buffer the reader gets next, and where it starts in the file.  In "queue" the
\* buffer nextbuffer was taken already.
First == IF rpc = "queue" THEN Following ELSE nextbuffer
Position == consumed + (IF held = NoTask THEN 0 ELSE bufsize[held])

\* The buffers which may be ahead: all but the one the reader works with and, before it
\* was queued again, the one it worked with before.
MaxAhead == NrTasks - (IF rpc = "queue" THEN 2 ELSE 1)

RingInv ==
    rpc \in Reading =>
        /\ readpos <= filesize
        /\ \E n \in 0 .. MaxAhead :
              /\ Ring(Ahead, First, n, Position, readpos, offset, bufsize)
              /\ readpos < filesize => n = MaxAhead

\* The buffer the reader works with is the last one of the ring.
HeldInv == held # NoTask => /\ rpc \in {"idle", "queue"}
                            /\ Distance(held, First) = NrTasks - 1
                            /\ offset[held] = consumed

\* What a task reads is in the file.
InFile == \A i \in Tasks : state[i] = QUEUED => offset[i] + bufsize[i] <= filesize

\* Nothing is queued before the stream has its buffers, and nothing is initialized
\* while it is freed.
QuietInv == /\ rpc \in {"closed", "opening"} => \A i \in Tasks : state[i] # QUEUED
            /\ rpc = "insert" => \A i \in Tasks : state[i] = NULL
            /\ rpc = "closing" => ~alive /\ pc[Owner] \notin {"init", "initresume"} /\ InFile

StreamInv == /\ StreamTypeOK
             /\ ThreadInv
             /\ RingInv
             /\ HeldInv
             /\ QuietInv
             /\ EndMeansAllRead

\* What was read is what the task asked for.
Filled(i) == \A k \in 0 .. bufsize[i] - 1 : content[i][k] = offset[i] + k

FilledInv == \A i \in Tasks :
                 \/ state[i] = OK
                 \/ i = held
                 \/ wpc = "publish" /\ result = OK /\ i = task
                 => Filled(i)

=============================================================================
