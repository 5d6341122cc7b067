----------------------------- MODULE ImapFetch -----------------------------
(***************************************************************************)
(* Receiver.fetch of imap/imap.go: FETCH writes messages into a channel,   *)
(* an indexer numbers and forwards them, workers parse them, a collector   *)
(* gathers the results, and a watchdog tears the connection down once the  *)
(* context is done.                                                        *)
(*                                                                         *)
(* The channels are queues that are never full (their capacity is limit),  *)
(* so each is the gap between two counters: how many messages of the batch *)
(* have gone in, and how many have come out.  Sending a result and         *)
(* collecting it is one step.  The bodies are in memory when FETCH hands   *)
(* them over, so reading one does not fail.                                *)
(***************************************************************************)
EXTENDS Receiver, Integers, SequencesExt

CONSTANT Workers  \* the parsing goroutines of one fetch, at most (maxFetchWorkers)

ASSUME WorkersAssumption == IsFiniteSet(Workers) /\ Workers # {}

VARIABLES
    conn,        \* the connection: "up", "down", or "wedged": open and silent
    seen,        \* the messages with \Seen, which FETCH RFC822 sets
    batch,       \* the messages of the FETCH, in the mailbox's order
    done,        \* the outcome of the command: "running", "ok" or "error"
    got,         \* how many messages FETCH has written to fetchMessages
    read,        \* how many of them the indexer has read
    forwarded,   \* how many it has forwarded: idx
    taken,       \* how many of those a worker has received
    parsing,     \* the position in batch each worker is busy with, or 0
    left,        \* workers that have returned
    collected    \* the positions in emailsMap

fetchVars == <<batch, done, got, read, forwarded, taken, parsing, left, collected>>

\* The elements of s at some of its positions, in the order of s.
AtPositions(s, positions) ==
    FlattenSeq([i \in 1..Len(s) |-> IF i \in positions THEN <<s[i]>> ELSE <<>>])

FetchInit ==
    /\ batch = <<>> /\ done = "ok"
    /\ got = 0 /\ read = 0 /\ forwarded = 0 /\ taken = 0
    /\ parsing = [w \in Workers |-> 0]
    /\ left = Workers
    /\ collected = {}

\* The call of fetch: one worker per message asked for, up to maxFetchWorkers.
StartFetch(messages, limit) ==
    /\ batch' = messages
    /\ done' = "running"
    /\ got' = 0 /\ read' = 0 /\ forwarded' = 0 /\ taken' = 0
    /\ parsing' = [w \in Workers |-> 0]
    /\ \E crew \in SUBSET Workers :
        /\ Cardinality(crew) = Min({Cardinality(Workers), Max({limit, 1})})
        /\ left' = Workers \ crew
    /\ collected' = {}

-----------------------------------------------------------------------------
(* The command and the watchdog *)

\* The server sends the next message, and marks it.
Respond ==
    /\ done = "running" /\ conn = "up"
    /\ got < Len(batch)
    /\ got' = got + 1
    /\ seen' = seen \cup {batch[got + 1]}
    /\ UNCHANGED <<ctxDone, conn, batch, done, read, forwarded, taken, parsing, left, collected>>

\* The command is answered, with or without success.
Answer ==
    /\ done = "running" /\ conn = "up"
    /\ \/ got = Len(batch) /\ done' = "ok"
       \/ done' = "error"
    /\ UNCHANGED <<ctxDone, conn, seen, batch, got, read, forwarded, taken, parsing, left, collected>>

\* The connection is gone, and with it what the server had already sent.
Broken ==
    /\ done = "running" /\ conn = "down"
    /\ done' = "error"
    /\ \E sent \in got..Len(batch) : seen' = seen \cup ToSet(SubSeq(batch, 1, sent))
    /\ UNCHANGED <<ctxDone, conn, batch, got, read, forwarded, taken, parsing, left, collected>>

\* Mutant of Watchdog: it looks at the context only while something arrives.
WatchdogIdle ==
    /\ ctxDone /\ conn = "up"
    /\ conn' = "down"
    /\ UNCHANGED <<ctxDone, seen, fetchVars>>

\* c.Terminate
Watchdog ==
    /\ ctxDone /\ conn # "down"
    /\ conn' = "down"
    /\ UNCHANGED <<ctxDone, seen, fetchVars>>

-----------------------------------------------------------------------------
(* The indexer and the workers *)

\* The indexer has cancelled set exactly if it has read more than it forwarded.
Forward ==
    /\ read < got /\ forwarded = read
    /\ read' = read + 1
    /\ forwarded' = forwarded + 1
    /\ UNCHANGED <<ctxDone, conn, seen, batch, done, got, taken, parsing, left, collected>>

\* Once it has seen the context done, it only drains.
Discard ==
    /\ read < got
    /\ ctxDone \/ forwarded < read
    /\ read' = read + 1
    /\ UNCHANGED <<ctxDone, conn, seen, batch, done, got, forwarded, taken, parsing, left, collected>>

\* fetchMessages and messages are closed and empty.
Drained == done # "running" /\ read = got /\ taken = forwarded

\* A worker receives a message, and returns if the context is done.
Receive(w) ==
    /\ w \notin left /\ parsing[w] = 0
    /\ taken < forwarded
    /\ taken' = taken + 1
    /\ IF ctxDone
       THEN left' = left \cup {w} /\ UNCHANGED parsing
       ELSE parsing' = [parsing EXCEPT ![w] = taken + 1] /\ UNCHANGED left
    /\ UNCHANGED <<ctxDone, conn, seen, batch, done, got, read, forwarded, collected>>

\* ParseRawEmail, and the result if there is one.
Parse(w) ==
    /\ parsing[w] # 0
    /\ parsing' = [parsing EXCEPT ![w] = 0]
    /\ collected' = IF batch[parsing[w]] \in Unreadable THEN collected
                                                         ELSE collected \cup {parsing[w]}
    /\ UNCHANGED <<ctxDone, conn, seen, batch, done, got, read, forwarded, taken, left>>

\* messages is closed and empty.
Leave(w) ==
    /\ w \notin left /\ parsing[w] = 0
    /\ Drained
    /\ left' = left \cup {w}
    /\ UNCHANGED <<ctxDone, conn, seen, batch, done, got, read, forwarded, taken, parsing, collected>>

WorkerStep(w) == Receive(w) \/ Parse(w) \/ Leave(w)

-----------------------------------------------------------------------------
(* The collector *)

\* results is closed, and done has been read.
Finished == left = Workers /\ done # "running"

\* Mutant of FetchErr: a cancelled fetch whose command succeeded is a success.
FetchErrOfCommand == done = "error"

\* Does fetch return an error?  A context that is done is one, whatever the command says.
FetchErr == done = "error" \/ ctxDone

\* The emails it returns: in the mailbox's order, and reversed on success only.
Fetched ==
    LET inOrder == AtPositions(batch, collected)
    IN  IF FetchErr THEN inOrder ELSE Reverse(inOrder)

FetchStep ==
    \/ Respond \/ Answer \/ Broken \/ Watchdog
    \/ Forward \/ Discard
    \/ \E w \in Workers : WorkerStep(w)
=============================================================================
