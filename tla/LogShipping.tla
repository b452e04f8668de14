----------------------------- MODULE LogShipping -----------------------------
(***************************************************************************)
(* The Sidecar pattern: order-api appends JSON lines to files on a shared   *)
(* volume (logger.go) and the log-shipper tails them by byte offset and     *)
(* POSTs batches to the log-sink (log-shipper/index.js).  The shipper is    *)
(* one event loop, but every await lets the rest of the program run: on     *)
(* SIGTERM the drain's tick starts while the poll loop's tick may still be  *)
(* waiting for the file system or for the sink, and both read and write the *)
(* same offsets.                                                            *)
(*                                                                          *)
(* A file is measured in bytes; every line is two of them, its text and its *)
(* newline, so a tail may end in the middle of a line.  A line is           *)
(* <<f, g, k>>: the k-th line of file f after its g-th truncation.          *)
(***************************************************************************)
EXTENDS Naturals, FiniteSets

CONSTANTS
    Files,          \* the *.log files of LOG_DIR
    BatchMax,       \* BATCH_MAX
    MaxBody,        \* the sink's maxBodySize, in lines
    MaxLines,       \* bound: lines in a file
    MaxTruncations, \* bound: truncations of a file
    MaxFaults,      \* bound: pushes that fail although the sink is there
    MaxReadErrors,  \* bound: failing readdir, stat, open or read calls
    MaxCrashes,     \* bound: crashes of the shipper's container
    DrainAttempts,  \* attempts of shutdown's drain, 5 in the code
    NoFile

ASSUME BoundsAssumption ==
    /\ {BatchMax, MaxBody, DrainAttempts} \subseteq Nat \ {0}
    /\ {MaxLines, MaxTruncations, MaxFaults, MaxReadErrors, MaxCrashes} \subseteq Nat
ASSUME NoFileAssumption == NoFile \notin Files

VARIABLES
    size,       \* bytes in each file
    gen,        \* how often each file was truncated
    offset,     \* files[f].offset, the committed byte offset
    life,       \* "up", "crashed", "drained" or "gave_up"
    running,    \* the flag SIGTERM clears
    tpc,        \* where the poll loop's and the drain's tick stand
    todo,       \* the names the tick has still to look at
    cur,        \* the file it is looking at
    len,        \* const length = st.size - state.offset
    pos,        \* the position its read was issued at
    got,        \* the complete lines of its slice
    streams,    \* the lines collected so far
    pending,    \* the offset each file would advance to, 0 if none
    stored,     \* the lines the sink has taken
    attempts,   \* drain attempts begun
    atTerm,     \* the lines that were complete when SIGTERM came
    budget      \* faults still allowed: push, read, crash

fileVars == <<size, gen>>
tickVars == <<tpc, todo, cur, len, pos, got, streams, pending>>
vars == <<size, gen, offset, life, running, tpc, todo, cur, len, pos, got,
          streams, pending, stored, attempts, atTerm, budget>>

Ticks == {"poll", "drain"}
TPCs  == {"off", "sleep", "next", "open", "read", "slice", "sent", "ok", "rejected"}
Lines == Files \X (0 .. MaxTruncations) \X (1 .. MaxLines)

\* One type invariant: the volume, the process, its two ticks and the sink.
TypeOK ==
    /\ size \in [Files -> 0 .. 2 * MaxLines]
    /\ gen \in [Files -> 0 .. MaxTruncations]
    /\ offset \in [Files -> Nat]
    /\ life \in {"up", "crashed", "drained", "gave_up"}
    /\ running \in BOOLEAN
    /\ tpc \in [Ticks -> TPCs]
    /\ todo \in [Ticks -> SUBSET Files]
    /\ cur \in [Ticks -> Files \cup {NoFile}]
    /\ \A p \in Ticks : cur[p] = NoFile <=> tpc[p] \notin {"open", "read", "slice"}
    /\ len \in [Ticks -> Nat] /\ pos \in [Ticks -> Nat]
    /\ got \in [Ticks -> SUBSET Lines]
    /\ streams \in [Ticks -> SUBSET Lines]
    /\ pending \in [Ticks -> [Files -> Nat]]
    /\ stored \subseteq Lines
    /\ attempts \in 0 .. DrainAttempts
    /\ atTerm \subseteq Lines
    /\ budget \in [push : 0 .. MaxFaults, read : 0 .. MaxReadErrors, crash : 0 .. MaxCrashes]

NoPending == [f \in Files |-> 0]

Init ==
    /\ size = [f \in Files |-> 0]
    /\ gen = [f \in Files |-> 0]
    /\ offset = [f \in Files |-> 0]
    /\ life = "up" /\ running = TRUE
    /\ tpc = [p \in Ticks |-> IF p = "poll" THEN "sleep" ELSE "off"]
    /\ todo = [p \in Ticks |-> {}]
    /\ cur = [p \in Ticks |-> NoFile]
    /\ len = [p \in Ticks |-> 0] /\ pos = [p \in Ticks |-> 0]
    /\ got = [p \in Ticks |-> {}] /\ streams = [p \in Ticks |-> {}]
    /\ pending = [p \in Ticks |-> NoPending]
    /\ stored = {} /\ attempts = 0 /\ atTerm = {}
    /\ budget = [push |-> MaxFaults, read |-> MaxReadErrors, crash |-> MaxCrashes]

-----------------------------------------------------------------------------
(* The files: order-api's logger, and whoever rotates the logs in place.    *)

\* logger.write: the text and the newline reach the file one after the other.
Write(f) ==
    /\ size[f] < 2 * MaxLines
    /\ size' = [size EXCEPT ![f] = @ + 1]
    /\ UNCHANGED <<gen, offset, life, running, tickVars, stored, attempts, atTerm, budget>>

\* External: a copytruncate rotation between two lines.
Truncate(f) ==
    /\ gen[f] < MaxTruncations
    /\ size[f] > 0 /\ size[f] % 2 = 0
    /\ size' = [size EXCEPT ![f] = 0]
    /\ gen' = [gen EXCEPT ![f] = @ + 1]
    /\ UNCHANGED <<offset, life, running, tickVars, stored, attempts, atTerm, budget>>

Complete(f) == {<<f, gen[f], k>> : k \in 1 .. size[f] \div 2}

-----------------------------------------------------------------------------
(* collectBatch, await by await.                                            *)

InTick(p) == life = "up" /\ tpc[p] \notin {"off", "sleep"}

\* readdir: every *.log file is to be looked at.  The poll loop starts a tick
\* while running; the drain's ticks are started by Sigterm and by DrainFails.
Begin(p) ==
    /\ tpc' = [tpc EXCEPT ![p] = "next"]
    /\ todo' = [todo EXCEPT ![p] = Files]
    /\ cur' = [cur EXCEPT ![p] = NoFile]
    /\ streams' = [streams EXCEPT ![p] = {}]
    /\ pending' = [pending EXCEPT ![p] = NoPending]
    /\ UNCHANGED <<len, pos, got>>

PollTick ==
    /\ life = "up" /\ running /\ tpc["poll"] = "sleep"
    /\ Begin("poll")
    /\ UNCHANGED <<fileVars, offset, life, running, stored, attempts, atTerm, budget>>

\* What collectBatch compares st.size with: the committed offset, restarted
\* when the file has shrunk below it.
Resumed(f) == IF size[f] < offset[f] THEN 0 ELSE offset[f]

\* stat answers: reset on truncation, skip a file with nothing new, else open.
Stat(p, f) ==
    /\ InTick(p) /\ tpc[p] = "next" /\ f \in todo[p]
    /\ todo' = [todo EXCEPT ![p] = @ \ {f}]
    /\ offset' = [offset EXCEPT ![f] = Resumed(f)]
    /\ IF size[f] > Resumed(f)
         THEN /\ tpc' = [tpc EXCEPT ![p] = "open"]
              /\ cur' = [cur EXCEPT ![p] = f]
              /\ len' = [len EXCEPT ![p] = size[f] - Resumed(f)]
         ELSE UNCHANGED <<tpc, cur, len>>
    /\ UNCHANGED <<fileVars, life, running, pos, got, streams, pending, stored,
                   attempts, atTerm, budget>>

\* open answers: read is issued at what state.offset is by now.
Open(p) ==
    /\ InTick(p) /\ tpc[p] = "open"
    /\ tpc' = [tpc EXCEPT ![p] = "read"]
    /\ pos' = [pos EXCEPT ![p] = offset[cur[p]]]
    /\ UNCHANGED <<fileVars, offset, life, running, todo, cur, len, got, streams,
                   pending, stored, attempts, atTerm, budget>>

\* The lines that lie whole within the n bytes of f from byte b on.
Slice(f, b, n) ==
    {l \in Complete(f) : b + 2 <= 2 * l[3] /\ 2 * l[3] <= b + n}

\* The read happens: a short read when the file has shrunk.
Read(p) ==
    /\ InTick(p) /\ tpc[p] = "read"
    /\ tpc' = [tpc EXCEPT ![p] = "slice"]
    /\ got' = [got EXCEPT ![p] = Slice(cur[p], pos[p], len[p])]
    /\ UNCHANGED <<fileVars, offset, life, running, todo, cur, len, pos, streams,
                   pending, stored, attempts, atTerm, budget>>

\* Mutant: the whole slice is committed, the half line at its end included.
NewOffsetPastSlice(p) == offset[cur[p]] + len[p]

\* newOffset: what state.offset is when the read has answered, plus the bytes
\* up to the last newline of the slice.
NewOffset(p) == offset[cur[p]] + 2 * Cardinality(got[p])

\* The loop body is left: its locals are gone.
Forget(p) ==
    /\ len' = [len EXCEPT ![p] = 0]
    /\ pos' = [pos EXCEPT ![p] = 0]
    /\ got' = [got EXCEPT ![p] = {}]

\* Mutant: the file stays open after its lines were collected.
CollectKeepsFile(p) ==
    /\ InTick(p) /\ tpc[p] = "slice"
    /\ tpc' = [tpc EXCEPT ![p] = "next"]
    /\ streams' = [streams EXCEPT ![p] = @ \cup got[p]]
    /\ pending' = IF got[p] = {} THEN pending
                  ELSE [pending EXCEPT ![p][cur[p]] = NewOffset(p)]
    /\ Forget(p)
    /\ UNCHANGED <<fileVars, offset, life, running, todo, cur, stored, attempts, atTerm, budget>>

\* read answers: the lines join the batch, or there is no complete line yet.
Collect(p) ==
    /\ InTick(p) /\ tpc[p] = "slice"
    /\ tpc' = [tpc EXCEPT ![p] = "next"]
    /\ cur' = [cur EXCEPT ![p] = NoFile]
    /\ streams' = [streams EXCEPT ![p] = @ \cup got[p]]
    /\ pending' = IF got[p] = {} THEN pending
                  ELSE [pending EXCEPT ![p][cur[p]] = NewOffset(p)]
    /\ Forget(p)
    /\ UNCHANGED <<fileVars, offset, life, running, todo, stored, attempts, atTerm, budget>>

\* readdir fails and the batch stays empty; a file is gone when stat looks for
\* it and is passed over; or one cannot be opened or read and is left out of the
\* batch: collectBatch goes on.
ReadFails(p) ==
    /\ InTick(p) /\ budget.read > 0
    /\ budget' = [budget EXCEPT !.read = @ - 1]
    /\ \/ tpc[p] = "next" /\ todo[p] = Files
          /\ todo' = [todo EXCEPT ![p] = {}]
          /\ UNCHANGED <<tpc, cur>>
       \/ tpc[p] = "next"
          /\ \E f \in todo[p] : todo' = [todo EXCEPT ![p] = @ \ {f}]
          /\ UNCHANGED <<tpc, cur>>
       \/ tpc[p] \in {"open", "read"}
          /\ tpc' = [tpc EXCEPT ![p] = "next"]
          /\ cur' = [cur EXCEPT ![p] = NoFile]
          /\ UNCHANGED todo
    /\ Forget(p)
    /\ UNCHANGED <<fileVars, offset, life, running, streams, pending, stored, attempts, atTerm>>

-----------------------------------------------------------------------------
(* tick: what becomes of the batch.                                         *)

Collected(p) == InTick(p) /\ tpc[p] = "next" /\ todo[p] = {}

\* The poll loop's tick is over: it sleeps, and ends if running was cleared.
PollSleeps ==
    /\ tpc' = [tpc EXCEPT !["poll"] = IF running THEN "sleep" ELSE "off"]
    /\ streams' = [streams EXCEPT !["poll"] = {}]
    /\ pending' = [pending EXCEPT !["poll"] = NoPending]
    /\ UNCHANGED <<life, todo, cur, len, pos, got, attempts>>

\* process.exit: the memory of the shipper is gone.
Exit(how) ==
    /\ life' = how
    /\ offset' = [f \in Files |-> 0]
    /\ tpc' = [p \in Ticks |-> "off"]
    /\ todo' = [p \in Ticks |-> {}]
    /\ cur' = [p \in Ticks |-> NoFile]
    /\ len' = [p \in Ticks |-> 0] /\ pos' = [p \in Ticks |-> 0]
    /\ got' = [p \in Ticks |-> {}] /\ streams' = [p \in Ticks |-> {}]
    /\ pending' = [p \in Ticks |-> NoPending]
    /\ UNCHANGED attempts

\* A drain attempt failed: the next one, or exit after the last.
DrainFails ==
    \/ attempts < DrainAttempts
       /\ Begin("drain")
       /\ attempts' = attempts + 1
       /\ UNCHANGED <<offset, life>>
    \/ attempts = DrainAttempts /\ Exit("gave_up")

\* The offsets a successful push commits.
Advanced(p) == [f \in Files |-> IF pending[p][f] > 0 THEN pending[p][f] ELSE offset[f]]

\* Mutant: the offsets are committed whatever the push returned.
TickFailsCommits(p) ==
    \/ p = "poll" /\ PollSleeps /\ offset' = Advanced(p)
    \/ p = "drain" /\ DrainFails

TickFails(p) ==
    \/ p = "poll" /\ PollSleeps /\ UNCHANGED offset
    \/ p = "drain" /\ DrainFails

\* No line was found.
NothingNew(p) ==
    /\ Collected(p) /\ streams[p] = {}
    /\ \/ p = "poll" /\ PollSleeps /\ UNCHANGED offset
       \/ p = "drain" /\ Exit("drained")
    /\ UNCHANGED <<fileVars, running, stored, atTerm, budget>>

\* Too few lines, and FLUSH_MS has not passed: the poll loop waits.
NotDue(p) ==
    /\ Collected(p) /\ streams[p] # {}
    /\ p = "poll" /\ Cardinality(streams[p]) < BatchMax
    /\ PollSleeps
    /\ UNCHANGED <<fileVars, offset, running, stored, atTerm, budget>>

\* Mutant: the offsets are committed when the POST is issued.
PushCommitsFirst(p) ==
    /\ Collected(p) /\ streams[p] # {}
    /\ tpc' = [tpc EXCEPT ![p] = "sent"]
    /\ offset' = Advanced(p)
    /\ UNCHANGED <<fileVars, life, running, todo, cur, len, pos, got, streams,
                   pending, stored, attempts, atTerm, budget>>

\* pushToSink issues its POST.
Push(p) ==
    /\ Collected(p) /\ streams[p] # {}
    /\ tpc' = [tpc EXCEPT ![p] = "sent"]
    /\ UNCHANGED <<fileVars, offset, life, running, todo, cur, len, pos, got, streams,
                   pending, stored, attempts, atTerm, budget>>

\* log-sink's handlePush: MaxBytesReader makes a longer body a 400, any other
\* is stored and answered 204.
SinkAnswers(p) ==
    /\ InTick(p) /\ tpc[p] = "sent"
    /\ \/ Cardinality(streams[p]) <= MaxBody
          /\ stored' = stored \cup streams[p]
          /\ tpc' = [tpc EXCEPT ![p] = "ok"]
       \/ Cardinality(streams[p]) > MaxBody
          /\ tpc' = [tpc EXCEPT ![p] = "rejected"]
          /\ UNCHANGED stored
    /\ UNCHANGED <<fileVars, offset, life, running, todo, cur, len, pos, got, streams,
                   pending, attempts, atTerm, budget>>

\* 2xx: commit.  The drain is done and exits in the same turn.
Commit(p) ==
    /\ InTick(p) /\ tpc[p] = "ok"
    /\ \/ p = "poll" /\ PollSleeps /\ offset' = Advanced(p)
       \/ p = "drain" /\ Exit("drained")
    /\ UNCHANGED <<fileVars, running, stored, atTerm, budget>>

\* Any other status.
Rejected(p) ==
    /\ InTick(p) /\ tpc[p] = "rejected"
    /\ TickFails(p)
    /\ UNCHANGED <<fileVars, running, stored, atTerm, budget>>

\* The sink is away, the answer is lost or POST_TIMEOUT_MS has passed: the
\* lines may have been stored or not.
PushFails(p) ==
    /\ InTick(p) /\ tpc[p] \in {"sent", "ok"} /\ budget.push > 0
    /\ budget' = [budget EXCEPT !.push = @ - 1]
    /\ TickFails(p)
    /\ UNCHANGED <<fileVars, running, stored, atTerm>>

-----------------------------------------------------------------------------
(* The process.                                                             *)

\* SIGTERM: the poll loop will stop after its tick; the first drain starts now.
Sigterm ==
    /\ life = "up" /\ running = TRUE
    /\ running' = FALSE
    /\ attempts' = 1
    /\ atTerm' = UNION {Complete(f) : f \in Files}
    /\ tpc' = [tpc EXCEPT !["drain"] = "next",
                          !["poll"] = IF @ = "sleep" THEN "off" ELSE @]
    /\ todo' = [todo EXCEPT !["drain"] = Files]
    /\ UNCHANGED <<fileVars, offset, life, cur, len, pos, got, streams, pending, stored, budget>>

Crash ==
    /\ life = "up" /\ running /\ budget.crash > 0
    /\ budget' = [budget EXCEPT !.crash = @ - 1]
    /\ Exit("crashed")
    /\ UNCHANGED <<fileVars, running, stored, atTerm>>

\* The container starts again on the same volume, with an empty files map.
Restart ==
    /\ life = "crashed"
    /\ life' = "up"
    /\ tpc' = [tpc EXCEPT !["poll"] = "sleep"]
    /\ UNCHANGED <<fileVars, offset, running, todo, cur, len, pos, got, streams,
                   pending, stored, attempts, atTerm, budget>>

TickStep(p) ==
    \/ \E f \in Files : Stat(p, f)
    \/ Open(p) \/ Read(p) \/ Collect(p) \/ ReadFails(p)
    \/ NothingNew(p) \/ NotDue(p) \/ Push(p) \/ SinkAnswers(p)
    \/ Commit(p) \/ Rejected(p) \/ PushFails(p)

Next ==
    \/ \E f \in Files : Write(f) \/ Truncate(f)
    \/ PollTick
    \/ \E p \in Ticks : TickStep(p)
    \/ Sigterm \/ Crash \/ Restart

Spec == Init /\ [][Next]_vars

\* The event loop runs what is ready, file operations and the sink answer, the
\* container is started again; and FLUSH_MS passes in the end, so a tick that
\* keeps finding lines does not stay "not due" for ever.
Fairness ==
    /\ WF_vars(PollTick) /\ WF_vars(Restart)
    /\ \A p \in Ticks :
        /\ WF_vars((\E f \in Files : Stat(p, f)) \/ Open(p) \/ Read(p) \/ Collect(p))
        /\ WF_vars(NothingNew(p) \/ SinkAnswers(p) \/ Commit(p) \/ Rejected(p))
        /\ SF_vars(Push(p))

FairSpec == Spec /\ Fairness

-----------------------------------------------------------------------------
(* Properties.                                                              *)

\* An offset covers only lines the sink has taken: for every line below the
\* committed offset of a file, the sink holds that line of the file as it is or
\* as it was before a truncation.  ("advances the per-file offset ONLY after a
\* 2xx response", with two ticks and a reset writing the same offset.)
CommittedIsStored ==
    \A f \in Files : \A k \in 1 .. offset[f] \div 2 :
        \E g \in 0 .. gen[f] : <<f, g, k>> \in stored

\* A drain that ends as done has shipped every line that was complete when
\* SIGTERM came, whatever the poll loop's own tick was in the middle of, for the
\* files nobody truncated.  A read that fails makes a tick skip the file, and the
\* drain takes the others for everything: no promise after one.
DrainShipsAll ==
    life = "drained" /\ budget.read = MaxReadErrors =>
        \A l \in atTerm : gen[l[1]] = 0 => l \in stored

\* One tick would push more than the sink accepts in a body: it is refused each
\* time, and the shipper sends the same batch again.
Oversized ==
    Cardinality({l \in UNION {Complete(f) : f \in Files} : 2 * l[3] > offset[l[1]]}) > MaxBody

\* Every complete line reaches the sink, unless its file is truncated first, the
\* pod ends, or the backlog outgrows a body: "at-least-once delivery ... nothing
\* is dropped", through failed reads and pushes, and crashes.
EventuallyShipped ==
    \A l \in {l \in Lines : l[2] = 0} :
        l \in Complete(l[1]) ~> (l \in stored \/ gen[l[1]] > 0 \/ ~running \/ Oversized)
=============================================================================
