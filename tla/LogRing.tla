------------------------------- MODULE LogRing -------------------------------
(***************************************************************************)
(* The log-sink's store (log-sink/main.go): an overwrite-oldest ring that   *)
(* concurrent push handlers add to, one record per lock, and that a query   *)
(* reads under the read lock.  A record is <<r, k>>, the k-th value in the  *)
(* body of push request r.  A value is one that holds a line: the loop of     *)
(* handlePush passes over an empty one without touching the ring.           *)
(***************************************************************************)
EXTENDS Naturals, Sequences

CONSTANTS
    Requests,   \* push requests
    MaxValues,  \* bound: values in one body
    Cap,        \* ringCap, or RING_CAP: main refuses one that is not positive
    NoRecord    \* the zero record of make([]record, capacity)

ASSUME CapAssumption == Cap \in Nat \ {0}
ASSUME MaxValuesAssumption == MaxValues \in Nat
ASSUME NoRecordAssumption == NoRecord \notin Requests \X (1 .. MaxValues)

VARIABLES
    buf, next, full,    \* the ring
    body,               \* the number of values in each request's body
    at,                 \* the value each handler adds next, 0 before it runs
    history             \* every record added, in the order of the lock

vars == <<buf, next, full, body, at, history>>

Records == Requests \X (1 .. MaxValues)
Slots   == 0 .. Cap - 1

\* One type invariant: the ring and its handlers.
TypeOK ==
    /\ buf \in [Slots -> Records \cup {NoRecord}]
    /\ next \in Slots
    /\ full \in BOOLEAN
    /\ body \in [Requests -> 0 .. MaxValues]
    /\ at \in [Requests -> 0 .. MaxValues + 1]
    /\ \A r \in Requests : at[r] <= body[r] + 1
    /\ history \in Seq(Records)

Init ==
    /\ buf = [i \in Slots |-> NoRecord]
    /\ next = 0
    /\ full = FALSE
    /\ body = [r \in Requests |-> 0]
    /\ at = [r \in Requests |-> 0]
    /\ history = <<>>

\* Mutant: next runs over the end of the buffer.
StepUnwrapped(n) == n + 1

\* r.next = (r.next + 1) % r.cap
Step(n) == (n + 1) % Cap

\* Mutant: full is set when the last slot is about to be used.
WrappedEarly(n) == n + 1 = Cap

\* if r.next == 0 { r.full = true }, with the new value of next.
Wrapped(n) == n = 0

\* ring.add, under the lock.
Add(rec) ==
    /\ buf' = [buf EXCEPT ![next] = rec]
    /\ next' = Step(next)
    /\ full' = (full \/ Wrapped(Step(next)))
    /\ history' = Append(history, rec)

\* handlePush decodes a body within maxBodySize and starts on its values.
Arrive(r) ==
    /\ at[r] = 0
    /\ \E n \in 0 .. MaxValues : body' = [body EXCEPT ![r] = n]
    /\ at' = [at EXCEPT ![r] = 1]
    /\ UNCHANGED <<buf, next, full, history>>

\* Mutant: the last value of a body is left out.
StoreSkipsLast(r) ==
    /\ at[r] > 0 /\ at[r] <= body[r]
    /\ IF at[r] = body[r] /\ at[r] > 1
         THEN UNCHANGED <<buf, next, full, history>>
         ELSE Add(<<r, at[r]>>)
    /\ at' = [at EXCEPT ![r] = @ + 1]
    /\ UNCHANGED body

\* One turn of handlePush's loop.
Store(r) ==
    /\ at[r] > 0 /\ at[r] <= body[r]
    /\ Add(<<r, at[r]>>)
    /\ at' = [at EXCEPT ![r] = @ + 1]
    /\ UNCHANGED body

\* 204 is written when the loop is through.
Acknowledged(r) == at[r] = body[r] + 1

Next == \E r \in Requests : Arrive(r) \/ Store(r)

Spec == Init /\ [][Next]_vars

-----------------------------------------------------------------------------
\* ring.snapshot: the slots from next on, then those before it, once the ring
\* has wrapped; the slots before next until then.
Snapshot ==
    IF full
      THEN [i \in 1 .. Cap |-> IF i <= Cap - next THEN buf[next + i - 1]
                                                  ELSE buf[i - 1 - (Cap - next)]]
      ELSE [i \in 1 .. next |-> buf[i - 1]]

\* handleQuery's loop over a snapshot, newest first: what it has collected after
\* i records.  What it matches is the request the records came with.
Matches(all, r) ==
    LET matches[i \in 0 .. Len(all)] ==
            IF i = 0 THEN <<>>
            ELSE IF all[Len(all) + 1 - i][1] = r
                   THEN Append(matches[i - 1], all[Len(all) + 1 - i])
                   ELSE matches[i - 1]
    IN  matches

Query(r) == Matches(Snapshot, r)[Len(Snapshot)]

\* The last n records of h.
LastOf(h, n) == [i \in 1 .. n |-> h[Len(h) - n + i]]

\* Until Cap records were added everything is there, then the last Cap, in the
\* order they were added: no wrap-around, whatever the handlers' interleaving,
\* shows a stale record, drops a recent one or swaps two.
SnapshotIsRecent ==
    Snapshot = LastOf(history, IF Len(history) < Cap THEN Len(history) ELSE Cap)

\* A line whose push was acknowledged is found by a query for it until Cap other
\* records have been added after it; the lines of one push come newest first.
AcknowledgedIsFound ==
    \A r \in Requests : Acknowledged(r) =>
        LET found == Query(r)
            held  == {k \in 1 .. body[r] :
                        \E i \in 1 .. Len(history) :
                            history[i] = <<r, k>> /\ i > Len(history) - Cap}
            gone  == {k \in 1 .. body[r] :
                        \E i \in 1 .. Len(history) :
                            history[i] = <<r, k>> /\ i <= Len(history) - Cap}
        IN  /\ held \cup gone = 1 .. body[r]
            /\ found = [j \in 1 .. Len(found) |-> <<r, body[r] + 1 - j>>]
            /\ held = {found[j][2] : j \in 1 .. Len(found)}

-----------------------------------------------------------------------------
\* The inductive form of SnapshotIsRecent: before next lie the last next records,
\* from next on the ones a lap earlier, when there was one.
RingInv ==
    /\ Len(history) >= next
    /\ full => Len(history) >= Cap
    /\ ~full => Len(history) = next
    /\ \A j \in Slots : j < next => buf[j] = history[Len(history) - next + 1 + j]
    /\ full => \A j \in Slots :
                  j >= next => buf[j] = history[Len(history) - next + 1 + j - Cap]
=============================================================================
