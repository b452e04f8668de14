--------------------------- MODULE CacheAmbassador ---------------------------
(***************************************************************************)
(* The Ambassador pattern: order-api speaks to one Redis on localhost, the  *)
(* cache-ambassador relays each command to the shard its key hashes to.     *)
(* One goroutine serves each client connection (handleConn); the goroutines *)
(* share a pool of backend connections per shard (pool.do).  A connection   *)
(* has no request ids: whatever is read from it next is taken for the reply *)
(* to the command just written.                                             *)
(*                                                                          *)
(* Abstractions.  A client's stream is a sequence of items: a key stands    *)
(* for a keyed command on it (GET, SET, SETEX, DEL), "local" for a command  *)
(* the ambassador answers itself (PING, HELLO, CLIENT, an unknown command,  *)
(* a keyed one without a key), "quit", "blank" for an empty command and     *)
(* "garbled" for a protocol error.  An item arrives as a whole, and the     *)
(* replies to a batch fit into bw.  A reply is the command it answers.      *)
(* There is no clock: opTimeout, dialTimeout and drainTimeout may run out   *)
(* at any time.  The idle channel is a set: which of its connections is     *)
(* handed out makes no difference.                                          *)
(***************************************************************************)
EXTENDS Naturals, Sequences, FiniteSets

CONSTANTS
    Clients,        \* client connections
    Keys,           \* cache keys
    Shards,         \* SHARDS
    ShardOf,        \* crc32 of the key modulo the number of shards
    Conns,          \* identities of backend connections (a bound)
    MaxIdle,        \* maxIdle of a pool
    MaxItems,       \* bound: items each client sends
    Sends,          \* which items each client may send, "eof" to close its end
    NoConn

Items == Keys \cup {"local", "quit", "blank", "garbled"}

\* loadConfig refuses an empty SHARDS; an item that is no keyed command has no
\* key; Conns is a bound on the connections there are at one time.
ASSUME ShardOfAssumption == ShardOf \in [Keys -> Shards] /\ Shards # {}
ASSUME KeysAssumption == Keys \cap {"local", "quit", "blank", "garbled"} = {}
ASSUME ConnsAssumption == IsFiniteSet(Conns)
ASSUME BoundsAssumption == MaxIdle \in Nat /\ MaxItems \in [Clients -> Nat]
ASSUME SendsAssumption == Sends \in [Clients -> SUBSET (Items \cup {"eof"})]
ASSUME NoConnAssumption == NoConn \notin Conns

Cmds == UNION {{c} \X (1 .. MaxItems[c]) : c \in Clients}

\* What may stand in the place of a relayed reply.
NoAnswer == <<>>
Local == <<"local">>
Unavailable == <<"-ERR ambassador: upstream shard unavailable">>

VARIABLES
    phase,      \* of the process: "up", "draining" or "stopped"
    sent,       \* what each client has written to its socket
    gone,       \* the clients that have closed their end
    filled,     \* how many of the items br has taken from the socket
    read,       \* how many of them readCommand has returned
    hpc,        \* where the client's handler stands
    held,       \* the backend connection it holds
    answer,     \* what was written to bw for each command
    flushed,    \* the client has the answers up to this item
    idle,       \* the idle channel of each shard's pool
    link,       \* backend connections: "free", "open", "gone" (the shard
                \* closed it) or "closed" (given up, its bytes on the way)
    addr,       \* the shard a connection was dialled to
    req,        \* commands written on it and not yet run
    rep,        \* replies sent back on it and not yet read
    runs        \* history: how often each command was run

clientVars  == <<sent, gone>>
backendVars == <<idle, link, addr, req, rep>>
vars == <<phase, sent, gone, filled, read, hpc, held, answer, flushed, idle,
          link, addr, req, rep, runs>>

Waiting == {"reused", "fresh"}
HPCs == {"none", "read", "dial", "closed", "cut"} \cup Waiting

\* One type invariant: clients, handlers, pools and backend connections.
TypeOK ==
    /\ phase \in {"up", "draining", "stopped"}
    /\ sent \in [Clients -> Seq(Items)]
    /\ gone \subseteq Clients
    /\ filled \in [Clients -> Nat] /\ read \in [Clients -> Nat] /\ flushed \in [Clients -> Nat]
    /\ \A c \in Clients : /\ flushed[c] <= read[c] /\ read[c] <= filled[c]
                          /\ filled[c] <= Len(sent[c]) /\ Len(sent[c]) <= MaxItems[c]
    /\ hpc \in [Clients -> HPCs]
    /\ held \in [Clients -> Conns \cup {NoConn}]
    /\ \A c \in Clients : held[c] = NoConn <=> hpc[c] \notin Waiting
    /\ answer \in [Cmds -> Cmds \cup {NoAnswer, Local, Unavailable}]
    /\ idle \in [Shards -> SUBSET Conns]
    /\ link \in [Conns -> {"free", "open", "gone", "closed"}]
    /\ addr \in [Conns -> Shards]
    /\ req \in [Conns -> Seq(Cmds)] /\ rep \in [Conns -> Seq(Cmds)]
    /\ runs \in [Cmds -> Nat]

Init ==
    /\ phase = "up"
    /\ sent = [c \in Clients |-> <<>>] /\ gone = {}
    /\ filled = [c \in Clients |-> 0] /\ read = [c \in Clients |-> 0]
    /\ hpc = [c \in Clients |-> "none"]
    /\ held = [c \in Clients |-> NoConn]
    /\ answer = [m \in Cmds |-> NoAnswer]
    /\ flushed = [c \in Clients |-> 0]
    /\ idle = [s \in Shards |-> {}]
    /\ link = [k \in Conns |-> "free"]
    /\ addr = [k \in Conns |-> CHOOSE s \in Shards : TRUE]
    /\ req = [k \in Conns |-> <<>>] /\ rep = [k \in Conns |-> <<>>]
    /\ runs = [m \in Cmds |-> 0]

-----------------------------------------------------------------------------
(* The client's side of its connection.                                     *)

\* serve accepts the connection and starts its handler.
Connect(c) ==
    /\ phase = "up" /\ hpc[c] = "none"
    /\ hpc' = [hpc EXCEPT ![c] = "read"]
    /\ UNCHANGED <<phase, clientVars, filled, read, held, answer, flushed,
                   backendVars, runs>>

\* The client writes one more item, whether or not the last is answered.
Send(c) ==
    /\ hpc[c] \notin {"none", "closed", "cut"}
    /\ c \notin gone /\ Len(sent[c]) < MaxItems[c]
    /\ \E i \in Sends[c] \cap Items : sent' = [sent EXCEPT ![c] = Append(@, i)]
    /\ UNCHANGED <<phase, gone, filled, read, hpc, held, answer, flushed,
                   backendVars, runs>>

ClientCloses(c) ==
    /\ hpc[c] \notin {"none", "closed", "cut"}
    /\ c \notin gone /\ "eof" \in Sends[c]
    /\ gone' = gone \cup {c}
    /\ UNCHANGED <<phase, sent, filled, read, hpc, held, answer, flushed,
                   backendVars, runs>>

-----------------------------------------------------------------------------
(* handleConn: readCommand, dispatch, write, and flush when nothing is left *)
(* in the buffer.                                                           *)

\* readCommand returns item m = NextItem(c).  br reads the socket only when it is
\* empty, and then takes some of what has arrived.
NextItem(c) == <<c, read[c] + 1>>
Item(m) == sent[m[1]][m[2]]
ReadCommand(c) ==
    /\ hpc[c] = "read"
    /\ read' = [read EXCEPT ![c] = @ + 1]
    /\ \/ read[c] < filled[c] /\ UNCHANGED filled
       \/ read[c] = filled[c]
          /\ \E n \in read[c] + 1 .. Len(sent[c]) : filled' = [filled EXCEPT ![c] = n]

\* readCommand fails: EOF, or a protocol error.
ReadFails(c) ==
    /\ \/ ReadCommand(c) /\ Item(NextItem(c)) = "garbled"
       \/ /\ hpc[c] = "read" /\ read[c] = Len(sent[c]) /\ c \in gone
          /\ UNCHANGED <<filled, read>>
    /\ hpc' = [hpc EXCEPT ![c] = "closed"]
    /\ UNCHANGED <<phase, clientVars, held, answer, flushed, backendVars, runs>>

\* An empty command is passed over, and nothing is flushed.
SkipBlank(c) ==
    /\ ReadCommand(c) /\ Item(NextItem(c)) = "blank"
    /\ UNCHANGED <<phase, clientVars, hpc, held, answer, flushed, backendVars, runs>>

\* Mutant: flush at the first reply of a batch instead of the last.
RespondFlushesFirst(m, reply, quit) ==
    LET c == m[1] IN
    /\ answer' = [answer EXCEPT ![m] = reply]
    /\ IF quit \/ flushed[c] + 1 = m[2]
       THEN /\ hpc' = [hpc EXCEPT ![c] = IF quit THEN "closed" ELSE "read"]
            /\ flushed' = [flushed EXCEPT ![c] = m[2]]
       ELSE /\ hpc' = [hpc EXCEPT ![c] = "read"]
            /\ UNCHANGED flushed

\* bw.Write(reply), and bw.Flush when the batch is answered or on QUIT.  A
\* flush towards a client that has gone may fail, which ends the handler.
Respond(m, reply, quit) ==
    LET c == m[1] IN
    /\ answer' = [answer EXCEPT ![m] = reply]
    /\ IF quit \/ m[2] = filled'[c]
       THEN \/ /\ hpc' = [hpc EXCEPT ![c] = IF quit THEN "closed" ELSE "read"]
               /\ flushed' = [flushed EXCEPT ![c] = m[2]]
            \/ /\ c \in gone
               /\ hpc' = [hpc EXCEPT ![c] = "closed"]
               /\ UNCHANGED flushed
       ELSE /\ hpc' = [hpc EXCEPT ![c] = "read"]
            /\ UNCHANGED flushed

\* dispatch answers the command itself.
AnswerLocally(c) ==
    /\ ReadCommand(c) /\ Item(NextItem(c)) \in {"local", "quit"}
    /\ Respond(NextItem(c), Local, Item(NextItem(c)) = "quit")
    /\ UNCHANGED <<phase, clientVars, held, backendVars, runs>>

-----------------------------------------------------------------------------
(* forward and pool.do.                                                     *)

\* The command a handler is forwarding, and the pool shardFor picks for it.
Current(c) == <<c, read[c]>>
PoolOf(m) == ShardOf[Item(m)]

\* A keyed command: borrow an idle connection of its shard and write on it, or
\* dial.  What is written on a connection the shard has closed goes nowhere.
Forward(c) ==
    LET m == NextItem(c) IN
    /\ ReadCommand(c) /\ Item(m) \in Keys
    /\ \/ \E k \in idle[PoolOf(m)] :
            /\ idle' = [idle EXCEPT ![PoolOf(m)] = @ \ {k}]
            /\ held' = [held EXCEPT ![c] = k]
            /\ hpc' = [hpc EXCEPT ![c] = "reused"]
            /\ req' = IF link[k] = "open" THEN [req EXCEPT ![k] = Append(@, m)] ELSE req
       \/ /\ idle[PoolOf(m)] = {}
          /\ hpc' = [hpc EXCEPT ![c] = "dial"]
          /\ UNCHANGED <<idle, held, req>>
    /\ UNCHANGED <<phase, clientVars, answer, flushed, link, addr, rep, runs>>

\* close: what was written and not yet run is still on its way to the shard.
Close(k) ==
    /\ link' = [link EXCEPT ![k] = IF req[k] = <<>> THEN "free" ELSE "closed"]
    /\ rep' = [rep EXCEPT ![k] = <<>>]

\* put: back to the pool, or closed when the pool is full.
Put(k, s) ==
    \/ /\ Cardinality(idle[s]) < MaxIdle
       /\ idle' = [idle EXCEPT ![s] = @ \cup {k}]
       /\ rep' = [rep EXCEPT ![k] = Tail(@)]
       /\ UNCHANGED link
    \/ /\ Cardinality(idle[s]) >= MaxIdle
       /\ Close(k)
       /\ UNCHANGED idle

\* readReply: exactly one reply, the next one on the connection.
Reply(k) == Head(rep[k])

\* Mutant: the handler keeps the connection it has put back.
ReadReplyKeepsHold(c) ==
    LET k == held[c] IN
    /\ hpc[c] \in Waiting /\ rep[k] # <<>>
    /\ Put(k, PoolOf(Current(c)))
    /\ UNCHANGED <<filled, read>>
    /\ Respond(Current(c), Reply(k), FALSE)
    /\ UNCHANGED <<phase, clientVars, held, addr, req, runs>>

\* roundtrip succeeds: the next reply on the connection is the answer.
ReadReply(c) ==
    LET k == held[c] IN
    /\ hpc[c] \in Waiting /\ rep[k] # <<>>
    /\ Put(k, PoolOf(Current(c)))
    /\ held' = [held EXCEPT ![c] = NoConn]
    /\ UNCHANGED <<filled, read>>
    /\ Respond(Current(c), Reply(k), FALSE)
    /\ UNCHANGED <<phase, clientVars, addr, req, runs>>

\* Mutant: a pooled connection goes back to its pool after an error.
ReuseFailsKeepsConn(c) ==
    /\ hpc[c] = "reused"
    /\ idle' = [idle EXCEPT ![PoolOf(Current(c))] = @ \cup {held[c]}]
    /\ held' = [held EXCEPT ![c] = NoConn]
    /\ hpc' = [hpc EXCEPT ![c] = "dial"]
    /\ UNCHANGED <<phase, clientVars, filled, read, answer, flushed, link, addr,
                   req, rep, runs>>

\* roundtrip fails on a pooled connection (closed by the shard, opTimeout, a
\* broken reply): it is closed, and the command goes to a fresh one.
ReuseFails(c) ==
    /\ hpc[c] = "reused"
    /\ Close(held[c])
    /\ held' = [held EXCEPT ![c] = NoConn]
    /\ hpc' = [hpc EXCEPT ![c] = "dial"]
    /\ UNCHANGED <<phase, clientVars, filled, read, answer, flushed, idle, addr,
                   req, runs>>

\* fresh, and the command written on the new connection.  Any free identity
\* will do; with none left the dial can only fail.
Dial(c) ==
    /\ hpc[c] = "dial"
    /\ \E k \in Conns : link[k] = "free"
    /\ LET k == CHOOSE k \in Conns : link[k] = "free" IN
        /\ link' = [link EXCEPT ![k] = "open"]
        /\ addr' = [addr EXCEPT ![k] = PoolOf(Current(c))]
        /\ req' = [req EXCEPT ![k] = <<Current(c)>>]
        /\ held' = [held EXCEPT ![c] = k]
    /\ hpc' = [hpc EXCEPT ![c] = "fresh"]
    /\ UNCHANGED <<phase, clientVars, filled, read, answer, flushed, idle, rep, runs>>

\* The dial fails: forward makes an error of it.
DialFails(c) ==
    /\ hpc[c] = "dial"
    /\ UNCHANGED <<filled, read>>
    /\ Respond(Current(c), Unavailable, FALSE)
    /\ UNCHANGED <<phase, clientVars, held, backendVars, runs>>

\* Mutant: no deadline, only the shard's end of the connection wakes it up.
FreshFailsOnEOF(c) ==
    /\ hpc[c] = "fresh" /\ link[held[c]] = "gone"
    /\ Close(held[c])
    /\ held' = [held EXCEPT ![c] = NoConn]
    /\ UNCHANGED <<filled, read>>
    /\ Respond(Current(c), Unavailable, FALSE)
    /\ UNCHANGED <<phase, clientVars, idle, addr, req, runs>>

\* Mutant: a fresh connection gets the retry as well.
FreshFailsRetries(c) ==
    /\ hpc[c] = "fresh"
    /\ Close(held[c])
    /\ held' = [held EXCEPT ![c] = NoConn]
    /\ hpc' = [hpc EXCEPT ![c] = "dial"]
    /\ UNCHANGED <<phase, clientVars, filled, read, answer, flushed, idle, addr,
                   req, runs>>

\* roundtrip fails on a fresh connection: closed, and the error is surfaced.
FreshFails(c) ==
    /\ hpc[c] = "fresh"
    /\ Close(held[c])
    /\ held' = [held EXCEPT ![c] = NoConn]
    /\ UNCHANGED <<filled, read>>
    /\ Respond(Current(c), Unavailable, FALSE)
    /\ UNCHANGED <<phase, clientVars, idle, addr, req, runs>>

-----------------------------------------------------------------------------
(* The shards.                                                              *)

\* External: Redis runs the next command of a connection and replies, also
\* when nobody is going to read the reply.
Run(k) ==
    /\ link[k] \in {"open", "closed"} /\ req[k] # <<>>
    /\ runs' = [runs EXCEPT ![Head(req[k])] = @ + 1]
    /\ req' = [req EXCEPT ![k] = Tail(@)]
    /\ IF link[k] = "open"
       THEN rep' = [rep EXCEPT ![k] = Append(@, Head(req[k]))] /\ UNCHANGED link
       ELSE link' = [link EXCEPT ![k] = IF Len(req[k]) = 1 THEN "free" ELSE @]
            /\ UNCHANGED rep
    /\ UNCHANGED <<phase, clientVars, filled, read, hpc, held, answer, flushed,
                   idle, addr>>

\* External: the shard drops the connection (idle timeout, restart, reset);
\* replies already sent may still be readable.
ShardCloses(k) ==
    /\ link[k] = "open"
    /\ link' = [link EXCEPT ![k] = "gone"]
    /\ req' = [req EXCEPT ![k] = <<>>]
    /\ \/ UNCHANGED rep
       \/ rep' = [rep EXCEPT ![k] = <<>>]
    /\ UNCHANGED <<phase, clientVars, filled, read, hpc, held, answer, flushed,
                   idle, addr, runs>>

\* External: bytes written before a close never arrive.
BytesLost(k) ==
    /\ link[k] = "closed"
    /\ link' = [link EXCEPT ![k] = "free"]
    /\ req' = [req EXCEPT ![k] = <<>>]
    /\ UNCHANGED <<phase, clientVars, filled, read, hpc, held, answer, flushed,
                   idle, addr, rep, runs>>

-----------------------------------------------------------------------------
(* serve: shutdown.                                                         *)

\* SIGTERM closes the listener; the open connections are still served.
Sigterm ==
    /\ phase = "up"
    /\ phase' = "draining"
    /\ UNCHANGED <<clientVars, filled, read, hpc, held, answer, flushed,
                   backendVars, runs>>

\* wg.Wait returns or drainTimeout runs out; closeAll empties the pools, and
\* the process exits with whatever handlers are left.
Stop ==
    /\ phase = "draining"
    /\ phase' = "stopped"
    /\ hpc' = [c \in Clients |-> IF hpc[c] \in {"none", "closed"} THEN hpc[c] ELSE "cut"]
    /\ held' = [c \in Clients |-> NoConn]
    /\ idle' = [s \in Shards |-> {}]
    /\ link' = [k \in Conns |-> IF req[k] = <<>> THEN "free" ELSE "closed"]
    /\ rep' = [k \in Conns |-> <<>>]
    /\ UNCHANGED <<clientVars, filled, read, answer, flushed, addr, req, runs>>

-----------------------------------------------------------------------------
HandlerStep(c) ==
    \/ ReadFails(c) \/ SkipBlank(c) \/ AnswerLocally(c) \/ Forward(c)
    \/ ReadReply(c) \/ ReuseFails(c) \/ Dial(c) \/ DialFails(c) \/ FreshFails(c)

Next ==
    \/ \E c \in Clients : Connect(c) \/ Send(c) \/ ClientCloses(c) \/ HandlerStep(c)
    \/ \E k \in Conns : Run(k) \/ ShardCloses(k) \/ BytesLost(k)
    \/ Sigterm \/ Stop

Spec == Init /\ [][Next]_vars

\* A handler is a goroutine, and every call it makes ends: opTimeout bounds a
\* roundtrip, dialTimeout a dial, and a client that waits for replies reads them.
\* Nothing else is assumed of clients, and nothing of shards.
FairSpec == Spec /\ \A c \in Clients : WF_vars(HandlerStep(c))

-----------------------------------------------------------------------------
(* Properties *)

\* The command as its client sees it: a reply to some other command is no
\* answer.
CommandStatus(m) ==
    IF m[2] > read[m[1]] \/ Item(m) \notin Keys THEN "new"
    ELSE CASE answer[m] = NoAnswer    -> "pending"
           [] answer[m] = Unavailable -> "failed"
           [] answer[m] = m           -> "answered"
           [] OTHER                   -> "crossed"

Service == INSTANCE CacheService
           WITH status <- [m \in Cmds |-> CommandStatus(m)]

\* Behind the pool, its retry and the shards the clients find the one cache of
\* CacheService: each command is answered with its own reply or an error, never
\* with another client's, a reply means that it has run, and it runs at most
\* twice ("it is safe to share the pool across concurrent client goroutines").
ImplementsCache == Service!Spec

\* A connection is held by one handler, lies in one pool, or is given up; one
\* that lies in a pool is the pool's shard's, with no command and no reply left
\* on it, and a pool holds no more than maxIdle ("a connection is held for the
\* whole roundtrip").
PoolIsClean ==
    /\ \A s \in Shards : /\ Cardinality(idle[s]) <= MaxIdle
                         /\ \A k \in idle[s] : /\ addr[k] = s
                                               /\ link[k] \in {"open", "gone"}
                                               /\ req[k] = <<>> /\ rep[k] = <<>>
    /\ \A c, d \in Clients : c # d /\ held[c] = held[d] => held[c] = NoConn
    /\ \A c \in Clients, s \in Shards : held[c] \notin idle[s]

\* A client that waits is not kept waiting by the flush of a batch: a handler
\* that has read all there is has flushed all its replies, unless the batch ended
\* in a blank ("Only flush once the client's pipelined batch is drained").
NothingWithheld ==
    \A c \in Clients :
        hpc[c] = "read" /\ read[c] = filled[c] /\ read[c] > 0
            => flushed[c] = read[c] \/ Item(<<c, read[c]>>) = "blank"

\* Every command read is answered, with shards that hang, refuse or close and
\* whatever the other clients do, unless its own connection or the process ends.
Answered ==
    \A c \in Clients :
        flushed[c] < read[c] ~>
            \/ flushed[c] = read[c]
            \/ hpc[c] \in {"closed", "cut"}
            \/ Item(<<c, read[c]>>) = "blank"
=============================================================================
