------------------------ MODULE CacheAmbassadorProofs ------------------------
(* Proofs about CacheAmbassador, for any clients, keys, shards, placement of  *)
(* the keys, pool size and bounds: the pools never mix up two commands, and   *)
(* the ambassador implements CacheService.                                    *)
EXTENDS CacheAmbassador, FiniteSetTheorems, TLAPS

USE ShardOfAssumption, KeysAssumption, ConnsAssumption, BoundsAssumption,
    SendsAssumption, NoConnAssumption

-----------------------------------------------------------------------------
(* The inductive invariant.                                                 *)

\* A handler that has not started has read nothing.
NotStarted == \A c \in Clients : hpc[c] = "none" => read[c] = 0

\* A keyed command that some handler has begun to forward.
Forwarded(m) == m[2] <= read[m[1]] /\ Item(m) \in Keys

\* The handlers that are forwarding do so with a keyed command, not yet answered.
Forwarding == {"dial"} \cup Waiting
CurrentIsKeyed ==
    \A c \in Clients : hpc[c] \in Forwarding =>
        /\ read[c] > 0 /\ Item(Current(c)) \in Keys
        /\ answer[Current(c)] = NoAnswer

\* A connection carries one command at most: it waits to be run, or its reply
\* waits to be read, and then it has run.
OneAtATime ==
    \A k \in Conns :
        /\ req[k] = <<>> \/ (\E m \in Cmds : Forwarded(m) /\ req[k] = <<m>>)
        /\ rep[k] = <<>> \/ (req[k] = <<>> /\ \E m \in Cmds : rep[k] = <<m>> /\ runs[m] > 0)

\* What is left on a connection nobody holds: nothing on a free one, and on one
\* given up no reply.
GivenUp ==
    \A k \in Conns : /\ link[k] = "free" => req[k] = <<>>
                     /\ link[k] \in {"free", "closed"} => rep[k] = <<>>
                     /\ link[k] = "gone" => req[k] = <<>>

\* The connection a handler holds is one to its command's shard, and carries no
\* other command and no other reply.
HeldIsOwn ==
    \A c \in Clients : hpc[c] \in Waiting =>
        /\ link[held[c]] \in {"open", "gone"}
        /\ addr[held[c]] = PoolOf(Current(c))
        /\ req[held[c]] \in {<<>>, <<Current(c)>>}
        /\ rep[held[c]] \in {<<>>, <<Current(c)>>}

\* A command is answered by nothing, by an error or by its own reply, the last
\* only once it has run; one that is no keyed command is answered locally.
AnswerIsOwn ==
    \A m \in Cmds :
        /\ m[2] > read[m[1]] => answer[m] = NoAnswer
        /\ Forwarded(m) => \/ answer[m] \in {NoAnswer, Unavailable}
                           \/ answer[m] = m /\ runs[m] > 0

\* How often a command may run: what has been written and is not yet run counts
\* with the runs there were.  It is written once on a pooled connection and once
\* more on a fresh one.
Pending(m) == {k \in Conns : req[k] = <<m>>}
Budget(m) ==
    IF ~ Forwarded(m) THEN 0
    ELSE IF m = Current(m[1]) /\ hpc[m[1]] \in {"reused", "dial"} THEN 1
    ELSE 2
RunsTwice == \A m \in Cmds : runs[m] + Cardinality(Pending(m)) <= Budget(m)

IInv ==
    /\ TypeOK /\ PoolIsClean /\ NothingWithheld
    /\ NotStarted /\ CurrentIsKeyed /\ OneAtATime /\ GivenUp /\ HeldIsOwn
    /\ AnswerIsOwn /\ RunsTwice

-----------------------------------------------------------------------------
(* Lemmas about the operators the actions share.                            *)

\* A command is a client and the position of the item in its stream.
LEMMA CmdParts ==
  /\ \A m \in Cmds : /\ m[1] \in Clients /\ m[2] \in 1 .. MaxItems[m[1]]
                      /\ m = <<m[1], m[2]>>
  /\ \A c \in Clients : \A i \in 1 .. MaxItems[c] : <<c, i>> \in Cmds
<1>1. ASSUME NEW m \in Cmds
      PROVE  m[1] \in Clients /\ m[2] \in 1 .. MaxItems[m[1]] /\ m = <<m[1], m[2]>>
  <2>1. PICK c \in Clients : m \in {c} \X (1 .. MaxItems[c])
    BY DEF Cmds
  <2> QED
    BY <2>1
<1>2. ASSUME NEW c \in Clients, NEW i \in 1 .. MaxItems[c]
      PROVE  <<c, i>> \in Cmds
  <2>1. <<c, i>> \in {c} \X (1 .. MaxItems[c])
    OBVIOUS
  <2> QED
    BY <2>1 DEF Cmds
<1> QED
  BY <1>1, <1>2

\* What a reply may be instead of a command's own is no command.
LEMMA NoCommand ==
  \A m \in Cmds : m # NoAnswer /\ m # Local /\ m # Unavailable
<1> SUFFICES ASSUME NEW m \in Cmds
             PROVE  m # NoAnswer /\ m # Local /\ m # Unavailable
  OBVIOUS
<1>1. m = <<m[1], m[2]>>
  BY CmdParts
<1>2. Len(m) = 2
  BY <1>1
<1>3. Len(NoAnswer) = 0 /\ Len(Local) = 1 /\ Len(Unavailable) = 1
  BY DEF NoAnswer, Local, Unavailable
<1> QED
  BY <1>2, <1>3, SMTT(30)

\* The three words for the place of a reply differ.
LEMMA NoAnswerDistinct ==
  NoAnswer # Local /\ NoAnswer # Unavailable /\ Local # Unavailable
BY DEF NoAnswer, Local, Unavailable

\* readCommand advances one handler by one item that has arrived.
LEMMA ReadCommandEffect ==
  ASSUME TypeOK, NEW c \in Clients, ReadCommand(c)
  PROVE  /\ hpc[c] = "read" /\ held[c] = NoConn
         /\ read' = [read EXCEPT ![c] = read[c] + 1]
         /\ \E n \in read[c] + 1 .. Len(sent[c]) : filled' = [filled EXCEPT ![c] = n]
         /\ read[c] + 1 \in 1 .. Len(sent[c])
         /\ NextItem(c) \in Cmds
<1> USE DEF TypeOK
<1>1. /\ hpc[c] = "read" /\ held[c] = NoConn
      /\ read' = [read EXCEPT ![c] = read[c] + 1]
  BY DEF ReadCommand, Waiting
<1>2. \E n \in read[c] + 1 .. Len(sent[c]) : filled' = [filled EXCEPT ![c] = n]
  <2>1. CASE read[c] < filled[c] /\ UNCHANGED filled
    <3>1. filled' = [filled EXCEPT ![c] = filled[c]] /\ filled[c] \in read[c] + 1 .. Len(sent[c])
      BY <2>1
    <3> QED
      BY <3>1
  <2>2. CASE \E n \in read[c] + 1 .. Len(sent[c]) : filled' = [filled EXCEPT ![c] = n]
    BY <2>2
  <2> QED
    BY <2>1, <2>2 DEF ReadCommand
<1>3. read[c] + 1 \in 1 .. Len(sent[c]) /\ read[c] + 1 \in 1 .. MaxItems[c]
  BY <1>2
<1>4. NextItem(c) \in Cmds
  BY <1>3, CmdParts DEF NextItem
<1> QED
  BY <1>1, <1>2, <1>3, <1>4

\* bw.Write and bw.Flush: the answer is kept, and a handler that goes on reading
\* has flushed when nothing was left in the buffer.
LEMMA RespondEffect ==
  ASSUME TypeOK, NEW c \in Clients, NEW n \in Nat, NEW reply, NEW quit,
         Respond(<<c, n>>, reply, quit)
  PROVE  /\ answer' = [answer EXCEPT ![<<c, n>>] = reply]
         /\ \E h \in {"read", "closed"} : hpc' = [hpc EXCEPT ![c] = h]
         /\ flushed' = flushed \/ flushed' = [flushed EXCEPT ![c] = n]
         /\ hpc'[c] = "read" /\ n = filled'[c] => flushed'[c] = n
BY DEF Respond, TypeOK

\* The same of the reply to the command that was forwarded.
LEMMA CurrentEffect ==
  ASSUME TypeOK, NEW c \in Clients, NEW reply, Respond(Current(c), reply, FALSE)
  PROVE  /\ answer' = [answer EXCEPT ![Current(c)] = reply]
         /\ \E h \in {"read", "closed"} : hpc' = [hpc EXCEPT ![c] = h]
         /\ flushed' = flushed \/ flushed' = [flushed EXCEPT ![c] = read[c]]
         /\ hpc'[c] = "read" /\ read[c] = filled'[c] => flushed'[c] = read[c]
BY DEF Respond, TypeOK, Current

\* The connections of the model are finitely many, and so is any part of them.
LEMMA FinitePools ==
  ASSUME NEW S \in SUBSET Conns
  PROVE  IsFiniteSet(S) /\ Cardinality(S) \in Nat
BY FS_Subset, FS_CardinalityType

-----------------------------------------------------------------------------
(* Types.                                                                   *)

\* A step of a handler that reads an item and leaves the connections alone, or
\* answers one, keeps the order of the four positions in a client's stream.
Positions ==
    /\ sent \in [Clients -> Seq(Items)]
    /\ filled \in [Clients -> Nat] /\ read \in [Clients -> Nat] /\ flushed \in [Clients -> Nat]
    /\ \A c \in Clients : /\ flushed[c] <= read[c] /\ read[c] <= filled[c]
                          /\ filled[c] <= Len(sent[c]) /\ Len(sent[c]) <= MaxItems[c]

\* Reading one item keeps the positions in order.
LEMMA ReadPositions ==
  ASSUME TypeOK, NEW c \in Clients, ReadCommand(c), UNCHANGED <<sent, flushed>>
  PROVE  Positions'
<1> USE DEF TypeOK
<1>1. PICK n \in read[c] + 1 .. Len(sent[c]) : filled' = [filled EXCEPT ![c] = n]
  BY ReadCommandEffect
<1>2. read' = [read EXCEPT ![c] = read[c] + 1]
  BY ReadCommandEffect
<1> QED
  BY <1>1, <1>2 DEF Positions

\* Reading an item and answering it does so too.
LEMMA AnswerPositions ==
  ASSUME TypeOK, NEW c \in Clients, ReadCommand(c), UNCHANGED sent,
         NEW quit, Respond(NextItem(c), Local, quit)
  PROVE  Positions'
<1> USE DEF TypeOK
<1>1. PICK n \in read[c] + 1 .. Len(sent[c]) : filled' = [filled EXCEPT ![c] = n]
  BY ReadCommandEffect
<1>2. read' = [read EXCEPT ![c] = read[c] + 1]
  BY ReadCommandEffect
<1>3. flushed' = flushed \/ flushed' = [flushed EXCEPT ![c] = read[c] + 1]
  BY RespondEffect DEF NextItem
<1>4. CASE flushed' = flushed
  BY <1>1, <1>2, <1>4 DEF Positions
<1>5. CASE flushed' = [flushed EXCEPT ![c] = read[c] + 1]
  BY <1>1, <1>2, <1>5 DEF Positions
<1> QED
  BY <1>3, <1>4, <1>5

\* Answering the command that was forwarded does so too.
LEMMA ReplyPositions ==
  ASSUME TypeOK, NEW c \in Clients, UNCHANGED <<sent, filled, read>>,
         NEW reply, Respond(Current(c), reply, FALSE)
  PROVE  Positions'
<1> USE DEF TypeOK
<1>1. flushed' = flushed \/ flushed' = [flushed EXCEPT ![c] = read[c]]
  BY RespondEffect DEF Current
<1>2. CASE flushed' = flushed
  BY <1>2 DEF Positions
<1>3. CASE flushed' = [flushed EXCEPT ![c] = read[c]]
  BY <1>3 DEF Positions
<1> QED
  BY <1>1, <1>2, <1>3

\* Every step preserves the types.
LEMMA TypeStep ==
  ASSUME TypeOK, CurrentIsKeyed, [Next]_vars
  PROVE  TypeOK'
<1> USE DEF TypeOK, HPCs, Waiting, clientVars, backendVars
<1>a. \A c \in Clients : hpc[c] \in Forwarding => Current(c) \in Cmds
  BY CmdParts DEF Current, CurrentIsKeyed, Forwarding
<1>1. ASSUME NEW c \in Clients, Connect(c) PROVE TypeOK'
  BY <1>1 DEF Connect
<1>2. ASSUME NEW c \in Clients, Send(c) PROVE TypeOK'
  <2>1. PICK i \in Sends[c] \cap Items : sent' = [sent EXCEPT ![c] = Append(sent[c], i)]
    BY <1>2 DEF Send
  <2>2. sent' \in [Clients -> Seq(Items)] /\ \A d \in Clients :
           Len(sent[d]) <= Len(sent'[d]) /\ Len(sent'[d]) <= MaxItems[d]
    BY <1>2, <2>1 DEF Send
  <2> QED
    BY <1>2, <2>2 DEF Send
<1>3. ASSUME NEW c \in Clients, ClientCloses(c) PROVE TypeOK'
  BY <1>3 DEF ClientCloses
<1>4. ASSUME NEW c \in Clients, ReadFails(c) PROVE TypeOK'
  <2>1. Positions'
    <3>1. CASE ReadCommand(c)
      BY <1>4, <3>1, ReadPositions DEF ReadFails
    <3>2. CASE UNCHANGED <<filled, read>>
      BY <1>4, <3>2 DEF ReadFails, Positions
    <3> QED
      BY <1>4, <3>1, <3>2 DEF ReadFails
  <2>2. hpc[c] = "read"
    BY <1>4 DEF ReadFails, ReadCommand
  <2> QED
    BY <1>4, <2>1, <2>2 DEF ReadFails, Positions
<1>5. ASSUME NEW c \in Clients, SkipBlank(c) PROVE TypeOK'
  <2>1. Positions'
    BY <1>5, ReadPositions DEF SkipBlank
  <2> QED
    BY <1>5, <2>1 DEF SkipBlank, Positions
<1>6. ASSUME NEW c \in Clients, AnswerLocally(c) PROVE TypeOK'
  <2>1. Positions'
    BY <1>6, AnswerPositions DEF AnswerLocally
  <2>2. hpc[c] = "read" /\ held[c] = NoConn /\ NextItem(c) \in Cmds
    BY <1>6, ReadCommandEffect DEF AnswerLocally
  <2>3. /\ answer' = [answer EXCEPT ![NextItem(c)] = Local]
        /\ \E h \in {"read", "closed"} : hpc' = [hpc EXCEPT ![c] = h]
    <3>1. Respond(<<c, read[c] + 1>>, Local, Item(NextItem(c)) = "quit") /\ read[c] + 1 \in Nat
      BY <1>6 DEF AnswerLocally, NextItem
    <3> QED
      BY <3>1, RespondEffect DEF NextItem
  <2>4. /\ answer' \in [Cmds -> Cmds \cup {NoAnswer, Local, Unavailable}]
        /\ hpc' \in [Clients -> HPCs]
        /\ \A d \in Clients : hpc'[d] \in Waiting <=> hpc[d] \in Waiting
    BY <2>2, <2>3
  <2> QED
    BY <1>6, <2>1, <2>4 DEF AnswerLocally, Positions
<1>7. ASSUME NEW c \in Clients, Forward(c) PROVE TypeOK'
  <2>1. Positions'
    BY <1>7, ReadPositions DEF Forward
  <2>2. hpc[c] = "read" /\ held[c] = NoConn /\ NextItem(c) \in Cmds
    BY <1>7, ReadCommandEffect DEF Forward
  <2>3. Item(NextItem(c)) \in Keys /\ PoolOf(NextItem(c)) \in Shards
    BY <1>7 DEF Forward, PoolOf
  <2>4. CASE \E k \in idle[PoolOf(NextItem(c))] :
            /\ idle' = [idle EXCEPT ![PoolOf(NextItem(c))] = @ \ {k}]
            /\ held' = [held EXCEPT ![c] = k]
            /\ hpc' = [hpc EXCEPT ![c] = "reused"]
            /\ req' = IF link[k] = "open" THEN [req EXCEPT ![k] = Append(@, NextItem(c))] ELSE req
    <3>1. PICK k \in idle[PoolOf(NextItem(c))] :
            /\ idle' = [idle EXCEPT ![PoolOf(NextItem(c))] = @ \ {k}]
            /\ held' = [held EXCEPT ![c] = k]
            /\ hpc' = [hpc EXCEPT ![c] = "reused"]
            /\ req' = IF link[k] = "open" THEN [req EXCEPT ![k] = Append(@, NextItem(c))] ELSE req
      BY <2>4
    <3>2. k \in Conns /\ k # NoConn
      BY <2>3
    <3>3. req' \in [Conns -> Seq(Cmds)]
      BY <2>2, <3>1, <3>2
    <3>4. idle' \in [Shards -> SUBSET Conns]
      BY <2>3, <3>1
    <3>5. hpc' \in [Clients -> HPCs] /\ held' \in [Clients -> Conns \cup {NoConn}]
      BY <3>1, <3>2
    <3>6. \A d \in Clients : held'[d] = NoConn <=> hpc'[d] \notin Waiting
      BY <2>2, <3>1, <3>2
    <3> QED
      BY <1>7, <2>1, <3>3, <3>4, <3>5, <3>6 DEF Forward, Positions
  <2>5. CASE hpc' = [hpc EXCEPT ![c] = "dial"] /\ UNCHANGED <<idle, held, req>>
    BY <1>7, <2>1, <2>2, <2>5 DEF Forward, Positions
  <2> QED
    BY <1>7, <2>4, <2>5 DEF Forward
<1>8. ASSUME NEW c \in Clients, ReadReply(c) PROVE TypeOK'
  <2>1. Positions'
    BY <1>8, ReplyPositions DEF ReadReply
  <2>2. Current(c) \in Cmds /\ held[c] \in Conns /\ rep[held[c]] # <<>>
    BY <1>8, <1>a DEF ReadReply, Forwarding
  <2>3. /\ answer' = [answer EXCEPT ![Current(c)] = Reply(held[c])]
        /\ \E h \in {"read", "closed"} : hpc' = [hpc EXCEPT ![c] = h]
    BY <1>8, CurrentEffect DEF ReadReply
  <2>4. answer' \in [Cmds -> Cmds \cup {NoAnswer, Local, Unavailable}]
    BY <2>2, <2>3 DEF Reply
  <2>5. PoolOf(Current(c)) \in Shards
    BY <1>8 DEF ReadReply, PoolOf, CurrentIsKeyed, Forwarding
  <2>6. /\ idle' \in [Shards -> SUBSET Conns]
        /\ link' \in [Conns -> {"free", "open", "gone", "closed"}]
        /\ rep' \in [Conns -> Seq(Cmds)]
    <3>1. Tail(rep[held[c]]) \in Seq(Cmds)
      BY <2>2
    <3>2. CASE /\ idle' = [idle EXCEPT ![PoolOf(Current(c))] = @ \cup {held[c]}]
               /\ rep' = [rep EXCEPT ![held[c]] = Tail(@)]
               /\ UNCHANGED link
      BY <2>2, <2>5, <3>1, <3>2
    <3>3. CASE Close(held[c]) /\ UNCHANGED idle
      BY <2>2, <3>3 DEF Close
    <3> QED
      BY <1>8, <3>2, <3>3 DEF ReadReply, Put
  <2> QED
    BY <1>8, <2>1, <2>2, <2>3, <2>4, <2>6, SMTT(30) DEF ReadReply, Positions
<1>9. ASSUME NEW c \in Clients, ReuseFails(c) PROVE TypeOK'
  BY <1>9 DEF ReuseFails, Close
<1>10. ASSUME NEW c \in Clients, Dial(c) PROVE TypeOK'
  <2> DEFINE k == CHOOSE j \in Conns : link[j] = "free"
  <2>1. k \in Conns /\ k # NoConn
    BY <1>10 DEF Dial
  <2>2. Current(c) \in Cmds /\ PoolOf(Current(c)) \in Shards
    BY <1>10, <1>a DEF Dial, PoolOf, CurrentIsKeyed, Forwarding
  <2>3. /\ link' = [link EXCEPT ![k] = "open"]
        /\ addr' = [addr EXCEPT ![k] = PoolOf(Current(c))]
        /\ req' = [req EXCEPT ![k] = <<Current(c)>>]
        /\ held' = [held EXCEPT ![c] = k]
        /\ hpc' = [hpc EXCEPT ![c] = "fresh"]
    BY <1>10 DEF Dial
  <2> HIDE DEF k
  <2> QED
    BY <1>10, <2>1, <2>2, <2>3 DEF Dial
<1>11. ASSUME NEW c \in Clients, DialFails(c) PROVE TypeOK'
  <2>1. Positions'
    BY <1>11, ReplyPositions DEF DialFails
  <2>2. Current(c) \in Cmds /\ held[c] = NoConn
    BY <1>11, <1>a DEF DialFails, Forwarding
  <2>3. /\ answer' = [answer EXCEPT ![Current(c)] = Unavailable]
        /\ \E h \in {"read", "closed"} : hpc' = [hpc EXCEPT ![c] = h]
    BY <1>11, CurrentEffect DEF DialFails
  <2> QED
    BY <1>11, <2>1, <2>2, <2>3 DEF DialFails, Positions
<1>12. ASSUME NEW c \in Clients, FreshFails(c) PROVE TypeOK'
  <2>1. Positions'
    BY <1>12, ReplyPositions DEF FreshFails
  <2>2. Current(c) \in Cmds /\ held[c] \in Conns
    BY <1>12, <1>a DEF FreshFails, Forwarding
  <2>3. /\ answer' = [answer EXCEPT ![Current(c)] = Unavailable]
        /\ \E h \in {"read", "closed"} : hpc' = [hpc EXCEPT ![c] = h]
    BY <1>12, CurrentEffect DEF FreshFails
  <2> QED
    BY <1>12, <2>1, <2>2, <2>3 DEF FreshFails, Positions, Close
<1>13. ASSUME NEW k \in Conns, Run(k) PROVE TypeOK'
  <2>1. Head(req[k]) \in Cmds /\ Tail(req[k]) \in Seq(Cmds)
    BY <1>13 DEF Run
  <2>2. req' \in [Conns -> Seq(Cmds)] /\ runs' \in [Cmds -> Nat]
    BY <1>13, <2>1 DEF Run
  <2>3. rep' \in [Conns -> Seq(Cmds)]
    <3>1. rep' = [rep EXCEPT ![k] = Append(rep[k], Head(req[k]))] \/ rep' = rep
      BY <1>13 DEF Run
    <3>2. Append(rep[k], Head(req[k])) \in Seq(Cmds)
      BY <2>1
    <3> QED
      BY <3>1, <3>2, ZenonT(60)
  <2>4. link' \in [Conns -> {"free", "open", "gone", "closed"}]
    BY <1>13 DEF Run
  <2> QED
    BY <1>13, <2>2, <2>3, <2>4 DEF Run
<1>14. ASSUME NEW k \in Conns, ShardCloses(k) PROVE TypeOK'
  <2>1. req' \in [Conns -> Seq(Cmds)] /\ rep' \in [Conns -> Seq(Cmds)]
    <3>1. req' = [req EXCEPT ![k] = <<>>] /\ (rep' = rep \/ rep' = [rep EXCEPT ![k] = <<>>])
      BY <1>14 DEF ShardCloses
    <3>2. <<>> \in Seq(Cmds)
      OBVIOUS
    <3>3. req' \in [Conns -> Seq(Cmds)]
      BY <3>1, <3>2
    <3>4. CASE rep' = rep
      BY <3>3, <3>4
    <3>5. CASE rep' = [rep EXCEPT ![k] = <<>>]
      BY <3>2, <3>3, <3>5
    <3> QED
      BY <3>1, <3>4, <3>5
  <2>2. link' \in [Conns -> {"free", "open", "gone", "closed"}]
    BY <1>14 DEF ShardCloses
  <2> QED
    BY <1>14, <2>1, <2>2 DEF ShardCloses
<1>15. ASSUME NEW k \in Conns, BytesLost(k) PROVE TypeOK'
  BY <1>15 DEF BytesLost
<1>16. CASE Sigterm
  BY <1>16 DEF Sigterm
<1>17. CASE Stop
  BY <1>17 DEF Stop
<1>18. CASE UNCHANGED vars
  BY <1>18 DEF vars
<1> QED
  BY <1>1, <1>2, <1>3, <1>4, <1>5, <1>6, <1>7, <1>8, <1>9, <1>10, <1>11, <1>12,
     <1>13, <1>14, <1>15, <1>16, <1>17, <1>18
  DEF Next, HandlerStep

-----------------------------------------------------------------------------
(* Answers.                                                                 *)

\* A stream only grows behind what has been read of it.
LEMMA StreamStep ==
  ASSUME TypeOK, [Next]_vars
  PROVE  \A m \in Cmds : m[2] <= read[m[1]] => m[2] <= read'[m[1]] /\ Item(m)' = Item(m)
<1> SUFFICES ASSUME NEW m \in Cmds, m[2] <= read[m[1]]
             PROVE  m[2] <= read'[m[1]] /\ Item(m)' = Item(m)
  OBVIOUS
<1> USE DEF TypeOK, clientVars
<1>1. m[1] \in Clients /\ m[2] \in 1 .. Len(sent[m[1]])
  BY CmdParts
<1>2. ASSUME NEW c \in Clients, ReadCommand(c), UNCHANGED sent
      PROVE  m[2] <= read'[m[1]] /\ Item(m)' = Item(m)
  <2>1. read' = [read EXCEPT ![c] = read[c] + 1]
    BY <1>2, ReadCommandEffect
  <2> QED
    BY <1>1, <1>2, <2>1 DEF Item
<1>3. CASE UNCHANGED <<read, sent>>
  BY <1>1, <1>3 DEF Item
<1>4. ASSUME NEW c \in Clients, Send(c) PROVE m[2] <= read'[m[1]] /\ Item(m)' = Item(m)
  <2>1. PICK i \in Sends[c] \cap Items : sent' = [sent EXCEPT ![c] = Append(sent[c], i)]
    BY <1>4 DEF Send
  <2> QED
    BY <1>1, <1>4, <2>1 DEF Send, Item
<1>5. ASSUME NEW c \in Clients, Connect(c) \/ ClientCloses(c) PROVE UNCHANGED <<read, sent>>
  BY <1>5 DEF Connect, ClientCloses
<1>6. ASSUME NEW c \in Clients, HandlerStep(c)
      PROVE  UNCHANGED sent /\ (ReadCommand(c) \/ UNCHANGED read)
  BY <1>6 DEF HandlerStep, ReadFails, SkipBlank, AnswerLocally, Forward, ReadReply,
              ReuseFails, Dial, DialFails, FreshFails
<1>7. ASSUME NEW k \in Conns, Run(k) \/ ShardCloses(k) \/ BytesLost(k)
      PROVE  UNCHANGED <<read, sent>>
  BY <1>7 DEF Run, ShardCloses, BytesLost
<1>8. CASE Sigterm \/ Stop \/ UNCHANGED vars
  BY <1>3, <1>8 DEF Sigterm, Stop, vars
<1> QED
  BY <1>2, <1>3, <1>4, <1>5, <1>6, <1>7, <1>8 DEF Next

\* A command that has run has run.
LEMMA RunsStep ==
  ASSUME TypeOK, [Next]_vars
  PROVE  \A m \in Cmds : runs'[m] \in Nat /\ runs'[m] >= runs[m]
<1> USE DEF TypeOK
<1>1. ASSUME NEW k \in Conns, Run(k) PROVE \A m \in Cmds : runs'[m] \in Nat /\ runs'[m] >= runs[m]
  BY <1>1 DEF Run
<1>2. ASSUME UNCHANGED runs PROVE \A m \in Cmds : runs'[m] \in Nat /\ runs'[m] >= runs[m]
  BY <1>2
<1>3. ASSUME NEW c \in Clients, Connect(c) \/ Send(c) \/ ClientCloses(c) \/ HandlerStep(c)
      PROVE  UNCHANGED runs
  BY <1>3 DEF Connect, Send, ClientCloses, HandlerStep, ReadFails, SkipBlank, AnswerLocally,
              Forward, ReadReply, ReuseFails, Dial, DialFails, FreshFails
<1>4. ASSUME NEW k \in Conns, ShardCloses(k) \/ BytesLost(k) PROVE UNCHANGED runs
  BY <1>4 DEF ShardCloses, BytesLost
<1>5. CASE Sigterm \/ Stop \/ UNCHANGED vars
  BY <1>2, <1>5 DEF Sigterm, Stop, vars
<1> QED
  BY <1>1, <1>2, <1>3, <1>4, <1>5 DEF Next

\* What a handler has read last is a command.
LEMMA CurrentIsCmd ==
  ASSUME TypeOK, NEW c \in Clients
  PROVE  read[c] \in Nat /\ (read[c] > 0 => Current(c) \in Cmds)
<1>1. read[c] \in Nat /\ filled[c] \in Nat /\ Len(sent[c]) \in Nat /\ MaxItems[c] \in Nat
  BY DEF TypeOK
<1>2. read[c] <= MaxItems[c]
  BY <1>1 DEF TypeOK
<1> QED
  BY <1>1, <1>2, CmdParts DEF Current

\* The part of the invariant that is about handlers and answers.
AnswerInv == NotStarted /\ CurrentIsKeyed /\ AnswerIsOwn

\* A reply that waits to be read is that of the command its reader forwards.
LEMMA ReplyIsOwn ==
  ASSUME TypeOK, CurrentIsKeyed, OneAtATime, HeldIsOwn, NEW c \in Clients,
         hpc[c] \in Waiting, rep[held[c]] # <<>>
  PROVE  /\ Current(c) \in Cmds /\ held[c] \in Conns
         /\ rep[held[c]] = <<Current(c)>> /\ req[held[c]] = <<>>
         /\ Reply(held[c]) = Current(c) /\ runs[Current(c)] > 0
<1>1. held[c] \in Conns /\ Current(c) \in Cmds
  BY CurrentIsCmd DEF TypeOK, CurrentIsKeyed, Forwarding
<1>2. rep[held[c]] = <<Current(c)>>
  BY DEF HeldIsOwn
<1>3. PICK m \in Cmds : rep[held[c]] = <<m>> /\ runs[m] > 0 /\ req[held[c]] = <<>>
  BY <1>1 DEF OneAtATime
<1>4. Reply(held[c]) = m /\ Reply(held[c]) = Current(c)
  BY <1>2, <1>3 DEF Reply
<1> QED
  BY <1>1, <1>2, <1>3, <1>4

\* Every step preserves AnswerInv.
LEMMA AnswerStep ==
  ASSUME TypeOK, OneAtATime, HeldIsOwn, AnswerInv, [Next]_vars
  PROVE  AnswerInv'
<1> USE DEF AnswerInv
<1>a. \A m \in Cmds : m[2] <= read[m[1]] => m[2] <= read'[m[1]] /\ Item(m)' = Item(m)
  BY StreamStep
<1>b. \A m \in Cmds : runs'[m] \in Nat /\ runs'[m] >= runs[m]
  BY RunsStep
<1>c. /\ \A m \in Cmds : /\ m[1] \in Clients /\ m[2] \in Nat /\ m[2] > 0
                         /\ runs[m] \in Nat
      /\ \A c \in Clients : read[c] \in Nat /\ (read[c] > 0 => Current(c) \in Cmds)
  <2>1. \A m \in Cmds : m[1] \in Clients /\ m[2] \in Nat /\ m[2] > 0 /\ runs[m] \in Nat
    BY CmdParts DEF TypeOK
  <2> QED
    BY <2>1, CurrentIsCmd
\* A step that reads no item and answers none.
<1>d. ASSUME UNCHANGED <<read, answer>>,
             \A c \in Clients : hpc'[c] \in Forwarding => hpc[c] \in Forwarding,
             \A c \in Clients : hpc'[c] = "none" => hpc[c] = "none"
      PROVE  AnswerInv'
  <2>1. NotStarted'
    BY <1>d DEF NotStarted
  <2>2. CurrentIsKeyed'
    BY <1>a, <1>c, <1>d DEF CurrentIsKeyed, Current
  <2>3. AnswerIsOwn'
    BY <1>a, <1>b, <1>c, <1>d DEF AnswerIsOwn, Forwarded
  <2> QED
    BY <2>1, <2>2, <2>3
\* A step that answers the command that was forwarded.
<1>e. ASSUME NEW c \in Clients, hpc[c] \in Forwarding, UNCHANGED read,
             \/ answer' = [answer EXCEPT ![Current(c)] = Unavailable]
             \/ answer' = [answer EXCEPT ![Current(c)] = Current(c)] /\ runs[Current(c)] > 0,
             NEW h \in {"read", "closed"}, hpc' = [hpc EXCEPT ![c] = h]
      PROVE  AnswerInv'
  <2>1. Current(c) \in Cmds /\ read[c] > 0
    BY <1>c, <1>e DEF CurrentIsKeyed
  <2>2. NotStarted'
    BY <1>e DEF NotStarted, TypeOK
  <2>3. CurrentIsKeyed'
    <3> SUFFICES ASSUME NEW d \in Clients, hpc'[d] \in Forwarding
                 PROVE  /\ read'[d] > 0 /\ Item(Current(d))' \in Keys
                        /\ answer'[Current(d)'] = NoAnswer
      BY DEF CurrentIsKeyed
    <3>1. d # c /\ hpc[d] \in Forwarding
      BY <1>e DEF Forwarding, Waiting, TypeOK
    <3>2. Current(d)' = Current(d) /\ Current(d) # Current(c) /\ Current(d) \in Cmds
      BY <1>c, <1>e, <3>1 DEF Current, CurrentIsKeyed
    <3>3. answer'[Current(d)] = NoAnswer
      BY <1>e, <2>1, <3>1, <3>2 DEF CurrentIsKeyed, TypeOK
    <3>4. Current(d)[2] <= read[Current(d)[1]] /\ Item(Current(d)) \in Keys
      BY <1>c, <3>1 DEF CurrentIsKeyed, Current
    <3>5. Item(Current(d))' \in Keys
      BY <1>a, <3>2, <3>4 DEF Item
    <3> QED
      BY <1>e, <3>1, <3>2, <3>3, <3>5 DEF CurrentIsKeyed
  <2>4. AnswerIsOwn'
    <3> SUFFICES ASSUME NEW m \in Cmds
                 PROVE  /\ m[2] > read'[m[1]] => answer'[m] = NoAnswer
                        /\ Forwarded(m)' => \/ answer'[m] \in {NoAnswer, Unavailable}
                                            \/ answer'[m] = m /\ runs'[m] > 0
      BY DEF AnswerIsOwn
    <3>1. CASE m = Current(c)
      <4>1. ~ (m[2] > read'[m[1]])
        BY <1>c, <1>e, <3>1 DEF Current
      <4>2. answer'[m] = Unavailable \/ (answer'[m] = m /\ runs[m] > 0)
        BY <1>e, <2>1, <3>1 DEF TypeOK
      <4>3. runs[m] > 0 => runs'[m] > 0
        BY <1>b, <1>c
      <4> QED
        BY <4>1, <4>2, <4>3
    <3>2. CASE m # Current(c)
      <4>1. answer'[m] = answer[m]
        BY <1>e, <2>1, <3>2 DEF TypeOK
      <4>2. Forwarded(m)' => Forwarded(m)
        BY <1>a, <1>c, <1>e DEF Forwarded
      <4> QED
        BY <1>b, <1>c, <1>e, <4>1, <4>2 DEF AnswerIsOwn
    <3> QED
      BY <3>1, <3>2
  <2> QED
    BY <2>2, <2>3, <2>4
\* A step that reads an item that is not forwarded.
<1>f. ASSUME NEW c \in Clients, ReadCommand(c), Item(NextItem(c)) \notin Keys, UNCHANGED sent,
             NEW r, answer' = answer \/ answer' = [answer EXCEPT ![NextItem(c)] = r],
             NEW h \in {"read", "closed"}, hpc' = [hpc EXCEPT ![c] = h]
      PROVE  AnswerInv'
  <2>1. /\ NextItem(c) \in Cmds /\ NextItem(c)[2] = read[c] + 1 /\ NextItem(c)[1] = c
        /\ read' = [read EXCEPT ![c] = read[c] + 1]
    BY <1>f, ReadCommandEffect DEF NextItem
  <2>2. NotStarted'
    BY <1>f DEF NotStarted, ReadCommand, TypeOK
  <2>3. \A m \in Cmds : m # NextItem(c) => answer'[m] = answer[m]
    BY <1>f, <2>1 DEF TypeOK
  <2>4. CurrentIsKeyed'
    <3> SUFFICES ASSUME NEW d \in Clients, hpc'[d] \in Forwarding
                 PROVE  /\ read'[d] > 0 /\ Item(Current(d))' \in Keys
                        /\ answer'[Current(d)'] = NoAnswer
      BY DEF CurrentIsKeyed
    <3>1. d # c /\ hpc[d] \in Forwarding
      BY <1>f DEF Forwarding, Waiting, TypeOK
    <3>2. Current(d)' = Current(d) /\ Current(d) # NextItem(c) /\ Current(d) \in Cmds
      BY <1>c, <2>1, <3>1 DEF Current, CurrentIsKeyed, NextItem, TypeOK
    <3> QED
      BY <1>f, <2>1, <2>3, <3>1, <3>2 DEF CurrentIsKeyed, TypeOK, Item
  <2>5. AnswerIsOwn'
    <3> SUFFICES ASSUME NEW m \in Cmds
                 PROVE  /\ m[2] > read'[m[1]] => answer'[m] = NoAnswer
                        /\ Forwarded(m)' => \/ answer'[m] \in {NoAnswer, Unavailable}
                                            \/ answer'[m] = m /\ runs'[m] > 0
      BY DEF AnswerIsOwn
    <3>1. CASE m = NextItem(c)
      BY <1>c, <1>f, <2>1, <3>1 DEF TypeOK, Forwarded, Item
    <3>2. CASE m # NextItem(c)
      <4>1. m[2] <= read'[m[1]] => m[2] <= read[m[1]]
        <5>1. CASE m[1] = c
          <6>1. m = <<m[1], m[2]>>
            BY CmdParts
          <6>2. m[2] # read[c] + 1
            BY <3>2, <5>1, <6>1 DEF NextItem
          <6> QED
            BY <1>c, <2>1, <5>1, <6>2 DEF TypeOK
        <5>2. CASE m[1] # c
          BY <1>c, <2>1, <5>2 DEF TypeOK
        <5> QED
          BY <5>1, <5>2
      <4>2. Forwarded(m)' => Forwarded(m)
        BY <1>f, <4>1 DEF Forwarded, Item
      <4>3. m[2] > read'[m[1]] => m[2] > read[m[1]]
        BY <1>c, <2>1, SMTT(30) DEF TypeOK
      <4> QED
        BY <1>b, <1>c, <2>3, <3>2, <4>2, <4>3 DEF AnswerIsOwn
    <3> QED
      BY <3>1, <3>2
  <2> QED
    BY <2>2, <2>4, <2>5
<1>1. ASSUME NEW c \in Clients, Connect(c) PROVE AnswerInv'
  BY <1>1, <1>d DEF Connect, TypeOK, Forwarding, Waiting
<1>2. ASSUME NEW c \in Clients, Send(c) \/ ClientCloses(c) PROVE AnswerInv'
  BY <1>2, <1>d DEF Send, ClientCloses
<1>3. ASSUME NEW c \in Clients, ReadFails(c) PROVE AnswerInv'
  <2>1. CASE ReadCommand(c) /\ Item(NextItem(c)) = "garbled"
    BY <1>3, <1>f, <2>1 DEF ReadFails, clientVars
  <2>2. CASE UNCHANGED read
    BY <1>3, <1>d, <2>2 DEF ReadFails, TypeOK, Forwarding, Waiting
  <2> QED
    BY <1>3, <2>1, <2>2 DEF ReadFails
<1>4. ASSUME NEW c \in Clients, SkipBlank(c) PROVE AnswerInv'
  <2>1. hpc[c] = "read" /\ hpc' = [hpc EXCEPT ![c] = "read"]
    BY <1>4 DEF SkipBlank, ReadCommand, TypeOK
  <2> QED
    BY <1>4, <1>f, <2>1 DEF SkipBlank, clientVars
<1>5. ASSUME NEW c \in Clients, AnswerLocally(c) PROVE AnswerInv'
  <2>1. /\ ReadCommand(c) /\ UNCHANGED sent /\ Item(NextItem(c)) \in {"local", "quit"}
        /\ Respond(<<c, read[c] + 1>>, Local, Item(NextItem(c)) = "quit")
        /\ read[c] + 1 \in Nat
    BY <1>5 DEF AnswerLocally, NextItem, clientVars, TypeOK
  <2>2. /\ answer' = [answer EXCEPT ![NextItem(c)] = Local]
        /\ \E h \in {"read", "closed"} : hpc' = [hpc EXCEPT ![c] = h]
    BY <2>1, RespondEffect DEF NextItem
  <2>3. Item(NextItem(c)) \notin Keys
    BY <2>1
  <2> QED
    BY <1>f, <2>1, <2>2, <2>3
<1>6. ASSUME NEW c \in Clients, Forward(c) PROVE AnswerInv'
  <2>1. /\ NextItem(c) \in Cmds /\ NextItem(c)[2] = read[c] + 1 /\ NextItem(c)[1] = c
        /\ read' = [read EXCEPT ![c] = read[c] + 1] /\ hpc[c] = "read"
    BY <1>6, ReadCommandEffect DEF NextItem, Forward
  <2>2. /\ Item(NextItem(c)) \in Keys /\ UNCHANGED <<sent, answer>>
        /\ hpc' = [hpc EXCEPT ![c] = "reused"] \/ hpc' = [hpc EXCEPT ![c] = "dial"]
    BY <1>6 DEF Forward, clientVars
  <2>3. answer[NextItem(c)] = NoAnswer
    BY <1>c, <2>1 DEF AnswerIsOwn
  <2>4. NotStarted'
    BY <2>1, <2>2 DEF NotStarted, TypeOK
  <2>5. CurrentIsKeyed'
    <3> SUFFICES ASSUME NEW d \in Clients, hpc'[d] \in Forwarding
                 PROVE  /\ read'[d] > 0 /\ Item(Current(d))' \in Keys
                        /\ answer'[Current(d)'] = NoAnswer
      BY DEF CurrentIsKeyed
    <3>1. CASE d = c
      <4>1. Current(d)' = NextItem(c) /\ read'[d] > 0
        BY <1>c, <2>1, <3>1 DEF Current, NextItem, TypeOK
      <4> QED
        BY <2>2, <2>3, <4>1 DEF Item
    <3>2. CASE d # c
      <4>1. hpc[d] \in Forwarding /\ Current(d)' = Current(d) /\ read'[d] = read[d]
        BY <2>1, <2>2, <3>2 DEF TypeOK, Current
      <4> QED
        BY <2>2, <4>1 DEF CurrentIsKeyed, Item
    <3> QED
      BY <3>1, <3>2
  <2>6. AnswerIsOwn'
    <3> SUFFICES ASSUME NEW m \in Cmds
                 PROVE  /\ m[2] > read'[m[1]] => answer'[m] = NoAnswer
                        /\ Forwarded(m)' => \/ answer'[m] \in {NoAnswer, Unavailable}
                                            \/ answer'[m] = m /\ runs'[m] > 0
      BY DEF AnswerIsOwn
    <3>1. m[2] > read'[m[1]] => m[2] > read[m[1]]
      BY <1>c, <2>1, SMTT(30) DEF TypeOK
    <3>2. CASE m[2] > read[m[1]]
      BY <2>2, <3>1, <3>2 DEF AnswerIsOwn
    <3>3. CASE m[2] <= read[m[1]]
      BY <1>a, <1>b, <1>c, <2>2, <3>1, <3>3 DEF AnswerIsOwn, Forwarded
    <3> QED
      BY <1>c, <3>2, <3>3
  <2> QED
    BY <2>4, <2>5, <2>6
<1>7. ASSUME NEW c \in Clients, ReadReply(c) PROVE AnswerInv'
  <2>1. Reply(held[c]) = Current(c) /\ runs[Current(c)] > 0 /\ hpc[c] \in Forwarding
    BY <1>7, ReplyIsOwn DEF ReadReply, Forwarding
  <2>2. /\ UNCHANGED read /\ answer' = [answer EXCEPT ![Current(c)] = Reply(held[c])]
        /\ \E h \in {"read", "closed"} : hpc' = [hpc EXCEPT ![c] = h]
    BY <1>7, CurrentEffect DEF ReadReply
  <2> QED
    BY <1>e, <2>1, <2>2
<1>8. ASSUME NEW c \in Clients, ReuseFails(c) PROVE AnswerInv'
  BY <1>8, <1>d DEF ReuseFails, TypeOK, Forwarding, Waiting
<1>9. ASSUME NEW c \in Clients, Dial(c) PROVE AnswerInv'
  BY <1>9, <1>d DEF Dial, TypeOK, Forwarding, Waiting
<1>10. ASSUME NEW c \in Clients, DialFails(c) \/ FreshFails(c) PROVE AnswerInv'
  <2>1. hpc[c] \in Forwarding /\ UNCHANGED read /\ Respond(Current(c), Unavailable, FALSE)
    BY <1>10 DEF DialFails, FreshFails, Forwarding, Waiting
  <2>2. /\ answer' = [answer EXCEPT ![Current(c)] = Unavailable]
        /\ \E h \in {"read", "closed"} : hpc' = [hpc EXCEPT ![c] = h]
    BY <2>1, CurrentEffect
  <2> QED
    BY <1>e, <2>1, <2>2
<1>11. ASSUME NEW k \in Conns, Run(k) \/ ShardCloses(k) \/ BytesLost(k) PROVE AnswerInv'
  BY <1>11, <1>d DEF Run, ShardCloses, BytesLost
<1>12. CASE Sigterm \/ UNCHANGED vars
  BY <1>12, <1>d DEF Sigterm, vars
<1>13. CASE Stop
  BY <1>13, <1>d DEF Stop, Forwarding, Waiting
<1> QED
  BY <1>1, <1>2, <1>3, <1>4, <1>5, <1>6, <1>7, <1>8, <1>9, <1>10, <1>11, <1>12, <1>13
  DEF Next, HandlerStep

\* Every step preserves NothingWithheld.
LEMMA FlushStep ==
  ASSUME TypeOK, NotStarted, NothingWithheld, [Next]_vars
  PROVE  NothingWithheld'
<1> SUFFICES ASSUME NEW d \in Clients,
                    hpc'[d] = "read", read'[d] = filled'[d], read'[d] > 0
             PROVE  flushed'[d] = read'[d] \/ Item(Current(d))' = "blank"
  BY DEF NothingWithheld, Current
<1> DEFINE Goal == flushed'[d] = read'[d] \/ Item(Current(d))' = "blank"
\* A step that is not the handler's own.
<1>a. ASSUME hpc[d] = "read", read'[d] = read[d], filled'[d] = filled[d],
             flushed'[d] = flushed[d]
      PROVE  Goal
  <2>1. flushed[d] = read[d] \/ Item(Current(d)) = "blank"
    BY <1>a DEF NothingWithheld, Current
  <2>2. Current(d) \in Cmds
    BY <1>a, CurrentIsCmd
  <2>3. Item(Current(d))' = Item(Current(d))
    <3>1. Current(d)[1] = d /\ Current(d)[2] = read[d] /\ read[d] \in Nat
      BY DEF Current, TypeOK
    <3>2. \A m \in Cmds : m[2] <= read[m[1]] => Item(m)' = Item(m)
      BY StreamStep
    <3>3. Item(Current(d))' = sent'[d][read'[d]] /\ Item(Current(d)) = sent[d][read[d]]
      BY DEF Item, Current
    <3>4. sent'[d][read[d]] = sent[d][read[d]]
      BY <2>2, <3>1, <3>2 DEF Item
    <3> QED
      BY <1>a, <3>3, <3>4
  <2> QED
    BY <1>a, <2>1, <2>3
<1> HIDE DEF Goal
<1> USE DEF clientVars
<1>1. ASSUME NEW c \in Clients, Connect(c) PROVE Goal
  <2>1. CASE d = c
    BY <1>1, <2>1 DEF Connect, NotStarted, TypeOK
  <2>2. CASE d # c
    BY <1>1, <1>a, <2>2 DEF Connect, TypeOK
  <2> QED
    BY <2>1, <2>2
<1>2. ASSUME NEW c \in Clients, Send(c) \/ ClientCloses(c) PROVE Goal
  BY <1>2, <1>a DEF Send, ClientCloses
<1>3. ASSUME NEW c \in Clients, ReadCommand(c), d # c, hpc'[d] = hpc[d], flushed'[d] = flushed[d]
      PROVE  Goal
  <2>1. read'[d] = read[d] /\ filled'[d] = filled[d]
    BY <1>3, ReadCommandEffect DEF TypeOK
  <2> QED
    BY <1>3, <1>a, <2>1
<1>4. ASSUME NEW c \in Clients, Respond(Current(c), Reply(held[c]), FALSE)
                                 \/ Respond(Current(c), Unavailable, FALSE),
             UNCHANGED <<filled, read>>
      PROVE  Goal
  <2>1. /\ \E h \in {"read", "closed"} : hpc' = [hpc EXCEPT ![c] = h]
        /\ flushed' = flushed \/ flushed' = [flushed EXCEPT ![c] = read[c]]
        /\ hpc'[c] = "read" /\ read[c] = filled'[c] => flushed'[c] = read[c]
    BY <1>4, CurrentEffect
  <2>2. CASE d = c
    BY <1>4, <2>1, <2>2 DEF Goal
  <2>3. CASE d # c
    <3>1. hpc[d] = "read" /\ flushed'[d] = flushed[d]
      BY <2>1, <2>3 DEF TypeOK
    <3> QED
      BY <1>4, <1>a, <3>1
  <2> QED
    BY <2>2, <2>3
<1>5. ASSUME NEW c \in Clients, ReadFails(c) PROVE Goal
  <2>1. d # c /\ hpc'[d] = hpc[d] /\ flushed'[d] = flushed[d]
    BY <1>5 DEF ReadFails, TypeOK
  <2> QED
    BY <1>5, <1>3, <1>a, <2>1 DEF ReadFails
<1>6. ASSUME NEW c \in Clients, SkipBlank(c) PROVE Goal
  <2>1. CASE d = c
    <3>1. read'[d] = read[d] + 1 /\ NextItem(d) = <<d, read'[d]>>
      BY <1>6, <2>1, ReadCommandEffect DEF SkipBlank, NextItem, TypeOK
    <3>2. Item(NextItem(d)) = "blank" /\ UNCHANGED sent
      BY <1>6, <2>1 DEF SkipBlank
    <3> QED
      BY <3>1, <3>2 DEF Item, Current, Goal
  <2>2. CASE d # c
    BY <1>6, <1>3, <2>2 DEF SkipBlank
  <2> QED
    BY <2>1, <2>2
<1>7. ASSUME NEW c \in Clients, AnswerLocally(c) PROVE Goal
  <2>1. /\ ReadCommand(c) /\ read[c] + 1 \in Nat
        /\ Respond(<<c, read[c] + 1>>, Local, Item(NextItem(c)) = "quit")
    BY <1>7 DEF AnswerLocally, NextItem, TypeOK
  <2>2. /\ \E h \in {"read", "closed"} : hpc' = [hpc EXCEPT ![c] = h]
        /\ flushed' = flushed \/ flushed' = [flushed EXCEPT ![c] = read[c] + 1]
        /\ hpc'[c] = "read" /\ read[c] + 1 = filled'[c] => flushed'[c] = read[c] + 1
    BY <2>1, RespondEffect
  <2>3. CASE d = c
    <3>1. read'[d] = read[d] + 1
      BY <2>1, <2>3, ReadCommandEffect DEF TypeOK
    <3> QED
      BY <2>2, <2>3, <3>1 DEF Goal
  <2>4. CASE d # c
    BY <2>1, <2>2, <2>4, <1>3 DEF TypeOK
  <2> QED
    BY <2>3, <2>4
<1>8. ASSUME NEW c \in Clients, Forward(c) PROVE Goal
  <2>1. d # c /\ hpc'[d] = hpc[d] /\ flushed'[d] = flushed[d]
    BY <1>8 DEF Forward, TypeOK
  <2> QED
    BY <1>8, <1>3, <2>1 DEF Forward
<1>9. ASSUME NEW c \in Clients, ReadReply(c) \/ DialFails(c) \/ FreshFails(c) PROVE Goal
  BY <1>9, <1>4 DEF ReadReply, DialFails, FreshFails
<1>10. ASSUME NEW c \in Clients, ReuseFails(c) \/ Dial(c) PROVE Goal
  BY <1>10, <1>a DEF ReuseFails, Dial, TypeOK
<1>11. ASSUME NEW k \in Conns, Run(k) \/ ShardCloses(k) \/ BytesLost(k) PROVE Goal
  BY <1>11, <1>a DEF Run, ShardCloses, BytesLost
<1>12. ASSUME Sigterm \/ UNCHANGED vars PROVE Goal
  BY <1>12, <1>a DEF Sigterm, vars
<1>13. ASSUME Stop PROVE Goal
  BY <1>13, <1>a DEF Stop, TypeOK
<1> QED
  BY <1>1, <1>2, <1>5, <1>6, <1>7, <1>8, <1>9, <1>10, <1>11, <1>12, <1>13
  DEF Next, HandlerStep, Goal

-----------------------------------------------------------------------------
(* Connections.                                                             *)

\* The part of the invariant that is about connections and pools.
ConnInv == PoolIsClean /\ OneAtATime /\ GivenUp /\ HeldIsOwn

\* A handler that waits holds a connection no other handler and no pool has.
LEMMA HeldAlone ==
  ASSUME TypeOK, PoolIsClean, NEW c \in Clients, hpc[c] \in Waiting
  PROVE  /\ held[c] \in Conns
         /\ \A d \in Clients : d # c => held[d] # held[c]
         /\ \A s \in Shards : held[c] \notin idle[s]
BY DEF TypeOK, PoolIsClean

\* Giving up the connection a handler holds disturbs no other.
LEMMA CloseKeepsConns ==
  ASSUME TypeOK, CurrentIsKeyed, ConnInv, [Next]_vars,
         NEW c \in Clients, hpc[c] \in Waiting, Close(held[c]),
         held' = [held EXCEPT ![c] = NoConn],
         NEW h \in {"read", "closed", "dial"}, hpc' = [hpc EXCEPT ![c] = h],
         UNCHANGED <<sent, read, idle, addr, req, runs>>
  PROVE  ConnInv'
<1> DEFINE k == held[c]
<1>1. /\ k \in Conns /\ \A d \in Clients : d # c => held[d] # k
      /\ \A s \in Shards : k \notin idle[s]
  BY HeldAlone DEF ConnInv
<1>2. /\ link' = [link EXCEPT ![k] = IF req[k] = <<>> THEN "free" ELSE "closed"]
      /\ rep' = [rep EXCEPT ![k] = <<>>]
  BY DEF Close
<1>3. PoolIsClean'
  BY <1>1, <1>2 DEF ConnInv, PoolIsClean, TypeOK
<1>4. OneAtATime'
  <2>1. \A m : Forwarded(m)' = Forwarded(m)
    BY DEF Forwarded, Item
  <2> QED
    BY <1>1, <1>2, <2>1 DEF ConnInv, OneAtATime, TypeOK
<1>5. GivenUp'
  BY <1>1, <1>2 DEF ConnInv, GivenUp, TypeOK
<1>6. HeldIsOwn'
  <2> SUFFICES ASSUME NEW d \in Clients, hpc'[d] \in Waiting
               PROVE  /\ link'[held'[d]] \in {"open", "gone"}
                      /\ addr'[held'[d]] = PoolOf(Current(d))'
                      /\ req'[held'[d]] \in {<<>>, <<Current(d)'>>}
                      /\ rep'[held'[d]] \in {<<>>, <<Current(d)'>>}
    BY DEF HeldIsOwn
  <2>1. d # c /\ hpc[d] \in Waiting /\ held'[d] = held[d] /\ held[d] # k
    BY <1>1 DEF TypeOK, Waiting
  <2>2. Current(d)' = Current(d) /\ PoolOf(Current(d))' = PoolOf(Current(d))
    BY DEF Current, PoolOf, Item
  <2>3. link'[held[d]] = link[held[d]] /\ rep'[held[d]] = rep[held[d]]
    BY <1>2, <2>1 DEF TypeOK
  <2> QED
    BY <2>1, <2>2, <2>3 DEF ConnInv, HeldIsOwn
<1> QED
  BY <1>3, <1>4, <1>5, <1>6 DEF ConnInv

\* So does putting it back into its pool, when the reply on it has been read.
LEMMA PutKeepsConns ==
  ASSUME TypeOK, CurrentIsKeyed, ConnInv, [Next]_vars,
         NEW c \in Clients, hpc[c] \in Waiting, rep[held[c]] # <<>>,
         Put(held[c], PoolOf(Current(c))),
         held' = [held EXCEPT ![c] = NoConn],
         NEW h \in {"read", "closed"}, hpc' = [hpc EXCEPT ![c] = h],
         UNCHANGED <<sent, read, addr, req, runs>>
  PROVE  ConnInv'
<1> DEFINE k == held[c]
           s == PoolOf(Current(c))
<1>1. /\ k \in Conns /\ \A d \in Clients : d # c => held[d] # k
      /\ \A p \in Shards : k \notin idle[p]
  BY HeldAlone DEF ConnInv
<1>2. CASE Close(k) /\ UNCHANGED idle
  BY <1>2, CloseKeepsConns
<1>3. CASE /\ Cardinality(idle[s]) < MaxIdle
           /\ idle' = [idle EXCEPT ![s] = @ \cup {k}]
           /\ rep' = [rep EXCEPT ![k] = Tail(@)]
           /\ UNCHANGED link
  <2>1. /\ rep[k] = <<Current(c)>> /\ req[k] = <<>> /\ link[k] \in {"open", "gone"}
        /\ addr[k] = s /\ s \in Shards
    BY ReplyIsOwn, <1>1, SMTT(30) DEF ConnInv, HeldIsOwn, TypeOK
  <2>2. rep' = [rep EXCEPT ![k] = <<>>]
    BY <1>3, <2>1
  <2>3. idle'[s] = idle[s] \cup {k} /\ \A p \in Shards : p # s => idle'[p] = idle[p]
    BY <1>3, <2>1 DEF TypeOK
  <2> HIDE DEF k, s
  <2>4. PoolIsClean'
    <3>1. \A p \in Shards : Cardinality(idle'[p]) <= MaxIdle
      <4>1. IsFiniteSet(idle[s]) /\ Cardinality(idle[s]) \in Nat
        BY <2>1, FinitePools DEF TypeOK
      <4>2. \/ Cardinality(idle[s] \cup {k}) = Cardinality(idle[s]) + 1
            \/ Cardinality(idle[s] \cup {k}) = Cardinality(idle[s])
        BY <4>1, FS_AddElement
      <4>3. Cardinality(idle[s] \cup {k}) \in Nat
        BY <4>1, FS_AddElement, FS_CardinalityType
      <4> QED
        BY <1>3, <2>3, <4>1, <4>2, <4>3 DEF ConnInv, PoolIsClean
    <3>2. \A p \in Shards : \A j \in idle'[p] :
             addr'[j] = p /\ link'[j] \in {"open", "gone"} /\ req'[j] = <<>> /\ rep'[j] = <<>>
      <4> SUFFICES ASSUME NEW p \in Shards, NEW j \in idle'[p]
                   PROVE  addr'[j] = p /\ link'[j] \in {"open", "gone"} /\ req'[j] = <<>> /\ rep'[j] = <<>>
        OBVIOUS
      <4>1. CASE j = k
        BY <1>1, <1>3, <2>1, <2>2, <2>3, <4>1 DEF TypeOK
      <4>2. CASE j # k
        BY <1>1, <1>3, <2>1, <2>2, <2>3, <4>2 DEF ConnInv, PoolIsClean, TypeOK
      <4> QED
        BY <4>1, <4>2
    <3>3. \A d, e \in Clients : d # e /\ held'[d] = held'[e] => held'[d] = NoConn
      BY DEF ConnInv, PoolIsClean, TypeOK
    <3>4. \A d \in Clients, p \in Shards : held'[d] \notin idle'[p]
      <4> SUFFICES ASSUME NEW d \in Clients, NEW p \in Shards PROVE held'[d] \notin idle'[p]
        OBVIOUS
      <4>1. idle'[p] \subseteq idle[p] \cup {k} /\ idle'[p] \subseteq Conns
        <5>1. idle[p] \subseteq Conns
          BY DEF TypeOK
        <5> QED
          BY <1>1, <2>3, <5>1
      <4>2. CASE d = c
        BY <4>1, <4>2 DEF TypeOK
      <4>3. CASE d # c
        BY <1>1, <4>1, <4>3, SMTT(30) DEF ConnInv, PoolIsClean, TypeOK
      <4> QED
        BY <4>2, <4>3
    <3> QED
      BY <3>1, <3>2, <3>3, <3>4 DEF PoolIsClean
  <2>5. OneAtATime'
    <3>1. \A m : Forwarded(m)' = Forwarded(m)
      BY DEF Forwarded, Item
    <3>2. rep'[k] = <<>> /\ \A j \in Conns : j # k => rep'[j] = rep[j]
      BY <1>1, <2>2 DEF TypeOK
    <3> QED
      BY <1>1, <2>1, <3>1, <3>2 DEF ConnInv, OneAtATime
  <2>6. GivenUp'
    BY <1>1, <1>3, <2>2 DEF ConnInv, GivenUp, TypeOK
  <2>7. HeldIsOwn'
    <3> SUFFICES ASSUME NEW d \in Clients, hpc'[d] \in Waiting
                 PROVE  /\ link'[held'[d]] \in {"open", "gone"}
                        /\ addr'[held'[d]] = PoolOf(Current(d))'
                        /\ req'[held'[d]] \in {<<>>, <<Current(d)'>>}
                        /\ rep'[held'[d]] \in {<<>>, <<Current(d)'>>}
      BY DEF HeldIsOwn
    <3>1. d # c /\ hpc[d] \in Waiting /\ held'[d] = held[d] /\ held[d] # k
      BY <1>1 DEF TypeOK, Waiting
    <3>2. Current(d)' = Current(d) /\ PoolOf(Current(d))' = PoolOf(Current(d))
      BY DEF Current, PoolOf, Item
    <3>3. link'[held[d]] = link[held[d]] /\ rep'[held[d]] = rep[held[d]]
      BY <1>3, <2>2, <3>1 DEF TypeOK
    <3> QED
      BY <3>1, <3>2, <3>3 DEF ConnInv, HeldIsOwn
  <2> QED
    BY <2>4, <2>5, <2>6, <2>7 DEF ConnInv
<1> QED
  BY <1>2, <1>3 DEF Put

\* Every step preserves ConnInv.
LEMMA ConnStep ==
  ASSUME TypeOK, AnswerInv, ConnInv, [Next]_vars
  PROVE  ConnInv'
<1>a. \A m \in Cmds : Forwarded(m) => Forwarded(m)'
  <2> SUFFICES ASSUME NEW m \in Cmds, Forwarded(m) PROVE Forwarded(m)'
    OBVIOUS
  <2>1. m[2] <= read'[m[1]] /\ Item(m)' = Item(m)
    BY StreamStep DEF Forwarded
  <2> QED
    BY <2>1 DEF Forwarded
<1>b. \A m \in Cmds : runs[m] \in Nat /\ runs'[m] \in Nat /\ runs'[m] >= runs[m]
  BY RunsStep DEF TypeOK
\* A handler that stays where it is goes on with the same command.
<1>c. ASSUME NEW d \in Clients, hpc[d] \in Waiting, read'[d] = read[d]
      PROVE  Current(d)' = Current(d) /\ PoolOf(Current(d))' = PoolOf(Current(d))
  <2>1. Current(d)' = Current(d) /\ Current(d) \in Cmds
    BY <1>c, CurrentIsCmd DEF AnswerInv, CurrentIsKeyed, Forwarding, Current
  <2>2. Current(d)[2] <= read[Current(d)[1]]
    <3>1. Current(d)[1] = d /\ Current(d)[2] = read[d] /\ read[d] \in Nat
      BY DEF Current, TypeOK
    <3> QED
      BY <3>1
  <2>3. Item(Current(d)) = sent[d][read[d]] /\ Item(Current(d))' = sent'[d][read[d]]
    BY <1>c DEF Item, Current
  <2>4. sent'[d][read[d]] = sent[d][read[d]]
    <3>1. sent'[Current(d)[1]][Current(d)[2]] = sent[Current(d)[1]][Current(d)[2]]
      BY <2>1, <2>2, StreamStep DEF Item
    <3> QED
      BY <3>1 DEF Current
  <2> QED
    BY <2>1, <2>3, <2>4 DEF PoolOf
\* A step that touches no connection, and whose handlers begin no roundtrip.
<1>d. ASSUME UNCHANGED <<held, backendVars>>,
             \A d \in Clients : hpc'[d] \in Waiting => hpc[d] \in Waiting /\ read'[d] = read[d]
      PROVE  ConnInv'
  <2>1. PoolIsClean'
    BY <1>d DEF ConnInv, PoolIsClean, backendVars
  <2>2. OneAtATime'
    BY <1>a, <1>b, <1>d DEF ConnInv, OneAtATime, backendVars
  <2>3. GivenUp'
    BY <1>d DEF ConnInv, GivenUp, backendVars
  <2>4. HeldIsOwn'
    <3> SUFFICES ASSUME NEW d \in Clients, hpc'[d] \in Waiting
                 PROVE  /\ link[held[d]] \in {"open", "gone"}
                        /\ addr[held[d]] = PoolOf(Current(d))'
                        /\ req[held[d]] \in {<<>>, <<Current(d)'>>}
                        /\ rep[held[d]] \in {<<>>, <<Current(d)'>>}
      BY <1>d DEF HeldIsOwn, backendVars
    <3> QED
      BY <1>c, <1>d DEF ConnInv, HeldIsOwn
  <2> QED
    BY <2>1, <2>2, <2>3, <2>4 DEF ConnInv
<1>1. ASSUME NEW c \in Clients, Connect(c) PROVE ConnInv'
  BY <1>1, <1>d DEF Connect, TypeOK, Waiting
<1>2. ASSUME NEW c \in Clients, Send(c) \/ ClientCloses(c) PROVE ConnInv'
  BY <1>2, <1>d DEF Send, ClientCloses
<1>3. ASSUME NEW c \in Clients, ReadFails(c) \/ SkipBlank(c) \/ AnswerLocally(c) PROVE ConnInv'
  <2>1. hpc[c] = "read" /\ UNCHANGED <<held, backendVars>>
    BY <1>3 DEF ReadFails, SkipBlank, AnswerLocally, ReadCommand
  <2>2. \E h \in {"read", "closed"} : hpc' = [hpc EXCEPT ![c] = h]
    <3>1. CASE ReadFails(c) \/ SkipBlank(c)
      BY <2>1, <3>1 DEF ReadFails, SkipBlank, TypeOK
    <3>2. CASE AnswerLocally(c)
      <4>1. Respond(<<c, read[c] + 1>>, Local, Item(NextItem(c)) = "quit") /\ read[c] + 1 \in Nat
        BY <3>2 DEF AnswerLocally, NextItem, TypeOK
      <4> QED
        BY <4>1, RespondEffect
    <3> QED
      BY <1>3, <3>1, <3>2
  <2>3. \A d \in Clients : d # c => read'[d] = read[d]
    BY <1>3, ReadCommandEffect, SMTT(30) DEF ReadFails, SkipBlank, AnswerLocally, TypeOK
  <2> QED
    BY <2>1, <2>2, <2>3, <1>d DEF TypeOK, Waiting
<1>4. ASSUME NEW c \in Clients, DialFails(c) PROVE ConnInv'
  <2>1. \E h \in {"read", "closed"} : hpc' = [hpc EXCEPT ![c] = h]
    BY <1>4, CurrentEffect DEF DialFails
  <2> QED
    BY <1>4, <2>1, <1>d DEF DialFails, TypeOK, Waiting
<1>5. CASE Sigterm \/ UNCHANGED vars
  BY <1>5, <1>d DEF Sigterm, vars, backendVars
<1>6. ASSUME NEW c \in Clients, ReadReply(c) PROVE ConnInv'
  <2>1. \E h \in {"read", "closed"} : hpc' = [hpc EXCEPT ![c] = h]
    BY <1>6, CurrentEffect DEF ReadReply
  <2> QED
    BY <1>6, <2>1, PutKeepsConns DEF ReadReply, AnswerInv, clientVars
<1>7. ASSUME NEW c \in Clients, ReuseFails(c) PROVE ConnInv'
  BY <1>7, CloseKeepsConns DEF ReuseFails, AnswerInv, clientVars, Waiting
<1>8. ASSUME NEW c \in Clients, FreshFails(c) PROVE ConnInv'
  <2>1. \E h \in {"read", "closed"} : hpc' = [hpc EXCEPT ![c] = h]
    BY <1>8, CurrentEffect DEF FreshFails
  <2> QED
    BY <1>8, <2>1, CloseKeepsConns DEF FreshFails, AnswerInv, clientVars, Waiting
<1>9. ASSUME NEW c \in Clients, Forward(c) PROVE ConnInv'
  <2>1. /\ hpc[c] = "read" /\ held[c] = NoConn /\ NextItem(c) \in Cmds
        /\ read' = [read EXCEPT ![c] = read[c] + 1]
    BY <1>9, ReadCommandEffect DEF Forward
  <2>m. PICK m \in Cmds : m = NextItem(c)
    BY <2>1
  <2>s. PICK s \in Shards : s = PoolOf(m)
    BY <1>9, <2>m DEF Forward, PoolOf
  <2>2. Item(m) \in Keys /\ UNCHANGED <<sent, link, addr, rep, runs>>
    BY <1>9, <2>m DEF Forward, clientVars
  <2>3. CASE hpc' = [hpc EXCEPT ![c] = "dial"] /\ UNCHANGED <<idle, held, req>>
    BY <1>d, <2>1, <2>2, <2>3 DEF backendVars, TypeOK, Waiting
  <2>4. ASSUME NEW k \in idle[s], idle' = [idle EXCEPT ![s] = @ \ {k}],
               held' = [held EXCEPT ![c] = k], hpc' = [hpc EXCEPT ![c] = "reused"],
               req' = IF link[k] = "open" THEN [req EXCEPT ![k] = Append(@, m)] ELSE req
        PROVE  ConnInv'
    <3>1. /\ k \in Conns /\ addr[k] = s /\ link[k] \in {"open", "gone"}
          /\ req[k] = <<>> /\ rep[k] = <<>>
          /\ \A d \in Clients : held[d] # k
      BY <2>2, <2>4 DEF ConnInv, PoolIsClean, TypeOK
    <3>2. /\ req'[k] = IF link[k] = "open" THEN <<m>> ELSE <<>>
          /\ \A j \in Conns : j # k => req'[j] = req[j]
      BY <2>4, <3>1 DEF TypeOK
    <3>3. /\ idle'[s] = idle[s] \ {k} /\ \A p \in Shards : p # s => idle'[p] = idle[p]
          /\ \A p \in Shards : k \notin idle'[p] /\ idle'[p] \subseteq idle[p]
      BY <2>2, <2>4, <3>1 DEF ConnInv, PoolIsClean, TypeOK
    <3>4. Current(c)' = m /\ PoolOf(Current(c))' = s /\ Forwarded(m)'
      <4>1. Current(c)' = m /\ m[1] = c /\ m[2] = read[c] + 1 /\ read[c] \in Nat
        BY <2>1, <2>m DEF Current, NextItem, TypeOK
      <4>2. read'[c] = read[c] + 1
        BY <2>1 DEF TypeOK
      <4>3. Item(m)' = Item(m)
        BY <2>2 DEF Item
      <4>4. Forwarded(m)'
        BY <2>2, <4>1, <4>2, <4>3 DEF Forwarded
      <4>5. PoolOf(Current(c))' = ShardOf[sent'[c][read'[c]]]
        BY DEF PoolOf, Item, Current
      <4>6. s = ShardOf[sent[c][read[c] + 1]]
        BY <2>s, <4>1 DEF PoolOf, Item
      <4> QED
        BY <2>2, <4>1, <4>2, <4>4, <4>5, <4>6
    <3>5. PoolIsClean'
      <4>1. \A p \in Shards : Cardinality(idle'[p]) <= MaxIdle
        <5>1. IsFiniteSet(idle[s]) /\ Cardinality(idle[s]) \in Nat
          BY <2>2, FinitePools DEF TypeOK
        <5>2. IsFiniteSet(idle'[s]) /\ Cardinality(idle'[s]) = Cardinality(idle[s]) - 1
          <6>1. /\ IsFiniteSet(idle[s] \ {k})
                /\ Cardinality(idle[s] \ {k}) = Cardinality(idle[s]) - 1
            BY <2>4, <5>1, FS_RemoveElement
          <6> QED
            BY <3>3, <6>1
        <5>3. Cardinality(idle[s]) <= MaxIdle
          BY DEF ConnInv, PoolIsClean
        <5>4. Cardinality(idle'[s]) <= MaxIdle
          BY <5>1, <5>2, <5>3
        <5> QED
          BY <3>3, <5>4 DEF ConnInv, PoolIsClean
      <4>2. \A p \in Shards : \A j \in idle'[p] :
               addr'[j] = p /\ link'[j] \in {"open", "gone"} /\ req'[j] = <<>> /\ rep'[j] = <<>>
        BY <2>2, <3>2, <3>3 DEF ConnInv, PoolIsClean, TypeOK
      <4>3. \A d, e \in Clients : d # e /\ held'[d] = held'[e] => held'[d] = NoConn
        BY <2>4, <3>1 DEF ConnInv, PoolIsClean, TypeOK
      <4>4. \A d \in Clients, p \in Shards : held'[d] \notin idle'[p]
        BY <2>4, <3>3 DEF ConnInv, PoolIsClean, TypeOK
      <4> QED
        BY <4>1, <4>2, <4>3, <4>4 DEF PoolIsClean
    <3>6. OneAtATime'
      <4> SUFFICES ASSUME NEW j \in Conns
                   PROVE  /\ req'[j] = <<>> \/ \E n \in Cmds : Forwarded(n)' /\ req'[j] = <<n>>
                          /\ \/ rep'[j] = <<>>
                             \/ req'[j] = <<>> /\ \E n \in Cmds : rep'[j] = <<n>> /\ runs'[n] > 0
        BY DEF OneAtATime
      <4>1. CASE j = k
        BY <2>1, <2>2, <3>1, <3>2, <3>4, <4>1
      <4>2. CASE j # k
        BY <1>a, <2>2, <3>2, <4>2 DEF ConnInv, OneAtATime
      <4> QED
        BY <4>1, <4>2
    <3>7. GivenUp'
      BY <2>2, <3>1, <3>2 DEF ConnInv, GivenUp
    <3>8. HeldIsOwn'
      <4> SUFFICES ASSUME NEW d \in Clients, hpc'[d] \in Waiting
                   PROVE  /\ link'[held'[d]] \in {"open", "gone"}
                          /\ addr'[held'[d]] = PoolOf(Current(d))'
                          /\ req'[held'[d]] \in {<<>>, <<Current(d)'>>}
                          /\ rep'[held'[d]] \in {<<>>, <<Current(d)'>>}
        BY DEF HeldIsOwn
      <4>1. CASE d = c
        BY <2>2, <2>4, <3>1, <3>2, <3>4, <4>1 DEF TypeOK
      <4>2. CASE d # c
        <5>1. hpc[d] \in Waiting /\ read'[d] = read[d] /\ held'[d] = held[d] /\ held[d] # k
          BY <2>1, <2>4, <3>1, <4>2 DEF TypeOK
        <5>2. held[d] \in Conns /\ req'[held[d]] = req[held[d]]
          BY <3>2, <5>1 DEF TypeOK
        <5> QED
          BY <1>c, <2>2, <5>1, <5>2 DEF ConnInv, HeldIsOwn
      <4> QED
        BY <4>1, <4>2
    <3> QED
      BY <3>5, <3>6, <3>7, <3>8 DEF ConnInv
  <2> QED
    BY <1>9, <2>3, <2>4, <2>m, <2>s DEF Forward
<1>10. ASSUME NEW c \in Clients, Dial(c) PROVE ConnInv'
  <2>k. PICK k \in Conns : k = CHOOSE j \in Conns : link[j] = "free"
    BY <1>10 DEF Dial
  <2>1. link[k] = "free"
    BY <1>10, <2>k DEF Dial
  <2>m. PICK m \in Cmds : m = Current(c)
    BY <1>10, CurrentIsCmd DEF Dial, AnswerInv, CurrentIsKeyed, Forwarding
  <2>2. /\ link' = [link EXCEPT ![k] = "open"]
        /\ addr' = [addr EXCEPT ![k] = PoolOf(m)]
        /\ req' = [req EXCEPT ![k] = <<m>>]
        /\ held' = [held EXCEPT ![c] = k]
        /\ hpc' = [hpc EXCEPT ![c] = "fresh"]
        /\ UNCHANGED <<sent, read, idle, rep, runs>> /\ hpc[c] = "dial"
    BY <1>10, <2>k, <2>m DEF Dial, clientVars
  <2>3. /\ \A s \in Shards : k \notin idle[s]
        /\ \A d \in Clients : held[d] # k
        /\ rep[k] = <<>>
    BY <2>1, ZenonT(60) DEF ConnInv, PoolIsClean, HeldIsOwn, GivenUp, TypeOK
  <2>4. PoolOf(m) \in Shards /\ Forwarded(m)'
    <3>1. Item(m) \in Keys /\ m[1] = c /\ m[2] = read[c] /\ read[c] \in Nat
      BY <2>2, <2>m, CurrentIsCmd DEF AnswerInv, CurrentIsKeyed, Forwarding, Current
    <3> QED
      BY <2>2, <3>1 DEF PoolOf, Forwarded, Item
  <2>5. /\ link'[k] = "open" /\ addr'[k] = PoolOf(m) /\ req'[k] = <<m>> /\ rep'[k] = <<>>
        /\ \A j \in Conns : j # k => /\ link'[j] = link[j] /\ addr'[j] = addr[j]
                                     /\ req'[j] = req[j] /\ rep'[j] = rep[j]
    BY <2>1, <2>2, <2>3 DEF TypeOK
  <2>6. PoolIsClean'
    BY <2>1, <2>2, <2>3, <2>5, SMTT(30) DEF ConnInv, PoolIsClean, TypeOK
  <2>7. OneAtATime'
    <3> SUFFICES ASSUME NEW j \in Conns
                 PROVE  /\ req'[j] = <<>> \/ \E n \in Cmds : Forwarded(n)' /\ req'[j] = <<n>>
                        /\ \/ rep'[j] = <<>>
                           \/ req'[j] = <<>> /\ \E n \in Cmds : rep'[j] = <<n>> /\ runs'[n] > 0
      BY DEF OneAtATime
    <3>1. CASE j = k
      BY <2>4, <2>5, <3>1
    <3>2. CASE j # k
      BY <1>a, <2>2, <2>5, <3>2 DEF ConnInv, OneAtATime
    <3> QED
      BY <3>1, <3>2
  <2>8. GivenUp'
    BY <2>5 DEF ConnInv, GivenUp
  <2>9. HeldIsOwn'
    <3> SUFFICES ASSUME NEW d \in Clients, hpc'[d] \in Waiting
                 PROVE  /\ link'[held'[d]] \in {"open", "gone"}
                        /\ addr'[held'[d]] = PoolOf(Current(d))'
                        /\ req'[held'[d]] \in {<<>>, <<Current(d)'>>}
                        /\ rep'[held'[d]] \in {<<>>, <<Current(d)'>>}
      BY DEF HeldIsOwn
    <3>1. CASE d = c
      <4>1. held'[c] = k /\ Current(c)' = m /\ PoolOf(Current(c))' = PoolOf(m)
        BY <2>2, <2>m DEF TypeOK, Current, PoolOf, Item
      <4> QED
        BY <2>5, <3>1, <4>1
    <3>2. CASE d # c
      <4>1. hpc[d] \in Waiting /\ read'[d] = read[d] /\ held'[d] = held[d] /\ held[d] # k
        BY <2>2, <2>3, <3>2 DEF TypeOK
      <4>2. held[d] \in Conns
        BY <4>1 DEF TypeOK
      <4> QED
        BY <1>c, <2>5, <4>1, <4>2 DEF ConnInv, HeldIsOwn
    <3> QED
      BY <3>1, <3>2
  <2> QED
    BY <2>6, <2>7, <2>8, <2>9 DEF ConnInv
\* A step on one connection, of its shard or of the network: what changes of the
\* connection keeps it in order, and nothing else changes.
<1>e. ASSUME NEW k \in Conns,
             UNCHANGED <<sent, read, hpc, held, idle, addr>>,
             \A j \in Conns : j # k => /\ link'[j] = link[j] /\ req'[j] = req[j]
                                      /\ rep'[j] = rep[j],
             req[k] = <<>> /\ rep[k] = <<>> => req'[k] = <<>> /\ rep'[k] = <<>>,
             link[k] \in {"open", "gone"} => link'[k] \in {"open", "gone"},
             link'[k] = "free" => req'[k] = <<>> /\ rep'[k] = <<>>,
             link'[k] = "closed" => rep'[k] = <<>>,
             link'[k] = "gone" => req'[k] = <<>>,
             req'[k] \in {<<>>, req[k]},
             \/ rep'[k] \in {<<>>, rep[k]}
             \/ \E m \in Cmds : req[k] = <<m>> /\ rep'[k] = <<m>> /\ runs'[m] > 0,
             rep'[k] = <<>> \/ req'[k] = <<>>
      PROVE  ConnInv'
  <2>1. PoolIsClean'
    BY <1>e DEF ConnInv, PoolIsClean, TypeOK
  <2>2. OneAtATime'
    <3> SUFFICES ASSUME NEW j \in Conns
                 PROVE  /\ req'[j] = <<>> \/ \E n \in Cmds : Forwarded(n)' /\ req'[j] = <<n>>
                        /\ \/ rep'[j] = <<>>
                           \/ req'[j] = <<>> /\ \E n \in Cmds : rep'[j] = <<n>> /\ runs'[n] > 0
      BY DEF OneAtATime
    <3>1. /\ req[j] = <<>> \/ \E n \in Cmds : Forwarded(n)' /\ req[j] = <<n>>
          /\ \/ rep[j] = <<>>
             \/ req[j] = <<>> /\ \E n \in Cmds : rep[j] = <<n>> /\ runs'[n] > 0
      BY <1>a, <1>b DEF ConnInv, OneAtATime
    <3>2. CASE j = k
      BY <1>e, <3>1, <3>2
    <3>3. CASE j # k
      BY <1>e, <3>1, <3>3
    <3> QED
      BY <3>2, <3>3
  <2>3. GivenUp'
    BY <1>e DEF ConnInv, GivenUp
  <2>4. HeldIsOwn'
    <3> SUFFICES ASSUME NEW d \in Clients, hpc'[d] \in Waiting
                 PROVE  /\ link'[held[d]] \in {"open", "gone"}
                        /\ addr[held[d]] = PoolOf(Current(d))'
                        /\ req'[held[d]] \in {<<>>, <<Current(d)'>>}
                        /\ rep'[held[d]] \in {<<>>, <<Current(d)'>>}
      BY <1>e DEF HeldIsOwn
    <3>1. hpc[d] \in Waiting /\ read'[d] = read[d] /\ held[d] \in Conns
      BY <1>e DEF TypeOK
    <3>2. Current(d)' = Current(d) /\ PoolOf(Current(d))' = PoolOf(Current(d))
      BY <1>c, <3>1
    <3>3. /\ link[held[d]] \in {"open", "gone"} /\ addr[held[d]] = PoolOf(Current(d))
          /\ req[held[d]] \in {<<>>, <<Current(d)>>}
          /\ rep[held[d]] \in {<<>>, <<Current(d)>>}
      BY <3>1 DEF ConnInv, HeldIsOwn
    <3>4. CASE held[d] # k
      BY <1>e, <3>1, <3>2, <3>3, <3>4
    <3>5. CASE held[d] = k
      BY <1>e, <3>1, <3>2, <3>3, <3>5
    <3> QED
      BY <3>4, <3>5
  <2> QED
    BY <2>1, <2>2, <2>3, <2>4 DEF ConnInv
<1>11. ASSUME NEW k \in Conns, Run(k) PROVE ConnInv'
  <2>1. PICK m \in Cmds : req[k] = <<m>>
    BY <1>11 DEF Run, ConnInv, OneAtATime
  <2>2. rep[k] = <<>> /\ Head(req[k]) = m /\ Tail(req[k]) = <<>> /\ Len(req[k]) = 1
    BY <2>1 DEF ConnInv, OneAtATime
  <2>3. req' = [req EXCEPT ![k] = <<>>] /\ runs' = [runs EXCEPT ![m] = @ + 1]
    BY <1>11, <2>2 DEF Run
  <2>4. runs'[m] > 0 /\ req'[k] = <<>> /\ UNCHANGED <<sent, read, hpc, held, idle, addr>>
    BY <1>11, <2>3 DEF Run, TypeOK, clientVars
  <2>5. CASE link[k] = "open"
    <3>1. rep' = [rep EXCEPT ![k] = <<m>>] /\ link' = link
      BY <1>11, <2>2, <2>5 DEF Run
    <3>2. \A j \in Conns : j # k => link'[j] = link[j] /\ req'[j] = req[j] /\ rep'[j] = rep[j]
      BY <2>3, <3>1 DEF TypeOK
    <3>3. rep'[k] = <<m>> /\ link'[k] = "open"
      BY <2>5, <3>1 DEF TypeOK
    <3> QED
      BY <1>e, <2>1, <2>4, <3>2, <3>3
  <2>6. CASE link[k] = "closed"
    <3>1. rep' = rep /\ link' = [link EXCEPT ![k] = "free"]
      BY <1>11, <2>2, <2>6 DEF Run
    <3>2. \A j \in Conns : j # k => link'[j] = link[j] /\ req'[j] = req[j] /\ rep'[j] = rep[j]
      BY <2>3, <3>1 DEF TypeOK
    <3>3. rep'[k] = <<>> /\ link'[k] = "free"
      BY <2>2, <3>1 DEF TypeOK
    <3> QED
      BY <1>e, <2>1, <2>4, <2>6, <3>2, <3>3
  <2> QED
    BY <1>11, <2>5, <2>6 DEF Run
<1>12. ASSUME NEW k \in Conns, ShardCloses(k) PROVE ConnInv'
  <2>1. /\ link[k] = "open" /\ link' = [link EXCEPT ![k] = "gone"]
        /\ req' = [req EXCEPT ![k] = <<>>]
        /\ rep' = rep \/ rep' = [rep EXCEPT ![k] = <<>>]
        /\ UNCHANGED <<sent, read, hpc, held, idle, addr>>
    BY <1>12 DEF ShardCloses, clientVars
  <2>2. /\ link'[k] = "gone" /\ req'[k] = <<>> /\ rep'[k] \in {<<>>, rep[k]}
        /\ \A j \in Conns : j # k => link'[j] = link[j] /\ req'[j] = req[j] /\ rep'[j] = rep[j]
    BY <2>1 DEF TypeOK
  <2> QED
    BY <1>e, <2>1, <2>2
<1>13. ASSUME NEW k \in Conns, BytesLost(k) PROVE ConnInv'
  <2>1. /\ link[k] = "closed" /\ link' = [link EXCEPT ![k] = "free"]
        /\ req' = [req EXCEPT ![k] = <<>>] /\ rep' = rep
        /\ UNCHANGED <<sent, read, hpc, held, idle, addr>>
    BY <1>13 DEF BytesLost, clientVars
  <2>2. /\ link'[k] = "free" /\ req'[k] = <<>> /\ rep'[k] = <<>>
        /\ \A j \in Conns : j # k => link'[j] = link[j] /\ req'[j] = req[j] /\ rep'[j] = rep[j]
    BY <2>1 DEF TypeOK, ConnInv, GivenUp
  <2> QED
    BY <1>e, <2>1, <2>2
<1>14. CASE Stop
  <2>1. PoolIsClean'
    <3>1. \A s \in Shards : idle'[s] = {} /\ Cardinality(idle'[s]) = 0
      BY <1>14, FS_EmptySet DEF Stop
    <3> QED
      BY <1>14, <3>1 DEF Stop, PoolIsClean
  <2>2. OneAtATime'
    BY <1>14, <1>a DEF Stop, ConnInv, OneAtATime
  <2>3. GivenUp'
    BY <1>14 DEF Stop, GivenUp
  <2>4. HeldIsOwn'
    BY <1>14 DEF Stop, HeldIsOwn, Waiting
  <2> QED
    BY <2>1, <2>2, <2>3, <2>4 DEF ConnInv
<1> QED
  BY <1>1, <1>2, <1>3, <1>4, <1>5, <1>6, <1>7, <1>8, <1>9, <1>10, <1>11, <1>12, <1>13,
     <1>14
  DEF Next, HandlerStep

-----------------------------------------------------------------------------
(* Runs.                                                                    *)

\* How many connections a command waits on, when one is added or taken away.
LEMMA PendingCount ==
  ASSUME NEW S \in SUBSET Conns, NEW T \in SUBSET Conns, NEW k
  PROVE  /\ Cardinality(S) \in Nat
         /\ T \subseteq S => Cardinality(T) <= Cardinality(S)
         /\ T \subseteq S \cup {k} => Cardinality(T) <= Cardinality(S) + 1
         /\ T \subseteq S \ {k} /\ k \in S => Cardinality(T) + 1 <= Cardinality(S)
<1>1. /\ IsFiniteSet(S) /\ Cardinality(S) \in Nat
      /\ IsFiniteSet(T) /\ Cardinality(T) \in Nat
  BY FinitePools
<1>2. T \subseteq S => Cardinality(T) <= Cardinality(S)
  BY <1>1, FS_Subset
<1>3. ASSUME T \subseteq S \cup {k} PROVE Cardinality(T) <= Cardinality(S) + 1
  <2>1. /\ IsFiniteSet(S \cup {k})
        /\ Cardinality(S \cup {k}) = Cardinality(S) \/ Cardinality(S \cup {k}) = Cardinality(S) + 1
    BY <1>1, FS_AddElement
  <2>2. Cardinality(T) <= Cardinality(S \cup {k})
    BY <1>3, <2>1, FS_Subset
  <2> QED
    BY <1>1, <2>1, <2>2
<1>4. ASSUME T \subseteq S \ {k}, k \in S PROVE Cardinality(T) + 1 <= Cardinality(S)
  <2>1. IsFiniteSet(S \ {k}) /\ Cardinality(S \ {k}) = Cardinality(S) - 1
    BY <1>1, <1>4, FS_RemoveElement
  <2>2. Cardinality(T) <= Cardinality(S \ {k})
    BY <1>4, <2>1, FS_Subset
  <2> QED
    BY <1>1, <2>1, <2>2
<1> QED
  BY <1>1, <1>2, <1>3, <1>4

\* The budget of a command is never reduced.
LEMMA BudgetGrows ==
  ASSUME TypeOK, [Next]_vars, NEW m \in Cmds
  PROVE  Budget(m) \in 0 .. 2 /\ Budget(m)' \in 0 .. 2 /\ Budget(m)' >= Budget(m)
<1>1. Forwarded(m) => Forwarded(m)'
  <2> SUFFICES ASSUME Forwarded(m) PROVE Forwarded(m)'
    OBVIOUS
  <2>1. m[2] <= read'[m[1]] /\ Item(m)' = Item(m)
    BY StreamStep DEF Forwarded
  <2> QED
    BY <2>1 DEF Forwarded
<1>2. Forwarded(m) /\ m = Current(m[1])' /\ hpc'[m[1]] \in {"reused", "dial"}
        => m = Current(m[1]) /\ hpc[m[1]] \in {"reused", "dial"}
  <2> DEFINE c == m[1]
  <2>0. c \in Clients /\ m[2] \in Nat /\ m[2] > 0 /\ read[c] \in Nat
    BY CmdParts DEF TypeOK
  <2> SUFFICES ASSUME Forwarded(m), m = Current(c)', hpc'[c] \in {"reused", "dial"}
               PROVE  m = Current(c) /\ hpc[c] \in {"reused", "dial"}
    OBVIOUS
  <2>1. m[2] <= read[c] /\ m[2] = read'[c] /\ m = <<c, read'[c]>>
    BY DEF Forwarded, Current
  <2> HIDE DEF c
  <2>2. ASSUME read'[c] = read[c], hpc[c] \in {"reused", "dial"}
        PROVE  m = Current(c) /\ hpc[c] \in {"reused", "dial"}
    BY <2>1, <2>2 DEF Current
  <2>3. ASSUME NEW d \in Clients, ReadCommand(d) PROVE c # d /\ read'[c] = read[c]
    <3>1. read' = [read EXCEPT ![d] = read[d] + 1]
      BY <2>3, ReadCommandEffect
    <3> QED
      BY <2>0, <2>1, <3>1 DEF TypeOK
  <2>4. ASSUME NEW d \in Clients, Connect(d) \/ Send(d) \/ ClientCloses(d)
        PROVE  read'[c] = read[c] /\ hpc[c] \in {"reused", "dial"}
    BY <2>0, <2>4 DEF Connect, Send, ClientCloses, TypeOK
  <2>5. ASSUME NEW d \in Clients, ReadFails(d) \/ SkipBlank(d)
        PROVE  read'[c] = read[c] /\ hpc[c] \in {"reused", "dial"}
    BY <2>0, <2>3, <2>5 DEF ReadFails, SkipBlank, TypeOK
  <2>6. ASSUME NEW d \in Clients, AnswerLocally(d) \/ Forward(d)
        PROVE  read'[c] = read[c] /\ hpc[c] \in {"reused", "dial"}
    <3>1. c # d /\ read'[c] = read[c]
      BY <2>3, <2>6 DEF AnswerLocally, Forward
    <3>2. CASE Forward(d)
      BY <2>0, <3>1, <3>2 DEF Forward, TypeOK
    <3>3. CASE AnswerLocally(d)
      <4>1. Respond(<<d, read[d] + 1>>, Local, Item(NextItem(d)) = "quit") /\ read[d] + 1 \in Nat
        BY <3>3 DEF AnswerLocally, NextItem, TypeOK
      <4>2. \E h \in {"read", "closed"} : hpc' = [hpc EXCEPT ![d] = h]
        BY <4>1, RespondEffect
      <4> QED
        BY <2>0, <3>1, <4>2 DEF TypeOK
    <3> QED
      BY <2>6, <3>2, <3>3
  <2>7. ASSUME NEW d \in Clients, ReadReply(d) \/ DialFails(d) \/ FreshFails(d)
        PROVE  read'[c] = read[c] /\ hpc[c] \in {"reused", "dial"}
    <3>1. \E h \in {"read", "closed"} : hpc' = [hpc EXCEPT ![d] = h]
      BY <2>7, CurrentEffect DEF ReadReply, DialFails, FreshFails
    <3> QED
      BY <2>0, <2>7, <3>1 DEF ReadReply, DialFails, FreshFails, TypeOK
  <2>8. ASSUME NEW d \in Clients, ReuseFails(d) \/ Dial(d)
        PROVE  read'[c] = read[c] /\ hpc[c] \in {"reused", "dial"}
    BY <2>0, <2>8 DEF ReuseFails, Dial, TypeOK
  <2>9. ASSUME NEW k \in Conns, Run(k) \/ ShardCloses(k) \/ BytesLost(k)
        PROVE  read'[c] = read[c] /\ hpc[c] \in {"reused", "dial"}
    BY <2>9 DEF Run, ShardCloses, BytesLost
  <2>10. ASSUME Sigterm \/ UNCHANGED vars
         PROVE  read'[c] = read[c] /\ hpc[c] \in {"reused", "dial"}
    BY <2>10 DEF Sigterm, vars
  <2>11. ASSUME Stop PROVE read'[c] = read[c] /\ hpc[c] \in {"reused", "dial"}
    BY <2>0, <2>11 DEF Stop, TypeOK
  <2>12. read'[c] = read[c] /\ hpc[c] \in {"reused", "dial"}
    BY <2>4, <2>5, <2>6, <2>7, <2>8, <2>9, <2>10, <2>11 DEF Next, HandlerStep
  <2> QED
    BY <2>2, <2>12
<1> QED
  BY <1>1, <1>2 DEF Budget

\* Every step preserves RunsTwice.
LEMMA BudgetStep ==
  ASSUME TypeOK, AnswerInv, ConnInv, RunsTwice, [Next]_vars
  PROVE  RunsTwice'
<1> SUFFICES ASSUME NEW m \in Cmds
             PROVE  runs'[m] + Cardinality(Pending(m)') <= Budget(m)'
  BY DEF RunsTwice
<1> DEFINE Goal == runs'[m] + Cardinality(Pending(m)') <= Budget(m)'
<1>1. Budget(m) \in 0 .. 2 /\ Budget(m)' \in 0 .. 2 /\ Budget(m)' >= Budget(m)
  BY BudgetGrows
<1>2. /\ runs[m] \in Nat /\ runs'[m] \in Nat
      /\ runs[m] + Cardinality(Pending(m)) <= Budget(m)
  BY RunsStep DEF TypeOK, RunsTwice
<1>3. Pending(m) \in SUBSET Conns /\ Pending(m)' \in SUBSET Conns
  BY DEF Pending
<1>c. Cardinality(Pending(m)) \in Nat /\ Cardinality(Pending(m)') \in Nat
  BY <1>3, FinitePools
<1>d. <<>> # <<m>>
  <2>1. Len(<<>>) = 0 /\ Len(<<m>>) = 1
    OBVIOUS
  <2> QED
    BY <2>1
\* Nothing new is written for m, and m does not run.
<1>a. ASSUME runs'[m] = runs[m], Pending(m)' \subseteq Pending(m) PROVE Goal
  <2>1. Cardinality(Pending(m)') <= Cardinality(Pending(m))
    BY <1>a, <1>3, PendingCount
  <2> QED
    BY <1>a, <1>1, <1>2, <1>c, <2>1
\* m is written on connection k, and its budget grows with it.
<1>b. ASSUME NEW k \in Conns, runs'[m] = runs[m], Pending(m)' \subseteq Pending(m) \cup {k},
             Budget(m)' >= Budget(m) + 1
      PROVE  Goal
  <2>1. Cardinality(Pending(m)') <= Cardinality(Pending(m)) + 1
    BY <1>b, <1>3, PendingCount
  <2> QED
    BY <1>b, <1>1, <1>2, <1>c, <2>1
<1> HIDE DEF Goal
<1>4. ASSUME NEW c \in Clients, Connect(c) \/ Send(c) \/ ClientCloses(c) PROVE Goal
  BY <1>4, <1>a DEF Connect, Send, ClientCloses, backendVars, Pending
<1>5. ASSUME NEW c \in Clients,
             \/ ReadFails(c) \/ SkipBlank(c) \/ AnswerLocally(c) \/ ReadReply(c)
             \/ ReuseFails(c) \/ DialFails(c) \/ FreshFails(c)
      PROVE  Goal
  <2>1. UNCHANGED <<req, runs>>
    BY <1>5 DEF ReadFails, SkipBlank, AnswerLocally, ReadReply, ReuseFails, DialFails,
                FreshFails, backendVars
  <2> QED
    BY <2>1, <1>a DEF Pending
<1>6. ASSUME NEW c \in Clients, Forward(c) PROVE Goal
  <2>1. /\ NextItem(c) \in Cmds /\ hpc[c] = "read" /\ UNCHANGED <<runs, sent>>
        /\ read' = [read EXCEPT ![c] = read[c] + 1] /\ Item(NextItem(c)) \in Keys
    BY <1>6, ReadCommandEffect DEF Forward, clientVars
  <2>2. CASE UNCHANGED req
    BY <2>1, <2>2, <1>a DEF Pending
  <2>3. ASSUME NEW k \in idle[PoolOf(NextItem(c))], hpc' = [hpc EXCEPT ![c] = "reused"],
               req' = [req EXCEPT ![k] = Append(@, NextItem(c))]
        PROVE  Goal
    <3>1. k \in Conns /\ req[k] = <<>>
      BY <2>1, <2>3 DEF ConnInv, PoolIsClean, PoolOf, TypeOK
    <3>2. req'[k] = <<NextItem(c)>> /\ \A j \in Conns : j # k => req'[j] = req[j]
      BY <2>1, <2>3, <3>1 DEF TypeOK
    <3>3. CASE m # NextItem(c)
      <4>1. Pending(m)' \subseteq Pending(m)
        BY <3>1, <3>2, <3>3 DEF Pending
      <4> QED
        BY <2>1, <4>1, <1>a
    <3>4. CASE m = NextItem(c)
      <4>1. Pending(m)' \subseteq Pending(m) \cup {k}
        BY <3>2 DEF Pending
      <4>2. m[1] = c /\ m[2] = read[c] + 1 /\ read[c] \in Nat
        BY <3>4 DEF NextItem, TypeOK
      <4>3. Budget(m) = 0
        BY <4>2 DEF Budget, Forwarded
      <4>4. read'[c] = read[c] + 1 /\ hpc'[c] = "reused" /\ Item(m)' = Item(m)
        BY <2>1, <2>3 DEF TypeOK, Item
      <4>5. Forwarded(m)' /\ m = Current(c)'
        BY <2>1, <3>4, <4>2, <4>4 DEF Forwarded, Current, NextItem
      <4>6. Budget(m)' = 1
        BY <4>2, <4>4, <4>5 DEF Budget
      <4> QED
        BY <2>1, <3>1, <4>1, <4>3, <4>6, <1>b
    <3> QED
      BY <3>3, <3>4
  <2> QED
    BY <1>6, <2>2, <2>3 DEF Forward
<1>7. ASSUME NEW c \in Clients, Dial(c) PROVE Goal
  <2>k. PICK k \in Conns : k = CHOOSE j \in Conns : link[j] = "free"
    BY <1>7 DEF Dial
  <2>1. /\ req' = [req EXCEPT ![k] = <<Current(c)>>] /\ UNCHANGED <<runs, sent, read>>
        /\ hpc[c] = "dial" /\ hpc' = [hpc EXCEPT ![c] = "fresh"]
    BY <1>7, <2>k DEF Dial, clientVars
  <2>2. Current(c) \in Cmds /\ Item(Current(c)) \in Keys
    BY <2>1, CurrentIsCmd DEF AnswerInv, CurrentIsKeyed, Forwarding
  <2>3. req'[k] = <<Current(c)>> /\ \A j \in Conns : j # k => req'[j] = req[j]
    BY <2>1 DEF TypeOK
  <2>4. CASE m # Current(c)
    <3>1. Pending(m)' \subseteq Pending(m)
      BY <2>3, <2>4 DEF Pending
    <3> QED
      BY <2>1, <3>1, <1>a
  <2>5. CASE m = Current(c)
    <3>1. Pending(m)' \subseteq Pending(m) \cup {k}
      BY <2>3 DEF Pending
    <3>2. m[1] = c /\ m[2] = read[c] /\ read[c] \in Nat
      BY <2>5 DEF Current, TypeOK
    <3>3. Forwarded(m) /\ Forwarded(m)'
      BY <2>1, <2>2, <2>5, <3>2 DEF Forwarded, Item
    <3>4. Budget(m) = 1
      BY <2>1, <2>5, <3>2, <3>3 DEF Budget
    <3>5. hpc'[c] = "fresh"
      BY <2>1 DEF TypeOK
    <3>6. Budget(m)' = 2
      BY <3>2, <3>3, <3>5 DEF Budget
    <3> QED
      BY <2>1, <3>1, <3>4, <3>6, <1>b
  <2> QED
    BY <2>4, <2>5
<1>8. ASSUME NEW k \in Conns, Run(k) PROVE Goal
  <2>1. PICK n \in Cmds : req[k] = <<n>>
    BY <1>8 DEF Run, ConnInv, OneAtATime
  <2>2. Head(req[k]) = n /\ Tail(req[k]) = <<>>
    BY <2>1
  <2>3. req' = [req EXCEPT ![k] = <<>>] /\ runs' = [runs EXCEPT ![n] = runs[n] + 1]
    BY <1>8, <2>2 DEF Run
  <2>4. req'[k] = <<>> /\ \A j \in Conns : j # k => req'[j] = req[j]
    BY <2>3 DEF TypeOK
  <2>5. CASE m # n
    <3>1. runs'[m] = runs[m] /\ Pending(m)' \subseteq Pending(m)
      BY <2>3, <2>4, <2>5 DEF Pending, TypeOK
    <3> QED
      BY <3>1, <1>a
  <2>6. CASE m = n
    <3>1. runs'[m] = runs[m] + 1
      BY <2>3, <2>6 DEF TypeOK
    <3>2. Pending(m)' \subseteq Pending(m) \ {k} /\ k \in Pending(m)
      BY <1>d, <2>1, <2>4, <2>6 DEF Pending
    <3>3. Cardinality(Pending(m)') + 1 <= Cardinality(Pending(m))
      BY <1>3, <3>2, PendingCount
    <3> QED
      BY <1>1, <1>2, <1>c, <3>1, <3>3 DEF Goal
  <2> QED
    BY <2>5, <2>6
<1>9. ASSUME NEW k \in Conns, ShardCloses(k) \/ BytesLost(k) PROVE Goal
  <2>1. req' = [req EXCEPT ![k] = <<>>] /\ UNCHANGED runs
    BY <1>9 DEF ShardCloses, BytesLost
  <2>2. req'[k] = <<>> /\ \A j \in Conns : j # k => req'[j] = req[j]
    BY <2>1 DEF TypeOK
  <2>3. Pending(m)' \subseteq Pending(m)
    BY <1>d, <2>2 DEF Pending
  <2> QED
    BY <2>1, <2>3, <1>a
<1>10. ASSUME Sigterm \/ Stop \/ UNCHANGED vars PROVE Goal
  BY <1>10, <1>a DEF Sigterm, Stop, vars, backendVars, Pending
<1> QED
  BY <1>4, <1>5, <1>6, <1>7, <1>8, <1>9, <1>10 DEF Next, HandlerStep, Goal

-----------------------------------------------------------------------------
(* The theorems.                                                            *)

\* IInv, which the theorems below rest on, holds in every reachable state.
LEMMA Invariance == Spec => []IInv
<1>1. Init => IInv
  <2> SUFFICES ASSUME Init PROVE IInv
    OBVIOUS
  <2> USE DEF Init
  <2>1. TypeOK
    <3>1. (CHOOSE s \in Shards : TRUE) \in Shards
      OBVIOUS
    <3> QED
      BY <3>1 DEF TypeOK, HPCs, Waiting
  <2>2. ConnInv
    <3>1. PoolIsClean
      BY FS_EmptySet DEF PoolIsClean
    <3> QED
      BY <3>1 DEF ConnInv, OneAtATime, GivenUp, HeldIsOwn, Waiting
  <2>3. AnswerInv
    <3>1. \A m \in Cmds : m[1] \in Clients
      BY CmdParts
    <3> QED
      BY <3>1 DEF AnswerInv, NotStarted, CurrentIsKeyed, AnswerIsOwn, Forwarding, Waiting
  <2>4. NothingWithheld
    BY DEF NothingWithheld
  <2>5. RunsTwice
    <3> SUFFICES ASSUME NEW m \in Cmds PROVE runs[m] + Cardinality(Pending(m)) <= Budget(m)
      BY DEF RunsTwice
    <3>1. runs[m] = 0 /\ Pending(m) = {}
      BY DEF Pending
    <3>2. Cardinality(Pending(m)) = 0
      BY <3>1, FS_EmptySet
    <3>3. Budget(m) \in {0, 1, 2}
      BY DEF Budget
    <3> QED
      BY <3>1, <3>2, <3>3
  <2> QED
    BY <2>1, <2>2, <2>3, <2>4, <2>5 DEF IInv, ConnInv, AnswerInv
<1>2. IInv /\ [Next]_vars => IInv'
  BY TypeStep, AnswerStep, FlushStep, ConnStep, BudgetStep DEF IInv, ConnInv, AnswerInv
<1> QED
  BY <1>1, <1>2, PTL DEF Spec

\* TypeOK: the positions in a client's stream keep their order, and a handler
\* holds a backend connection exactly while it waits for a reply.
THEOREM TypeCorrect == Spec => []TypeOK
BY Invariance, PTL DEF IInv

\* PoolIsClean: whatever handlers, shards and timeouts do, a pooled connection is
\* nobody's, its own shard's, and has nothing left on it.
THEOREM PoolStaysClean == Spec => []PoolIsClean
BY Invariance, PTL DEF IInv

\* NothingWithheld: no reply stays in the handler's buffer while it waits for the
\* next command, except behind a blank one.
THEOREM NothingIsWithheld == Spec => []NothingWithheld
BY Invariance, PTL DEF IInv

\* No command is run a third time: the pooled connection it was written on may
\* still run it, and the fresh one of its retry, and that is all.
THEOREM NeverThreeRuns == Spec => [](\A m \in Cmds : runs[m] <= 2)
<1>1. IInv => \A m \in Cmds : runs[m] <= 2
  <2> SUFFICES ASSUME IInv, NEW m \in Cmds PROVE runs[m] <= 2
    OBVIOUS
  <2>1. Pending(m) \in SUBSET Conns
    BY DEF Pending
  <2>2. Cardinality(Pending(m)) \in Nat /\ runs[m] \in Nat
    BY <2>1, FinitePools DEF IInv, TypeOK
  <2>3. runs[m] + Cardinality(Pending(m)) <= Budget(m)
    BY DEF IInv, RunsTwice
  <2>4. Budget(m) \in {0, 1, 2}
    BY DEF Budget
  <2> QED
    BY <2>2, <2>3, <2>4
<1> QED
  BY <1>1, Invariance, PTL

-----------------------------------------------------------------------------
(* The refinement.                                                          *)

\* The state of CacheService that a state of the ambassador stands for.
Status == [m \in Cmds |-> CommandStatus(m)]

\* The status of a command, by its answer.
LEMMA StatusOf ==
  ASSUME AnswerIsOwn, NEW m \in Cmds, read[m[1]] \in Nat
  PROVE  /\ ~ Forwarded(m) => CommandStatus(m) = "new"
         /\ Forwarded(m) /\ answer[m] = NoAnswer => CommandStatus(m) = "pending"
         /\ Forwarded(m) /\ answer[m] = Unavailable => CommandStatus(m) = "failed"
         /\ Forwarded(m) /\ answer[m] = m => CommandStatus(m) = "answered"
<1>1. m[2] \in Nat
  BY CmdParts
<1>2. ~ Forwarded(m) <=> (m[2] > read[m[1]] \/ Item(m) \notin Keys)
  BY <1>1 DEF Forwarded
<1> QED
  BY <1>2, NoCommand, NoAnswerDistinct DEF CommandStatus

\* A command keeps its status when nobody answers it and nobody reads it.
LEMMA StatusKept ==
  ASSUME TypeOK, TypeOK', [Next]_vars, NEW m \in Cmds, answer'[m] = answer[m],
         m[2] <= read'[m[1]] => m[2] <= read[m[1]]
  PROVE  CommandStatus(m)' = CommandStatus(m)
<1>1. m[1] \in Clients /\ m[2] \in Nat /\ read[m[1]] \in Nat
  BY CmdParts DEF TypeOK
<1>2. m[2] <= read[m[1]] => m[2] <= read'[m[1]] /\ Item(m)' = Item(m)
  BY StreamStep
<1>3. CASE m[2] <= read[m[1]]
  <2>1. Item(m)' = Item(m) /\ ~ (m[2] > read[m[1]]) /\ ~ (m[2] > read'[m[1]])
    <3>1. m[2] <= read'[m[1]] /\ read'[m[1]] \in Nat
      BY <1>1, <1>2, <1>3 DEF TypeOK
    <3> QED
      BY <1>1, <1>2, <1>3, <3>1
  <2>2. CASE answer[m] = NoAnswer
    BY <2>1, <2>2, NoCommand, NoAnswerDistinct DEF CommandStatus
  <2>3. CASE answer[m] = Unavailable
    BY <2>1, <2>3, NoCommand, NoAnswerDistinct DEF CommandStatus
  <2>4. CASE answer[m] = m
    BY <2>1, <2>4, NoCommand, NoAnswerDistinct DEF CommandStatus
  <2>5. CASE answer[m] \notin {NoAnswer, Unavailable, m}
    BY <2>1, <2>5 DEF CommandStatus
  <2> QED
    BY <2>2, <2>3, <2>4, <2>5
<1>4. CASE ~ (m[2] <= read[m[1]])
  <2>1. ~ (m[2] <= read'[m[1]])
    BY <1>4
  <2>2. read'[m[1]] \in Nat
    BY <1>1 DEF TypeOK
  <2> QED
    BY <1>1, <1>4, <2>1, <2>2 DEF CommandStatus
<1> QED
  BY <1>3, <1>4

\* readCommand returns one item and no other.
LEMMA ReadKeeps ==
  ASSUME TypeOK, NEW c \in Clients, ReadCommand(c), NEW m \in Cmds, m # NextItem(c),
         m[2] <= read'[m[1]]
  PROVE  m[2] <= read[m[1]]
<1>1. /\ m[1] \in Clients /\ m[2] \in Nat /\ m = <<m[1], m[2]>>
      /\ read[c] \in Nat /\ read[m[1]] \in Nat
  BY CmdParts DEF TypeOK
<1>2. read' = [read EXCEPT ![c] = read[c] + 1]
  BY ReadCommandEffect
<1>3. CASE m[1] = c
  <2>1. m[2] # read[c] + 1
    BY <1>1, <1>3 DEF NextItem
  <2> QED
    BY <1>1, <1>2, <1>3, <2>1 DEF TypeOK
<1>4. CASE m[1] # c
  BY <1>1, <1>2, <1>4 DEF TypeOK
<1> QED
  BY <1>3, <1>4

\* One command's status changes.
LEMMA StatusChange ==
  ASSUME NEW m \in Cmds, NEW v, CommandStatus(m)' = v,
         \A n \in Cmds : n # m => CommandStatus(n)' = CommandStatus(n)
  PROVE  Status' = [Status EXCEPT ![m] = v] /\ Status[m] = CommandStatus(m)
BY DEF Status

\* ImplementsCache: every behaviour of the ambassador, its pools and its shards is
\* one of CacheService.
THEOREM Refinement == Spec => ImplementsCache
<1>1. Init => Service!Init
  <2> SUFFICES ASSUME Init PROVE Service!Init
    OBVIOUS
  <2>1. \A m \in Cmds : m[2] > read[m[1]]
    BY CmdParts DEF Init
  <2>2. \A m \in Cmds : CommandStatus(m) = "new"
    BY <2>1 DEF CommandStatus
  <2> QED
    BY <2>2 DEF Init, Service!Init
<1>2. IInv /\ IInv' /\ [Next]_vars => [Service!Next]_<<Status, runs>>
  <2> SUFFICES ASSUME IInv, IInv', [Next]_vars PROVE [Service!Next]_<<Status, runs>>
    OBVIOUS
  <2> DEFINE Goal == [Service!Next]_<<Status, runs>>
  <2>0. TypeOK /\ TypeOK' /\ AnswerInv /\ ConnInv /\ AnswerIsOwn /\ AnswerIsOwn'
    BY DEF IInv, AnswerInv, ConnInv
  <2>m. \A m \in Cmds : /\ m[1] \in Clients /\ m[2] \in Nat
                       /\ read[m[1]] \in Nat /\ read'[m[1]] \in Nat
    BY <2>0, CmdParts DEF TypeOK
  <2>a. ASSUME UNCHANGED <<answer, read, runs>> PROVE Goal
    <3>1. \A m \in Cmds : CommandStatus(m)' = CommandStatus(m)
      BY <2>0, <2>a, StatusKept
    <3> QED
      BY <2>a, <3>1 DEF Status
  \* An item is read that is no keyed command.
  <2>b. ASSUME NEW c \in Clients, ReadCommand(c), Item(NextItem(c)) \notin Keys,
               UNCHANGED <<sent, runs>>,
               \A m \in Cmds : m # NextItem(c) => answer'[m] = answer[m]
        PROVE  Goal
    <3>1. PICK n \in Cmds : n = NextItem(c)
      BY <2>0, <2>b, ReadCommandEffect
    <3>2. \A m \in Cmds : m # n => CommandStatus(m)' = CommandStatus(m)
      BY <2>0, <2>b, <3>1, ReadKeeps, StatusKept
    <3>3. Item(n) \notin Keys /\ Item(n)' \notin Keys
      BY <2>b, <3>1 DEF Item
    <3>4. CommandStatus(n) = "new" /\ CommandStatus(n)' = "new"
      BY <3>3 DEF CommandStatus
    <3>5. \A m \in Cmds : CommandStatus(m)' = CommandStatus(m)
      BY <3>2, <3>4
    <3> QED
      BY <2>b, <3>5 DEF Status
  \* The forwarded command m gets its reply, or an error.
  <2>c. ASSUME NEW c \in Clients, hpc[c] \in Forwarding, UNCHANGED <<sent, read, runs>>,
               NEW m \in Cmds, m = Current(c),
               \/ answer' = [answer EXCEPT ![m] = Unavailable]
               \/ answer' = [answer EXCEPT ![m] = m] /\ runs[m] > 0
        PROVE  Goal
    <3>1. \A n \in Cmds : n # m => CommandStatus(n)' = CommandStatus(n)
      <4>1. \A n \in Cmds : n # m => answer'[n] = answer[n]
        BY <2>0, <2>c DEF TypeOK
      <4> QED
        BY <2>0, <2>c, <4>1, StatusKept
    <3>2. Forwarded(m) /\ Forwarded(m)' /\ answer[m] = NoAnswer
      <4>1. Item(m) \in Keys /\ answer[m] = NoAnswer /\ read[c] \in Nat
        BY <2>0, <2>c DEF AnswerInv, CurrentIsKeyed, TypeOK
      <4>2. m[1] = c /\ m[2] = read[c]
        BY <2>c DEF Current
      <4> QED
        BY <2>c, <4>1, <4>2 DEF Forwarded, Item
    <3>3. CommandStatus(m) = "pending"
      BY <2>0, <2>m, <3>2, StatusOf
    <3>4. CASE answer' = [answer EXCEPT ![m] = Unavailable]
      <4>1. answer'[m] = Unavailable
        BY <2>0, <3>4 DEF TypeOK
      <4>2. CommandStatus(m)' = "failed"
        BY <3>2, <4>1, NoCommand, NoAnswerDistinct, <2>m DEF CommandStatus, Forwarded
      <4>3. Status' = [Status EXCEPT ![m] = "failed"] /\ Status[m] = "pending"
        BY <3>1, <3>3, <4>2, StatusChange
      <4> QED
        BY <2>c, <4>3 DEF Service!Next, Service!Fail, Status
    <3>5. CASE answer' = [answer EXCEPT ![m] = m] /\ runs[m] > 0
      <4>1. answer'[m] = m
        BY <2>0, <3>5 DEF TypeOK
      <4>2. CommandStatus(m)' = "answered"
        BY <3>2, <4>1, NoCommand, <2>m DEF CommandStatus, Forwarded
      <4>3. Status' = [Status EXCEPT ![m] = "answered"] /\ Status[m] = "pending"
        BY <3>1, <3>3, <4>2, StatusChange
      <4> QED
        BY <2>c, <3>5, <4>3 DEF Service!Next, Service!Answer, Status
    <3> QED
      BY <2>c, <3>4, <3>5
  <2>1. ASSUME NEW c \in Clients, Connect(c) \/ Send(c) \/ ClientCloses(c) PROVE Goal
    BY <2>1, <2>a DEF Connect, Send, ClientCloses
  <2>2. ASSUME NEW c \in Clients, ReadFails(c) \/ SkipBlank(c) PROVE Goal
    <3>1. CASE UNCHANGED read
      BY <2>2, <2>a, <3>1 DEF ReadFails, SkipBlank
    <3>2. CASE ReadCommand(c) /\ Item(NextItem(c)) \in {"garbled", "blank"}
      BY <2>2, <2>b, <3>2 DEF ReadFails, SkipBlank, clientVars
    <3> QED
      BY <2>2, <3>1, <3>2 DEF ReadFails, SkipBlank
  <2>3. ASSUME NEW c \in Clients, AnswerLocally(c) PROVE Goal
    <3>1. /\ ReadCommand(c) /\ Item(NextItem(c)) \in {"local", "quit"} /\ UNCHANGED <<sent, runs>>
          /\ answer' = [answer EXCEPT ![NextItem(c)] = Local]
      BY <2>3 DEF AnswerLocally, Respond, clientVars
    <3>2. \A m \in Cmds : m # NextItem(c) => answer'[m] = answer[m]
      BY <2>0, <3>1 DEF TypeOK
    <3> QED
      BY <2>b, <3>1, <3>2
  <2>4. ASSUME NEW c \in Clients, Forward(c) PROVE Goal
    <3>1. PICK n \in Cmds : n = NextItem(c)
      BY <2>0, <2>4, ReadCommandEffect DEF Forward
    <3>2. /\ ReadCommand(c) /\ Item(n) \in Keys /\ UNCHANGED <<sent, answer, runs>>
      BY <2>4, <3>1 DEF Forward, clientVars
    <3>3. \A m \in Cmds : m # n => CommandStatus(m)' = CommandStatus(m)
      BY <2>0, <3>1, <3>2, ReadKeeps, StatusKept
    <3>4. n[1] = c /\ n[2] = read[c] + 1 /\ read[c] \in Nat /\ read'[c] = read[c] + 1
      BY <2>0, <3>1, <3>2, ReadCommandEffect, SMTT(30) DEF NextItem, TypeOK
    <3>5. CommandStatus(n) = "new"
      BY <3>4 DEF CommandStatus
    <3>6. answer[n] = NoAnswer
      BY <2>0, <3>4 DEF AnswerIsOwn
    <3>7. CommandStatus(n)' = "pending"
      BY <3>2, <3>4, <3>6, NoCommand, NoAnswerDistinct DEF CommandStatus, Item
    <3>8. Status' = [Status EXCEPT ![n] = "pending"] /\ Status[n] = "new"
      BY <3>3, <3>5, <3>7, StatusChange
    <3> QED
      BY <3>2, <3>8 DEF Service!Next, Service!Accept, Status
  <2>5. ASSUME NEW c \in Clients, ReadReply(c) PROVE Goal
    <3>1. Reply(held[c]) = Current(c) /\ runs[Current(c)] > 0 /\ Current(c) \in Cmds
      BY <2>0, <2>5, ReplyIsOwn DEF ReadReply, AnswerInv, ConnInv
    <3>2. PICK m \in Cmds : m = Current(c)
      BY <3>1
    <3>3. /\ UNCHANGED <<sent, read, runs>> /\ hpc[c] \in Forwarding
          /\ answer' = [answer EXCEPT ![m] = m]
      BY <2>5, <3>1, <3>2 DEF ReadReply, Respond, clientVars, Forwarding
    <3> QED
      BY <2>c, <3>1, <3>2, <3>3
  <2>6. ASSUME NEW c \in Clients, DialFails(c) \/ FreshFails(c) PROVE Goal
    <3>1. hpc[c] \in Forwarding
      BY <2>6 DEF DialFails, FreshFails, Forwarding, Waiting
    <3>2. PICK m \in Cmds : m = Current(c)
      BY <2>0, <3>1, CurrentIsCmd DEF AnswerInv, CurrentIsKeyed
    <3>3. /\ UNCHANGED <<sent, read, runs>>
          /\ answer' = [answer EXCEPT ![m] = Unavailable]
      BY <2>6, <3>2 DEF DialFails, FreshFails, Respond, clientVars
    <3> QED
      BY <2>c, <3>1, <3>2, <3>3
  <2>7. ASSUME NEW c \in Clients, ReuseFails(c) \/ Dial(c) PROVE Goal
    BY <2>7, <2>a DEF ReuseFails, Dial
  <2>8. ASSUME NEW k \in Conns, Run(k) PROVE Goal
    <3>1. PICK m \in Cmds : req[k] = <<m>>
      BY <2>0, <2>8 DEF Run, ConnInv, OneAtATime
    <3>2. Head(req[k]) = m
      BY <3>1
    <3>3. runs' = [runs EXCEPT ![m] = @ + 1] /\ UNCHANGED <<answer, read>>
      BY <2>8, <3>2 DEF Run
    <3>4. runs[m] < 2 /\ Forwarded(m)
      <4>1. Pending(m) \in SUBSET Conns /\ k \in Pending(m)
        BY <3>1 DEF Pending
      <4>2. Cardinality(Pending(m)) >= 1
        <5>1. IsFiniteSet(Pending(m)) /\ Cardinality(Pending(m)) \in Nat
          BY <4>1, FinitePools
        <5>2. Cardinality(Pending(m)) # 0
          BY <4>1, <5>1, FS_EmptySet
        <5> QED
          BY <5>1, <5>2
      <4>3. runs[m] \in Nat /\ Cardinality(Pending(m)) \in Nat
        BY <2>0, <4>1, FinitePools DEF TypeOK
      <4>4. runs[m] + Cardinality(Pending(m)) <= Budget(m)
        BY DEF IInv, RunsTwice
      <4>5. Budget(m) \in {0, 1, 2} /\ (~ Forwarded(m) => Budget(m) = 0)
        BY DEF Budget
      <4> QED
        BY <4>2, <4>3, <4>4, <4>5
    <3>5. \A n \in Cmds : CommandStatus(n)' = CommandStatus(n)
      BY <2>0, <3>3, StatusKept
    <3>6. Status' = Status
      BY <3>5 DEF Status
    <3>7. CommandStatus(m) # "new"
      BY <2>0, <2>m, <3>4, StatusOf DEF AnswerIsOwn
    <3> QED
      BY <3>3, <3>4, <3>6, <3>7 DEF Service!Next, Service!Run, Status
  <2>9. ASSUME NEW k \in Conns, ShardCloses(k) \/ BytesLost(k) PROVE Goal
    BY <2>9, <2>a DEF ShardCloses, BytesLost
  <2>10. ASSUME Sigterm \/ Stop \/ UNCHANGED vars PROVE Goal
    BY <2>10, <2>a DEF Sigterm, Stop, vars
  <2> HIDE DEF Goal
  <2>11. Goal
    BY <2>1, <2>2, <2>3, <2>4, <2>5, <2>6, <2>7, <2>8, <2>9, <2>10 DEF Next, HandlerStep
  <2> QED
    BY <2>11 DEF Goal
<1> QED
  BY <1>1, <1>2, Invariance, PTL DEF Spec, ImplementsCache, Service!Spec, Status
=============================================================================
