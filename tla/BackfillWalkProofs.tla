------------------------- MODULE BackfillWalkProofs -------------------------
(***************************************************************************)
(* Proofs about BackfillWalk, for any chats, histories, windows, budgets,  *)
(* number of sweeps, operator requests and failures: the walker never asks *)
(* for more than its sweeps were given, and a walk leaves nothing unread   *)
(* behind it.                                                              *)
(***************************************************************************)
EXTENDS BackfillWalk, FiniteSetTheorems, WellFoundedInduction, TLAPS

-----------------------------------------------------------------------------
(* Helpers.                                                                *)

\* A set of timestamps has a newest one.
LEMMA NewestIsNewest ==
  ASSUME NEW S, S \subseteq Times, S # {}
  PROVE  Newest(S) \in S /\ \A u \in S : u <= Newest(S)
<1> DEFINE ages == {Depth - t : t \in S}
<1> Depth \in Nat
  BY WalkAssumption
<1> \A t \in S : t \in Nat /\ t <= Depth
  BY DEF Times
<1>1. ages \subseteq Nat /\ ages # {}
  OBVIOUS
<1>2. PICK x \in ages : \A y \in ages : ~(<<y, x>> \in OpToRel(<, Nat))
  <2> HIDE DEF ages
  <2> QED
    BY <1>1, NatLessThanWellFounded, WFMin
<1>3. \A y \in ages : ~(y < x)
  BY <1>1, <1>2 DEF OpToRel
<1>4. PICK t \in S : x = Depth - t
  BY <1>2
<1>5. ASSUME NEW u \in S PROVE u <= t
  <2>1. Depth - u \in ages
    OBVIOUS
  <2>2. ~(Depth - u < Depth - t)
    BY <1>3, <1>4, <2>1
  <2> HIDE DEF ages
  <2> QED
    BY <2>2
<1> QED
  BY <1>4, <1>5 DEF Newest
-----------------------------------------------------------------------------
(* Type correctness, a part of the state at a time.                        *)

Rows == [Chats -> [Times -> {"none", "blank", "full"}]]
Calls == [at : {"idle", "reset", "pick", "begin", "request", "done"},
          chat : Chats \union {""}, todo : SUBSET Chats, anchor : Nat]
Chunks == [at : {"idle", "rows", "next"}, chat : Chats \union {""},
           todo : SUBSET Times, oldest : Nat, older : BOOLEAN]
Requested == [chat : Chats, before : Nat, count : Nat]
Fates == {"open", "unanswered", "no_progress", "nothing_older", "max_rounds",
          "global_budget", "reset"}

AimedCall(v) == v.at \in {"begin", "request"} => v.chat \in Chats \ v.todo
AimedChunk(h) == h.at # "idle" => h.chat \in Chats

RowsFine == row \in Rows /\ \A c \in Chats : \E t \in Times : row[c][t] # "none"
CallsFine == sweep \in [Sweeps -> Calls] /\ \A s \in Sweeps : AimedCall(sweep[s])
ChunkFine == hist \in Chunks /\ AimedChunk(hist)
AsksFine == asks \subseteq Requested /\ pending \subseteq Requested
WalksFine == walk \in [Chats -> [rounds : Nat, anchor : Nat]] /\ start \in [Chats -> Nat]
CountsFine ==
  /\ spent \in Nat /\ resets \in Nat /\ asked \in Nat /\ askedOf \in [Chats -> Nat]
  /\ operatorAsks \in Nat /\ faults \in Nat
PastFine == excused \in [Chats -> SUBSET Times] /\ fate \in [Chats -> Fates]

Types == /\ RowsFine /\ CallsFine /\ ChunkFine /\ AsksFine
         /\ WalksFine /\ CountsFine /\ PastFine

\* Which is TypeOK and Aimed.
LEMMA TypesMean == Types => TypeOK /\ Aimed
BY DEF Types, RowsFine, CallsFine, ChunkFine, AsksFine, WalksFine, CountsFine, PastFine,
       AimedCall, AimedChunk, Rows, Calls, Chunks, Requested, Fates, TypeOK, Aimed

LEMMA DecodedType == ASSUME NEW t PROVE Decoded(t) \in {"blank", "full"}
BY DEF Decoded

LEMMA TypesInitial == Init => Types
<1> SUFFICES ASSUME Init PROVE Types
  OBVIOUS
<1>1. \A f \in Stores : /\ f \in [Times -> {"none", "blank", "full"}]
                        /\ \E t \in Times : f[t] # "none"
  BY WalkAssumption DEF Times
<1>2. RowsFine
  BY <1>1 DEF Init, RowsFine, Rows
<1>3. CallsFine
  BY DEF Init, CallsFine, Calls, NoSweep, AimedCall
<1>4. ChunkFine
  BY DEF Init, ChunkFine, Chunks, NoChunk, AimedChunk
<1>5. AsksFine /\ WalksFine /\ CountsFine /\ PastFine
  BY DEF Init, AsksFine, WalksFine, CountsFine, PastFine, NotWalking, Fates
<1> QED
  BY <1>2, <1>3, <1>4, <1>5 DEF Types

\* A chat that has rows has them after one is written.
LEMMA RowWritten ==
  ASSUME RowsFine, NEW c \in Chats, NEW t \in Times, NEW x \in {"blank", "full"},
         row' = [row EXCEPT ![c][t] = x]
  PROVE  RowsFine' /\ \A d \in Chats, u \in Times :
                        row'[d][u] = IF d = c /\ u = t THEN x ELSE row[d][u]
<1>1. row' \in Rows
  BY DEF RowsFine, Rows
<1>2. \A d \in Chats, u \in Times : row'[d][u] = IF d = c /\ u = t THEN x ELSE row[d][u]
  BY DEF RowsFine, Rows
<1> QED
  BY <1>1, <1>2 DEF RowsFine

\* A sweep moves.
LEMMA SweepMoves ==
  ASSUME CallsFine, NEW s \in Sweeps, NEW v \in Calls, AimedCall(v),
         sweep' = [sweep EXCEPT ![s] = v]
  PROVE  CallsFine' /\ \A r \in Sweeps : sweep'[r] = IF r = s THEN v ELSE sweep[r]
BY DEF CallsFine

\* The newest row of a chat is one.
LEMMA NewestHeld ==
  ASSUME RowsFine, NEW c \in Chats
  PROVE  /\ Newest(Held(c)) \in Held(c) /\ Newest(Held(c)) \in Nat
         /\ \A u \in Held(c) : u <= Newest(Held(c))
<1>1. Held(c) # {} /\ Held(c) \subseteq Times
  BY DEF RowsFine, Held
<1> QED
  BY <1>1, NewestIsNewest DEF Times

\* A request for what is before the newest row.
LEMMA NewestAsked ==
  ASSUME Types, NEW c \in Chats, NEW n \in Nat, AskNewest(c, n)
  PROVE  asks' \subseteq Requested /\ excused' \in [Chats -> SUBSET Times]
<1>3. PICK t \in Held(c) :
        /\ asks' = asks \union {Ask(c, t, n)}
        /\ excused' = [excused EXCEPT ![c] = @ \union {u \in Held(c) : t <= u}]
  BY DEF AskNewest
<1>4. Held(c) \subseteq Times /\ t \in Nat
  BY DEF Held, Times
<1>1. asks' \subseteq Requested
  BY <1>3, <1>4 DEF Ask, Types, AsksFine, Requested
<1>2. excused' \in [Chats -> SUBSET Times]
  BY <1>3, <1>4 DEF Types, PastFine
<1> QED
  BY <1>1, <1>2

\* A chat's walk is given up, or not.
LEMMA FateMoves ==
  ASSUME PastFine, NEW c \in Chats, Unanswered(c) \/ UNCHANGED fate
  PROVE  fate' \in [Chats -> Fates]
BY DEF PastFine, Unanswered, Fates

LEMMA TriesCount ==
  ASSUME CountsFine, NEW ok, Try(ok)
  PROVE  faults' \in Nat
BY DEF CountsFine, Try

-----------------------------------------------------------------------------
(* Sweeps.                                                                 *)

LEMMA TypesSweepStart ==
  ASSUME Types, NEW s \in Sweeps, SweepStart(s)
  PROVE  Types'
<1>1. PICK T \in SUBSET Chats :
        sweep' = [sweep EXCEPT ![s] = [NoSweep EXCEPT !.at = "reset", !.todo = T]]
  BY DEF SweepStart
<1>2. CallsFine'
  <2> DEFINE v == [NoSweep EXCEPT !.at = "reset", !.todo = T]
  <2> v \in Calls /\ AimedCall(v)
    BY DEF NoSweep, Calls, AimedCall
  <2> HIDE DEF v
  <2> QED
    BY <1>1, SweepMoves DEF Types, v
<1> QED
  BY <1>2 DEF SweepStart, Types, RowsFine, ChunkFine, AsksFine, WalksFine, CountsFine,
              PastFine, counts, past, env

LEMMA TypesSweepReset ==
  ASSUME Types, NEW s \in Sweeps, SweepReset(s)
  PROVE  Types'
<1>1. CallsFine'
  <2> DEFINE v == [sweep[s] EXCEPT !.at = "pick"]
  <2> v \in Calls /\ AimedCall(v)
    BY DEF Types, CallsFine, Calls, AimedCall
  <2> sweep' = [sweep EXCEPT ![s] = v]
    BY DEF SweepReset
  <2> HIDE DEF v
  <2> QED
    BY SweepMoves DEF Types
<1>2. WalksFine' /\ CountsFine'
  BY DEF SweepReset, Types, WalksFine, CountsFine, NotWalking, env
<1>3. PastFine'
  BY DEF SweepReset, Types, PastFine, Fates
<1> QED
  BY <1>1, <1>2, <1>3 DEF SweepReset, Types, RowsFine, ChunkFine, AsksFine

LEMMA TypesSweepPick ==
  ASSUME Types, NEW s \in Sweeps, NEW c \in Chats, SweepPick(s, c)
  PROVE  Types'
<1>1. PICK ok \in BOOLEAN :
        /\ Try(ok)
        /\ sweep' = [sweep EXCEPT ![s] =
              IF ok THEN [at |-> "begin", chat |-> c, todo |-> sweep[s].todo \ {c},
                          anchor |-> Newest(Held(c))]
              ELSE [sweep[s] EXCEPT !.todo = @ \ {c}]]
  BY DEF SweepPick
<1>2. CallsFine'
  <2> DEFINE v == IF ok THEN [at |-> "begin", chat |-> c, todo |-> sweep[s].todo \ {c},
                              anchor |-> Newest(Held(c))]
                  ELSE [sweep[s] EXCEPT !.todo = @ \ {c}]
  <2>1. sweep[s] \in Calls /\ sweep[s].at = "pick" /\ sweep \in [Sweeps -> Calls]
    BY DEF Types, CallsFine, SweepPick
  <2>2. Newest(Held(c)) \in Nat
    BY NewestHeld DEF Types
  <2>3. v \in Calls /\ AimedCall(v)
    BY <2>1, <2>2 DEF Calls, AimedCall
  <2>4. sweep' = [sweep EXCEPT ![s] = v]
    BY <1>1, <2>1
  <2> HIDE DEF v
  <2> QED
    BY <2>3, <2>4, SweepMoves DEF Types
<1>3. CountsFine'
  BY <1>1, TriesCount DEF SweepPick, Types, CountsFine, counts
<1> QED
  BY <1>2, <1>3 DEF SweepPick, Types, RowsFine, ChunkFine, AsksFine, WalksFine, PastFine, past

\* The next target; the sweep's record is what NextTarget leaves.
LEMMA TypesNextTarget ==
  ASSUME Types, NEW s \in Sweeps, NextTarget(s)
  PROVE  CallsFine'
<1> DEFINE v == [NoSweep EXCEPT !.at = "pick", !.todo = sweep[s].todo]
<1> v \in Calls /\ AimedCall(v)
  BY DEF NoSweep, Types, CallsFine, Calls, AimedCall
<1> sweep' = [sweep EXCEPT ![s] = v]
  BY DEF NextTarget
<1> HIDE DEF v
<1> QED
  BY SweepMoves DEF Types

LEMMA TypesSweepBegin ==
  ASSUME Types, NEW s \in Sweeps, SweepBegin(s)
  PROVE  Types'
<1>1. /\ sweep[s] \in Calls /\ AimedCall(sweep[s]) /\ sweep[s].at = "begin"
      /\ sweep \in [Sweeps -> Calls]
  BY DEF SweepBegin, Types, CallsFine
<1>2. sweep[s].chat \in Chats /\ sweep[s].anchor \in Nat
  BY <1>1 DEF AimedCall, Calls
<1>3. CallsFine'
  <2>1. CASE spent < Budget
    <3> DEFINE v == [sweep[s] EXCEPT !.at = "request"]
    <3> v \in Calls /\ AimedCall(v)
      BY <1>1 DEF Calls, AimedCall
    <3> spent \in Nat /\ Budget \in Nat
      BY WalkAssumption DEF Types, CountsFine
    <3> sweep' = [sweep EXCEPT ![s] = v]
      BY <2>1 DEF SweepBegin
    <3> HIDE DEF v
    <3> QED
      BY SweepMoves DEF Types
  <2>2. CASE ~(spent < Budget)
    BY <2>2, TypesNextTarget DEF SweepBegin
  <2> QED
    BY <2>1, <2>2
<1>4. WalksFine'
  BY <1>2 DEF SweepBegin, Types, WalksFine
<1>5. CountsFine'
  BY <1>2 DEF SweepBegin, Types, CountsFine, env
<1>6. PastFine'
  BY <1>2 DEF SweepBegin, Types, PastFine, Fates
<1> QED
  BY <1>3, <1>4, <1>5, <1>6 DEF SweepBegin, Types, RowsFine, ChunkFine, AsksFine

LEMMA TypesSweepRequest ==
  ASSUME Types, NEW s \in Sweeps, SweepRequest(s)
  PROVE  Types'
<1>1. sweep[s].chat \in Chats
  BY DEF SweepRequest, Types, CallsFine, AimedCall
<1>2. CallsFine'
  BY TypesNextTarget DEF SweepRequest
<1>3. PICK ok \in BOOLEAN :
        /\ Try(ok)
        /\ IF ok THEN UNCHANGED fate ELSE Unanswered(sweep[s].chat)
        /\ IF ok THEN AskNewest(sweep[s].chat, Window) ELSE UNCHANGED <<asks, excused>>
  BY DEF SweepRequest
<1>4. CountsFine'
  BY <1>3, TriesCount DEF SweepRequest, Types, CountsFine, counts
<1>5. asks' \subseteq Requested /\ excused' \in [Chats -> SUBSET Times]
  <2> Window \in Nat
    BY WalkAssumption
  <2> QED
    BY <1>1, <1>3, NewestAsked DEF Types, AsksFine, PastFine
<1>6. fate' \in [Chats -> Fates]
  BY <1>1, <1>3, FateMoves DEF Types
<1> QED
  BY <1>2, <1>4, <1>5, <1>6
     DEF SweepRequest, Types, RowsFine, ChunkFine, AsksFine, WalksFine, PastFine

LEMMA TypesSweepEnd ==
  ASSUME Types, NEW s \in Sweeps, SweepEnd(s)
  PROVE  Types'
<1>1. CallsFine'
  <2> DEFINE v == [sweep[s] EXCEPT !.at = "done"]
  <2> v \in Calls /\ AimedCall(v)
    BY DEF Types, CallsFine, Calls, AimedCall
  <2> sweep' = [sweep EXCEPT ![s] = v]
    BY DEF SweepEnd
  <2> HIDE DEF v
  <2> QED
    BY SweepMoves DEF Types
<1> QED
  BY <1>1 DEF SweepEnd, Types, RowsFine, ChunkFine, AsksFine, WalksFine, CountsFine,
              PastFine, counts, past, env

LEMMA TypesSweep ==
  ASSUME Types, NEW s \in Sweeps, SweepStep(s)
  PROVE  Types'
BY TypesSweepStart, TypesSweepReset, TypesSweepPick, TypesSweepBegin, TypesSweepRequest,
   TypesSweepEnd DEF SweepStep

-----------------------------------------------------------------------------
(* The history goroutine.                                                  *)

\* The chunk it is handling.
LEMMA ChunkShape ==
  ASSUME Types, hist.at # "idle"
  PROVE  /\ hist \in Chunks /\ hist.chat \in Chats
         /\ hist.todo \subseteq Times /\ hist.oldest \in Nat
BY DEF Types, ChunkFine, AimedChunk, Chunks

LEMMA NoChunkTyped == NoChunk \in Chunks /\ AimedChunk(NoChunk)
BY DEF NoChunk, Chunks, AimedChunk

LEMMA TypesRecall ==
  ASSUME Types, Recall
  PROVE  Types'
<1> DEFINE t == Newest(hist.todo)
<1>1. hist \in Chunks /\ hist.chat \in Chats /\ hist.at = "rows"
  BY ChunkShape DEF Recall
<1>2. t \in hist.todo /\ t \in Times /\ t \in Nat
  BY ChunkShape, NewestIsNewest DEF Recall, Times
<1>3. PICK inserts, repairs \in BOOLEAN :
        /\ Try(inserts /\ repairs)
        /\ row' = [row EXCEPT ![hist.chat][t] =
              IF inserts /\ (@ = "none" \/ (@ = "blank" /\ repairs)) THEN Decoded(t) ELSE @]
        /\ hist' = [hist EXCEPT !.todo = @ \ {t},
                                !.oldest = IF inserts THEN Oldest(@, t) ELSE @]
        /\ excused' = [excused EXCEPT ![hist.chat] =
                          IF inserts /\ repairs THEN @ ELSE @ \union {t}]
  BY DEF Recall
<1> HIDE DEF t
<1>4. RowsFine'
  <2>1. row \in Rows /\ row[hist.chat][t] \in {"none", "blank", "full"}
    BY <1>1, <1>2 DEF Types, RowsFine, Rows
  <2>2. CASE inserts /\ (row[hist.chat][t] = "none" \/ (row[hist.chat][t] = "blank" /\ repairs))
    <3> row' = [row EXCEPT ![hist.chat][t] = Decoded(t)]
      BY <1>3, <2>2
    <3> QED
      BY <1>1, <1>2, DecodedType, RowWritten DEF Types
  <2>3. CASE ~(inserts /\ (row[hist.chat][t] = "none" \/ (row[hist.chat][t] = "blank" /\ repairs)))
    <3> row' = row
      BY <1>1, <1>2, <1>3, <2>1, <2>3 DEF Rows
    <3> QED
      BY DEF Types, RowsFine
  <2> QED
    BY <2>2, <2>3
<1>5. ChunkFine'
  BY <1>1, <1>2, <1>3 DEF ChunkFine, Chunks, AimedChunk, Oldest
<1>6. PastFine'
  BY <1>1, <1>2, <1>3 DEF Recall, Types, PastFine
<1>7. CountsFine'
  BY <1>3, TriesCount DEF Recall, Types, CountsFine, counts
<1> QED
  BY <1>4, <1>5, <1>6, <1>7 DEF Recall, Types, CallsFine, AsksFine, WalksFine

LEMMA TypesChunkRead ==
  ASSUME Types, ChunkRead
  PROVE  Types'
<1>1. hist \in Chunks /\ hist.chat \in Chats
  BY ChunkShape DEF ChunkRead
<1>2. ChunkFine'
  <2>1. CASE hist' = NoChunk
    BY <2>1, NoChunkTyped DEF ChunkFine
  <2>2. CASE hist' = [hist EXCEPT !.at = "next", !.older = HasOlder(hist.chat, hist.oldest)]
    <3> HasOlder(hist.chat, hist.oldest) \in BOOLEAN
      BY DEF HasOlder
    <3> QED
      BY <1>1, <2>2 DEF ChunkFine, Chunks, AimedChunk
  <2> QED
    BY <2>1, <2>2 DEF ChunkRead
<1>3. CountsFine'
  <2> faults' \in Nat
    BY TriesCount DEF ChunkRead, Types
  <2> QED
    BY DEF ChunkRead, Types, CountsFine, counts
<1>4. PastFine'
  <2> fate' \in [Chats -> Fates]
    BY <1>1, FateMoves DEF ChunkRead, Types
  <2> QED
    BY DEF ChunkRead, Types, PastFine
<1> QED
  BY <1>2, <1>3, <1>4 DEF ChunkRead, Types, RowsFine, CallsFine, AsksFine, WalksFine

LEMMA TypesNext ==
  ASSUME Types, NextIgnored \/ NextStops \/ NextContinues
  PROVE  Types'
<1>1. hist \in Chunks /\ hist.chat \in Chats /\ hist.oldest \in Nat
  BY ChunkShape DEF NextIgnored, NextStops, NextContinues
<1>2. ChunkFine'
  BY NoChunkTyped DEF NextIgnored, NextStops, NextContinues, ChunkFine
<1>3. CASE NextIgnored
  BY <1>2, <1>3 DEF NextIgnored, Types, RowsFine, CallsFine, AsksFine, WalksFine, CountsFine,
                    PastFine, counts, past, env
<1>4. CASE NextStops
  <2>1. WalksFine'
    BY <1>1, <1>4 DEF NextStops, Types, WalksFine, NotWalking
  <2>2. PastFine'
    BY <1>1, <1>4 DEF NextStops, Types, PastFine, Fates, Brake
  <2> QED
    BY <1>2, <1>4, <2>1, <2>2 DEF NextStops, Types, RowsFine, CallsFine, AsksFine, CountsFine,
                                  counts, env
<1>5. CASE NextContinues
  <2>1. WalksFine'
    BY <1>1, <1>5 DEF NextContinues, Types, WalksFine, past
  <2>2. CountsFine'
    BY <1>1, <1>5 DEF NextContinues, Types, CountsFine, env
  <2>3. AsksFine'
    <3> Window \in Nat
      BY WalkAssumption
    <3> QED
      BY <1>1, <1>5 DEF NextContinues, Types, AsksFine, Requested, Ask
  <2> QED
    BY <1>2, <1>5, <2>1, <2>2, <2>3 DEF NextContinues, Types, RowsFine, CallsFine, PastFine, past
<1> QED
  BY <1>3, <1>4, <1>5

LEMMA TypesHistory == ASSUME Types, HistoryStep PROVE Types'
BY TypesRecall, TypesChunkRead, TypesNext DEF HistoryStep

-----------------------------------------------------------------------------
(* WhatsApp, the senders, the operator and live messages.                  *)

\* A request that WhatsApp has becomes a chunk.
LEMMA ChunkTyped ==
  ASSUME NEW q \in Requested
  PROVE  /\ Chunk(q) \in Chunks /\ AimedChunk(Chunk(q))
         /\ Chunk(q).at = "rows" /\ Chunk(q).chat = q.chat /\ q.chat \in Chats
         /\ Chunk(q).todo = Reply(q) /\ Chunk(q).oldest = 0
BY DEF Requested, Chunk, Chunks, NoChunk, Reply, AimedChunk

LEMMA TypesRespond ==
  ASSUME Types, NEW q \in asks, Answer(q) \/ Lose(q) \/ AnswerAgain(q)
  PROVE  Types'
<1>1. q \in Requested /\ q.chat \in Chats
  BY DEF Types, AsksFine, Requested
<1>2. ChunkFine'
  BY <1>1, ChunkTyped DEF Answer, Lose, AnswerAgain, Types, ChunkFine
<1>3. CountsFine'
  <2> faults' \in Nat
    BY TriesCount DEF Answer, Lose, AnswerAgain, Types
  <2> QED
    BY DEF Answer, Lose, AnswerAgain, Types, CountsFine, counts
<1>4. PastFine'
  <2> fate' \in [Chats -> Fates]
    BY <1>1, FateMoves DEF Answer, Lose, AnswerAgain, Types, past
  <2> QED
    BY DEF Answer, Lose, AnswerAgain, Types, PastFine, past
<1> QED
  BY <1>2, <1>3, <1>4
     DEF Answer, Lose, AnswerAgain, Types, RowsFine, CallsFine, AsksFine, WalksFine, past

LEMMA TypesSendPending ==
  ASSUME Types, NEW q \in pending, SendPending(q)
  PROVE  Types'
<1>1. q \in Requested /\ q.chat \in Chats
  BY DEF Types, AsksFine, Requested
<1>2. AsksFine'
  BY <1>1 DEF SendPending, Types, AsksFine
<1>3. CountsFine'
  <2> faults' \in Nat
    BY TriesCount DEF SendPending, Types
  <2> QED
    BY DEF SendPending, Types, CountsFine, counts
<1>4. PastFine'
  <2> fate' \in [Chats -> Fates]
    BY <1>1, FateMoves DEF SendPending, Types
  <2> QED
    BY DEF SendPending, Types, PastFine
<1> QED
  BY <1>2, <1>3, <1>4 DEF SendPending, Types, RowsFine, CallsFine, ChunkFine, WalksFine

LEMMA TypesOperatorRequest ==
  ASSUME Types, NEW c \in Chats, OperatorRequest(c)
  PROVE  Types'
<1>1. asks' \subseteq Requested /\ excused' \in [Chats -> SUBSET Times]
  <2> OperatorCount \in Nat
    BY WalkAssumption
  <2> QED
    BY NewestAsked DEF OperatorRequest
<1> QED
  BY <1>1 DEF OperatorRequest, Types, RowsFine, CallsFine, ChunkFine, AsksFine, WalksFine,
              CountsFine, PastFine, counts

LEMMA TypesLiveMessage ==
  ASSUME Types, NEW c \in Chats, LiveMessage(c)
  PROVE  Types'
<1>1. RowsFine'
  BY RowWritten, DecodedType DEF LiveMessage, Types
<1> QED
  BY <1>1 DEF LiveMessage, Types, CallsFine, ChunkFine, AsksFine, WalksFine, CountsFine,
              PastFine, counts, past, env

LEMMA TypesStep == Types /\ [Next]_vars => Types'
<1> SUFFICES ASSUME Types, [Next]_vars PROVE Types'
  OBVIOUS
<1>1. CASE UNCHANGED vars
  BY <1>1 DEF vars, Types, RowsFine, CallsFine, ChunkFine, AsksFine, WalksFine, CountsFine,
              PastFine, counts, past, env
<1>2. CASE Next
  BY <1>2, TypesSweep, TypesHistory, TypesRespond, TypesSendPending, TypesOperatorRequest,
     TypesLiveMessage DEF Next, Respond
<1> QED
  BY <1>1, <1>2

LEMMA AlwaysTypes == Spec => []Types
BY TypesInitial, TypesStep, PTL DEF Spec

\* Every variable keeps its type, whatever sweeps, chunks and answers do.
THEOREM WalkTypeCorrect == Spec => []TypeOK
BY AlwaysTypes, TypesMean, PTL

-----------------------------------------------------------------------------
(* The requests of the walker.                                             *)

Allowed(c) == Cardinality(Begun(c)) * MaxRounds
Room(c) == IF Walking(c) THEN MaxRounds - walk[c].rounds ELSE 0

LEMMA ProductGrows ==
  ASSUME NEW m \in Nat, NEW n \in Nat, NEW k \in Nat, m <= n
  PROVE  m * k \in Nat /\ n * k \in Nat /\ m * k <= n * k
<1>1. PICK d \in Nat : n = m + d
  <2> n = m + (n - m) /\ n - m \in Nat
    OBVIOUS
  <2> QED
    OBVIOUS
<1>2. n * k = m * k + d * k /\ d * k \in Nat /\ m * k \in Nat
  BY <1>1
<1> QED
  BY <1>2

LEMMA ProductSucceeds ==
  ASSUME NEW m \in Nat, NEW k \in Nat
  PROVE  (m + 1) * k = m * k + k /\ m * k \in Nat
OBVIOUS

LEMMA BegunFinite == \A c : /\ IsFiniteSet(Begun(c)) /\ Cardinality(Begun(c)) \in Nat
                            /\ Cardinality(Begun(c)) <= Cardinality(Sweeps)
<1> TAKE c
<1>1. Begun(c) \subseteq Sweeps /\ IsFiniteSet(Sweeps)
  BY WalkAssumption DEF Begun
<1> QED
  BY <1>1, FS_Subset, FS_CardinalityType

\* A step that begins no walk takes no sweep back.
LEMMA AllowedGrows ==
  ASSUME NEW c \in Chats, Begun(c) \subseteq Begun(c)'
  PROVE  Allowed(c) <= Allowed(c)' /\ Allowed(c) \in Nat /\ Allowed(c)' \in Nat
<1>1. IsFiniteSet(Begun(c)') /\ Cardinality(Begun(c)') \in Nat
  <2> Begun(c)' \subseteq Sweeps /\ IsFiniteSet(Sweeps)
    BY WalkAssumption DEF Begun
  <2> QED
    BY FS_Subset, FS_CardinalityType
<1>2. Cardinality(Begun(c)) \in Nat /\ Cardinality(Begun(c)) <= Cardinality(Begun(c)')
  BY <1>1, BegunFinite, FS_Subset
<1>3. MaxRounds \in Nat
  BY WalkAssumption
<1>4. (Cardinality(Begun(c)))' = Cardinality(Begun(c)')
  OBVIOUS
<1> HIDE DEF Begun
<1> QED
  BY <1>1, <1>2, <1>3, ProductGrows DEF Allowed

LEMMA BoundInitial == Init => BoundInv
<1> SUFFICES ASSUME Init PROVE BoundInv
  OBVIOUS
<1>1. \A c \in Chats : ~Walking(c) /\ askedOf[c] = 0
  BY DEF Init, Walking
<1>2. \A c : Cardinality(Begun(c)) * MaxRounds \in Nat
  BY BegunFinite, WalkAssumption, ProductSucceeds
<1>3. Budget \in Nat /\ spent = 0 /\ resets = 0 /\ asked = 0
      /\ \A s \in Sweeps : sweep[s].at = "idle"
  BY WalkAssumption DEF Init, NoSweep
<1> QED
  BY <1>1, <1>2, <1>3 DEF BoundInv

\* A step that asks for nothing.
LEMMA BoundKept ==
  ASSUME Types, BoundInv, UNCHANGED <<spent, resets, asked, askedOf, walk>>,
         \A c \in Chats : Begun(c) \subseteq Begun(c)',
         resets = 0 => \A s \in Sweeps : sweep'[s].at \in {"idle", "reset"}
  PROVE  BoundInv'
<1>1. \A c \in Chats : Walking(c)' <=> Walking(c)
  BY DEF Walking
<1>2. ASSUME NEW c \in Chats
      PROVE  /\ Walking(c)' => walk'[c].rounds \in 1..MaxRounds
             /\ askedOf'[c] + (IF Walking(c)' THEN MaxRounds - walk'[c].rounds ELSE 0)
                  <= Cardinality(Begun(c)') * MaxRounds
  <2>1. /\ Walking(c) => walk[c].rounds \in 1..MaxRounds
        /\ askedOf[c] + Room(c) <= Allowed(c)
    BY DEF BoundInv, Room, Allowed
  <2>2. askedOf[c] \in Nat /\ Room(c) \in Nat
    <3> MaxRounds \in Nat
      BY WalkAssumption
    <3> askedOf[c] \in Nat
      BY DEF Types, CountsFine
    <3> QED
      BY <2>1 DEF Room
  <2>3. askedOf'[c] = askedOf[c] /\ Room(c)' = Room(c)
    BY <1>1 DEF Room
  <2>4. askedOf'[c] + Room(c)' <= Allowed(c)'
    BY <2>1, <2>2, <2>3, AllowedGrows
  <2> QED
    BY <1>1, <2>1, <2>4 DEF Room, Allowed
<1>3. /\ spent' <= Budget
      /\ resets' = 0 => asked' = 0 /\ spent' = 0 /\ \A c \in Chats : ~Walking(c)'
      /\ resets' # 0 => asked' + Budget <= resets' * Budget + spent'
  BY <1>1 DEF BoundInv
<1> HIDE DEF Begun
<1> QED
  BY <1>2, <1>3 DEF BoundInv

\* A sweep that moves on and begins nothing.
LEMMA BegunMoves ==
  ASSUME Types, NEW s \in Sweeps, NEW v \in Calls, sweep' = [sweep EXCEPT ![s] = v],
         sweep[s].at \notin {"idle", "reset"} => v.at \notin {"idle", "reset"},
         v.todo \subseteq sweep[s].todo \/ sweep[s].at \in {"idle", "reset"},
         v.at = "begin" => v.chat \in sweep[s].todo
  PROVE  \A c \in Chats : Begun(c) \subseteq Begun(c)'
<1> SUFFICES ASSUME NEW c \in Chats, NEW r \in Begun(c) PROVE r \in Begun(c)'
  OBVIOUS
<1>1. sweep \in [Sweeps -> Calls] /\ r \in Sweeps
  BY DEF Types, CallsFine, Begun
<1>2. CASE r = s
  <2>1. sweep'[r] = v
    BY <1>1, <1>2
  <2> QED
    BY <1>2, <2>1 DEF Begun
<1>3. CASE r # s
  <2>1. sweep'[r] = sweep[r]
    BY <1>1, <1>3
  <2> QED
    BY <2>1 DEF Begun
<1> QED
  BY <1>2, <1>3

LEMMA BoundSweepStart ==
  ASSUME Types, BoundInv, NEW s \in Sweeps, SweepStart(s)
  PROVE  BoundInv'
<1>1. PICK T \in SUBSET Chats :
        sweep' = [sweep EXCEPT ![s] = [NoSweep EXCEPT !.at = "reset", !.todo = T]]
  BY DEF SweepStart
<1> DEFINE v == [NoSweep EXCEPT !.at = "reset", !.todo = T]
<1>2. v \in Calls /\ v.at = "reset" /\ sweep[s].at = "idle"
  BY DEF NoSweep, Calls, SweepStart
<1>3. \A r \in Sweeps : sweep'[r] = IF r = s THEN v ELSE sweep[r]
  BY <1>1 DEF Types, CallsFine
<1> HIDE DEF v
<1>4. sweep' = [sweep EXCEPT ![s] = v]
  BY <1>1 DEF v
<1>5. \A c \in Chats : Begun(c) \subseteq Begun(c)'
  BY <1>2, <1>4, BegunMoves
<1>6. resets = 0 => \A r \in Sweeps : sweep'[r].at \in {"idle", "reset"}
  BY <1>2, <1>3 DEF BoundInv
<1>7. UNCHANGED <<spent, resets, asked, askedOf, walk>>
  BY DEF SweepStart, counts
<1> QED
  BY <1>5, <1>6, <1>7, BoundKept

\* A sweep past its reset implies an armed walker.
LEMMA Armed ==
  ASSUME BoundInv, NEW s \in Sweeps, sweep[s].at \notin {"idle", "reset"}
  PROVE  resets # 0
BY DEF BoundInv

LEMMA BoundSweepPick ==
  ASSUME Types, BoundInv, NEW s \in Sweeps, NEW c \in Chats, SweepPick(s, c)
  PROVE  BoundInv'
<1>1. PICK ok \in BOOLEAN :
        sweep' = [sweep EXCEPT ![s] =
              IF ok THEN [at |-> "begin", chat |-> c, todo |-> sweep[s].todo \ {c},
                          anchor |-> Newest(Held(c))]
              ELSE [sweep[s] EXCEPT !.todo = @ \ {c}]]
  BY DEF SweepPick
<1> DEFINE v == IF ok THEN [at |-> "begin", chat |-> c, todo |-> sweep[s].todo \ {c},
                            anchor |-> Newest(Held(c))]
                ELSE [sweep[s] EXCEPT !.todo = @ \ {c}]
<1>2. sweep[s] \in Calls /\ sweep[s].at = "pick" /\ c \in sweep[s].todo
  BY DEF Types, CallsFine, SweepPick
<1>3. Newest(Held(c)) \in Nat
  BY NewestHeld DEF Types
<1>4. /\ v \in Calls /\ v.at \in {"pick", "begin"} /\ v.todo \subseteq sweep[s].todo
      /\ v.at = "begin" => v.chat \in sweep[s].todo
  BY <1>2, <1>3 DEF Calls
<1> HIDE DEF v
<1>5. sweep' = [sweep EXCEPT ![s] = v]
  BY <1>1 DEF v
<1>6. \A d \in Chats : Begun(d) \subseteq Begun(d)'
  BY <1>2, <1>4, <1>5, BegunMoves
<1>7. UNCHANGED <<spent, resets, asked, askedOf, walk>>
  BY DEF SweepPick, counts
<1> QED
  BY <1>2, <1>6, <1>7, Armed, BoundKept

LEMMA BegunNextTarget ==
  ASSUME Types, NEW s \in Sweeps, NextTarget(s), sweep[s].at \in {"begin", "request"}
  PROVE  \A c \in Chats : Begun(c) \subseteq Begun(c)'
<1> DEFINE v == [NoSweep EXCEPT !.at = "pick", !.todo = sweep[s].todo]
<1>1. v \in Calls /\ v.at = "pick" /\ v.todo = sweep[s].todo
  BY DEF NoSweep, Types, CallsFine, Calls
<1>2. sweep' = [sweep EXCEPT ![s] = v]
  BY DEF NextTarget
<1> HIDE DEF v
<1> QED
  BY <1>1, <1>2, BegunMoves

LEMMA BoundSweepRequest ==
  ASSUME Types, BoundInv, NEW s \in Sweeps, SweepRequest(s)
  PROVE  BoundInv'
<1>1. sweep[s].at = "request" /\ NextTarget(s) /\ UNCHANGED <<spent, resets, asked, askedOf, walk>>
  BY DEF SweepRequest, counts
<1> QED
  BY <1>1, BegunNextTarget, Armed, BoundKept

LEMMA BoundSweepEnd ==
  ASSUME Types, BoundInv, NEW s \in Sweeps, SweepEnd(s)
  PROVE  BoundInv'
<1> DEFINE v == [sweep[s] EXCEPT !.at = "done"]
<1>1. v \in Calls /\ v.at = "done" /\ v.todo = sweep[s].todo
  BY DEF Types, CallsFine, Calls
<1>2. sweep' = [sweep EXCEPT ![s] = v] /\ sweep[s].at = "pick"
      /\ UNCHANGED <<spent, resets, asked, askedOf, walk>>
  BY DEF SweepEnd, counts
<1> HIDE DEF v
<1>3. \A d \in Chats : Begun(d) \subseteq Begun(d)'
  BY <1>1, <1>2, BegunMoves
<1> QED
  BY <1>2, <1>3, Armed, BoundKept

\* The reset: whatever was asked for fits the budgets of the sweeps before, and
\* the walker has one more.
LEMMA BoundSweepReset ==
  ASSUME Types, BoundInv, NEW s \in Sweeps, SweepReset(s)
  PROVE  BoundInv'
<1> DEFINE v == [sweep[s] EXCEPT !.at = "pick"]
<1>1. v \in Calls /\ v.at = "pick" /\ v.todo = sweep[s].todo
  BY DEF Types, CallsFine, Calls
<1>2. sweep' = [sweep EXCEPT ![s] = v] /\ sweep[s].at = "reset"
  BY DEF SweepReset
<1> HIDE DEF v
<1>3. \A c \in Chats : Begun(c) \subseteq Begun(c)'
  BY <1>1, <1>2, BegunMoves
<1>4. /\ resets' = resets + 1 /\ spent' = 0 /\ asked' = asked /\ askedOf' = askedOf
      /\ \A c \in Chats : ~Walking(c)'
  BY DEF SweepReset, Walking
<1>5. Budget \in Nat /\ resets \in Nat /\ spent \in Nat /\ asked \in Nat
      /\ \A c \in Chats : askedOf[c] \in Nat
  BY WalkAssumption DEF Types, CountsFine
<1>6. asked <= resets * Budget
  <2>1. CASE resets = 0
    BY <1>5, <2>1 DEF BoundInv
  <2>2. CASE resets # 0
    <3> resets * Budget \in Nat
      BY <1>5, ProductSucceeds
    <3> QED
      BY <1>5, <2>2 DEF BoundInv
  <2> QED
    BY <2>1, <2>2
<1>7. asked' + Budget <= resets' * Budget + spent'
  BY <1>4, <1>5, <1>6, ProductSucceeds
<1>8. ASSUME NEW c \in Chats PROVE askedOf'[c] <= Allowed(c)'
  <2>1. askedOf[c] + Room(c) <= Allowed(c) /\ (Walking(c) => walk[c].rounds \in 1..MaxRounds)
    BY DEF BoundInv, Room, Allowed
  <2>2. Room(c) \in Nat
    <3> MaxRounds \in Nat
      BY WalkAssumption
    <3> QED
      BY <2>1 DEF Room
  <2> QED
    BY <1>3, <1>4, <1>5, <2>1, <2>2, AllowedGrows
<1>9. /\ spent' <= Budget /\ resets' # 0
      /\ \A c \in Chats : askedOf'[c] <= Cardinality(Begun(c)') * MaxRounds
      /\ \A c \in Chats : askedOf'[c] \in Nat
  BY <1>4, <1>5, <1>8 DEF Allowed
<1> HIDE DEF Begun
<1> QED
  BY <1>4, <1>7, <1>9 DEF BoundInv

\* A walk begins: the sweep counts for its chat from now on.
LEMMA BoundSweepBegin ==
  ASSUME Types, BoundInv, NEW s \in Sweeps, SweepBegin(s)
  PROVE  BoundInv'
<1>1. /\ sweep[s] \in Calls /\ AimedCall(sweep[s]) /\ sweep[s].at = "begin"
      /\ sweep \in [Sweeps -> Calls]
  BY DEF SweepBegin, Types, CallsFine
<1>2. PICK c \in Chats : c = sweep[s].chat /\ c \notin sweep[s].todo
  BY <1>1 DEF AimedCall
<1>3. resets # 0 /\ UNCHANGED resets
  BY <1>1, Armed DEF SweepBegin
<1>4. Budget \in Nat /\ MaxRounds \in Nat \ {0}
  BY WalkAssumption
<1>5. spent \in Nat /\ asked \in Nat /\ resets \in Nat /\ askedOf \in [Chats -> Nat]
      /\ walk \in [Chats -> [rounds : Nat, anchor : Nat]]
  BY DEF Types, CountsFine, WalksFine
<1>6. CASE spent >= Budget
  <2>1. NextTarget(s) /\ UNCHANGED <<spent, asked, askedOf, walk>>
    BY <1>4, <1>5, <1>6 DEF SweepBegin
  <2> QED
    BY <1>1, <1>3, <2>1, BegunNextTarget, BoundKept
<1>7. CASE spent < Budget
  <2>1. /\ spent' = spent + 1 /\ asked' = asked + 1 /\ askedOf' = [askedOf EXCEPT ![c] = @ + 1]
        /\ walk' = [walk EXCEPT ![c] = [rounds |-> 1, anchor |-> sweep[s].anchor]]
        /\ sweep' = [sweep EXCEPT ![s].at = "request"]
    BY <1>2, <1>4, <1>5, <1>7 DEF SweepBegin
  <2> DEFINE v == [sweep[s] EXCEPT !.at = "request"]
  <2>2. /\ v \in Calls /\ v.at = "request" /\ v.todo = sweep[s].todo
        /\ sweep' = [sweep EXCEPT ![s] = v]
    BY <1>1, <2>1 DEF Calls
  <2> HIDE DEF v
  <2>3. \A d \in Chats : Begun(d) \subseteq Begun(d)'
    BY <1>1, <2>2, BegunMoves
  <2>4. s \notin Begun(c) /\ s \in Begun(c)' /\ Begun(c)' = Begun(c) \cup {s}
    <3>1. s \notin Begun(c)
      BY <1>1, <1>2 DEF Begun
    <3>2. sweep'[s] = v /\ \A r \in Sweeps : r # s => sweep'[r] = sweep[r]
      BY <1>1, <2>2
    <3>3. s \in Begun(c)'
      BY <1>2, <2>2, <3>2 DEF Begun
    <3>4. \A r \in Begun(c)' : r # s => r \in Begun(c)
      BY <3>2 DEF Begun
    <3> QED
      BY <1>2, <2>3, <3>1, <3>3, <3>4
  <2>5. Allowed(c)' = Allowed(c) + MaxRounds /\ Allowed(c) \in Nat
    <3>1. Cardinality(Begun(c)') = Cardinality(Begun(c)) + 1 /\ Cardinality(Begun(c)) \in Nat
      BY <2>4, BegunFinite, FS_AddElement
    <3> HIDE DEF Begun
    <3> QED
      BY <1>4, <3>1, ProductSucceeds DEF Allowed
  <2>6. ASSUME NEW d \in Chats
        PROVE  /\ Walking(d)' => walk'[d].rounds \in 1..MaxRounds
               /\ askedOf'[d] + Room(d)' <= Allowed(d)'
    <3>1. /\ Walking(d) => walk[d].rounds \in 1..MaxRounds
          /\ askedOf[d] + Room(d) <= Allowed(d)
      BY DEF BoundInv, Room, Allowed
    <3>2. Room(d) \in Nat
      BY <1>4, <3>1 DEF Room
    <3>3. CASE d = c
      <4>1. walk'[d].rounds = 1 /\ askedOf'[d] = askedOf[d] + 1
        BY <1>2, <1>5, <2>1, <3>3
      <4>2. Room(d)' <= MaxRounds - 1 /\ Room(d)' \in Nat
        BY <1>4, <4>1 DEF Room
      <4>3. Allowed(d)' = Allowed(d) + MaxRounds /\ Allowed(d) \in Nat
        BY <2>5, <3>3
      <4>4. askedOf[d] \in Nat
        BY <1>5
      <4>5. askedOf'[d] + Room(d)' <= Allowed(d)'
        BY <1>4, <3>1, <3>2, <4>1, <4>2, <4>3, <4>4
      <4> QED
        BY <1>4, <4>1, <4>5
    <3>4. CASE d # c
      <4>1. walk'[d] = walk[d] /\ askedOf'[d] = askedOf[d] /\ askedOf[d] \in Nat
        BY <1>2, <1>5, <2>1, <3>4
      <4>2. Room(d)' = Room(d) /\ (Walking(d)' <=> Walking(d))
        BY <4>1 DEF Room, Walking
      <4> QED
        BY <2>3, <3>1, <3>2, <4>1, <4>2, AllowedGrows
    <3> QED
      BY <3>3, <3>4
  <2>7. asked + Budget <= resets * Budget + spent /\ resets * Budget \in Nat
    BY <1>3, <1>4, <1>5, ProductSucceeds DEF BoundInv
  <2>8. spent' <= Budget /\ asked' + Budget <= resets' * Budget + spent'
    BY <1>3, <1>4, <1>5, <1>7, <2>1, <2>7
  <2> HIDE DEF Begun
  <2> QED
    BY <1>3, <2>6, <2>8 DEF BoundInv, Room, Allowed
<1> QED
  BY <1>4, <1>5, <1>6, <1>7

\* The history goroutine ends a walk, or grants it one more round.
LEMMA BoundNext ==
  ASSUME Types, BoundInv, NextStops \/ NextContinues
  PROVE  BoundInv'
<1>1. PICK c \in Chats : c = hist.chat /\ Walking(c)
  BY ChunkShape DEF NextStops, NextContinues
<1>2. Budget \in Nat /\ MaxRounds \in Nat \ {0}
  BY WalkAssumption
<1>3. spent \in Nat /\ asked \in Nat /\ resets \in Nat /\ askedOf \in [Chats -> Nat]
      /\ walk \in [Chats -> [rounds : Nat, anchor : Nat]]
  BY DEF Types, CountsFine, WalksFine
<1>4. resets # 0 /\ UNCHANGED <<resets, sweep>>
  BY <1>1 DEF BoundInv, NextStops, NextContinues, counts
<1>5. \A d : Begun(d)' = Begun(d)
  BY <1>4 DEF Begun
<1>6. \A d : Allowed(d)' = Allowed(d)
  BY <1>5 DEF Allowed
<1>7. \A d \in Chats : /\ Walking(d) => walk[d].rounds \in 1..MaxRounds
                       /\ askedOf[d] + Room(d) <= Allowed(d)
  BY DEF BoundInv, Room, Allowed
<1>8. \A d \in Chats : Room(d) \in Nat
  BY <1>2, <1>7 DEF Room
<1>9. \A d : Allowed(d) \in Nat
  BY <1>2, BegunFinite, ProductSucceeds DEF Allowed
<1>10. asked + Budget <= resets * Budget + spent /\ resets * Budget \in Nat /\ spent <= Budget
  BY <1>2, <1>3, <1>4, ProductSucceeds DEF BoundInv
<1>11. CASE NextStops
  <2>1. walk' = [walk EXCEPT ![c] = NotWalking] /\ UNCHANGED <<spent, asked, askedOf>>
    BY <1>1, <1>11 DEF NextStops, counts
  <2>2. ASSUME NEW d \in Chats
        PROVE  /\ Walking(d)' => walk'[d].rounds \in 1..MaxRounds
               /\ askedOf'[d] + Room(d)' <= Allowed(d)'
    <3>1. CASE d = c
      <4>1. ~Walking(d)' /\ Room(d)' = 0
        BY <1>1, <1>3, <2>1, <3>1 DEF Walking, Room
      <4>2. askedOf[d] \in Nat /\ askedOf'[d] = askedOf[d]
        BY <1>3, <2>1
      <4> QED
        BY <1>6, <1>7, <1>8, <1>9, <4>1, <4>2
    <3>2. CASE d # c
      <4>1. walk'[d] = walk[d] /\ askedOf'[d] = askedOf[d]
        BY <1>1, <1>3, <2>1, <3>2
      <4>2. Room(d)' = Room(d) /\ (Walking(d)' <=> Walking(d))
        BY <4>1 DEF Room, Walking
      <4> QED
        BY <1>6, <1>7, <4>1, <4>2
    <3> QED
      BY <3>1, <3>2
  <2> HIDE DEF Begun
  <2> QED
    BY <1>4, <1>10, <2>1, <2>2 DEF BoundInv, Room, Allowed
<1>12. CASE NextContinues
  <2>1. /\ walk' = [walk EXCEPT ![c] = [rounds |-> @.rounds + 1, anchor |-> hist.oldest]]
        /\ spent' = spent + 1 /\ asked' = asked + 1 /\ askedOf' = [askedOf EXCEPT ![c] = @ + 1]
        /\ Brake(walk[c], hist.oldest, hist.older) = "none"
    BY <1>1, <1>12 DEF NextContinues
  <2>2. walk[c].rounds < MaxRounds /\ spent < Budget
    <3> walk[c].rounds \in Nat
      BY <1>1, <1>3
    <3> ~(walk[c].rounds >= MaxRounds) /\ ~(spent >= Budget)
      BY <2>1 DEF Brake
    <3> QED
      BY <1>2, <1>3
  <2>3. ASSUME NEW d \in Chats
        PROVE  /\ Walking(d)' => walk'[d].rounds \in 1..MaxRounds
               /\ askedOf'[d] + Room(d)' <= Allowed(d)'
    <3>1. CASE d = c
      <4>1. walk'[d].rounds = walk[d].rounds + 1 /\ askedOf'[d] = askedOf[d] + 1
        BY <1>1, <1>3, <2>1, <3>1
      <4>2. walk[d].rounds \in 1..MaxRounds /\ Room(d) = MaxRounds - walk[d].rounds
        BY <1>1, <1>7, <3>1 DEF Room
      <4>3. Walking(d)' /\ Room(d)' = MaxRounds - (walk[d].rounds + 1)
        <5> walk'[d].rounds # 0
          BY <4>1, <4>2
        <5> Walking(d)'
          BY DEF Walking, NotWalking
        <5> QED
          BY <4>1 DEF Room
      <4>4. askedOf[d] \in Nat
        BY <1>3
      <4>5. askedOf'[d] + Room(d)' <= Allowed(d)'
        BY <1>2, <1>6, <1>7, <1>9, <4>1, <4>2, <4>3, <4>4
      <4>6. walk'[d].rounds \in 1..MaxRounds
        BY <1>2, <2>2, <3>1, <4>1, <4>2
      <4> QED
        BY <4>5, <4>6
    <3>2. CASE d # c
      <4>1. walk'[d] = walk[d] /\ askedOf'[d] = askedOf[d]
        BY <1>1, <1>3, <2>1, <3>2
      <4>2. Room(d)' = Room(d) /\ (Walking(d)' <=> Walking(d))
        BY <4>1 DEF Room, Walking
      <4> QED
        BY <1>6, <1>7, <4>1, <4>2
    <3> QED
      BY <3>1, <3>2
  <2>4. spent' <= Budget /\ asked' + Budget <= resets' * Budget + spent'
    BY <1>2, <1>3, <1>4, <1>10, <2>1, <2>2
  <2> HIDE DEF Begun
  <2> QED
    BY <1>4, <2>3, <2>4 DEF BoundInv, Room, Allowed
<1> QED
  BY <1>11, <1>12

LEMMA BoundStep == Types /\ BoundInv /\ [Next]_vars => BoundInv'
<1> SUFFICES ASSUME Types, BoundInv, [Next]_vars PROVE BoundInv'
  OBVIOUS
<1>1. ASSUME UNCHANGED <<spent, resets, asked, askedOf, walk, sweep>> PROVE BoundInv'
  <2> \A c \in Chats : Begun(c) \subseteq Begun(c)'
    BY <1>1 DEF Begun
  <2> resets = 0 => \A s \in Sweeps : sweep'[s].at \in {"idle", "reset"}
    BY <1>1 DEF BoundInv
  <2> QED
    BY <1>1, BoundKept
<1>2. CASE UNCHANGED vars
  BY <1>1, <1>2 DEF vars, counts
<1>3. ASSUME NEW s \in Sweeps, SweepStep(s) PROVE BoundInv'
  BY <1>3, BoundSweepStart, BoundSweepReset, BoundSweepPick, BoundSweepBegin,
     BoundSweepRequest, BoundSweepEnd DEF SweepStep
<1>4. CASE Recall \/ ChunkRead \/ NextIgnored
  BY <1>1, <1>4 DEF Recall, ChunkRead, NextIgnored, counts
<1>5. CASE NextStops \/ NextContinues
  BY <1>5, BoundNext
<1>6. CASE \E q \in asks : Answer(q) \/ Lose(q) \/ AnswerAgain(q)
  BY <1>1, <1>6 DEF Answer, Lose, AnswerAgain, counts
<1>7. CASE \E q \in pending : SendPending(q)
  BY <1>1, <1>7 DEF SendPending, counts
<1>8. CASE \E c \in Chats : OperatorRequest(c) \/ LiveMessage(c)
  BY <1>1, <1>8 DEF OperatorRequest, LiveMessage, counts
<1> QED
  BY <1>2, <1>3, <1>4, <1>5, <1>6, <1>7, <1>8 DEF Next, HistoryStep, Respond

LEMMA BoundIsEnough == Types /\ BoundInv => RequestsAreBounded
<1> SUFFICES ASSUME Types, BoundInv PROVE RequestsAreBounded
  OBVIOUS
<1>1. Budget \in Nat /\ MaxRounds \in Nat /\ spent \in Nat /\ asked \in Nat /\ resets \in Nat
  BY WalkAssumption DEF Types, CountsFine
<1>2. resets * Budget \in Nat
  BY <1>1, ProductSucceeds
<1>3. asked <= resets * Budget
  BY <1>1, <1>2 DEF BoundInv
<1>4. ASSUME NEW c \in Chats PROVE askedOf[c] <= Cardinality(Sweeps) * MaxRounds
  <2>1. askedOf[c] + Room(c) <= Allowed(c) /\ (Walking(c) => walk[c].rounds \in 1..MaxRounds)
    BY DEF BoundInv, Room, Allowed
  <2>2. Room(c) \in Nat /\ askedOf[c] \in Nat
    BY <1>1, <2>1 DEF Room, Types, CountsFine
  <2>3. /\ Cardinality(Begun(c)) \in Nat /\ Cardinality(Sweeps) \in Nat
        /\ Cardinality(Begun(c)) <= Cardinality(Sweeps)
    BY BegunFinite, WalkAssumption, FS_CardinalityType
  <2>4. Allowed(c) <= Cardinality(Sweeps) * MaxRounds
        /\ Allowed(c) \in Nat /\ Cardinality(Sweeps) * MaxRounds \in Nat
    BY <1>1, <2>3, ProductGrows DEF Allowed
  <2> QED
    BY <2>1, <2>2, <2>4
<1> QED
  BY <1>3, <1>4 DEF RequestsAreBounded

\* However sweeps, chunks, goroutines and failures overlap, the walker asks for
\* no more than Budget requests per sweep and MaxRounds per sweep and chat.
THEOREM WalkerIsBounded == Spec => []RequestsAreBounded
<1>1. Spec => []BoundInv
  BY AlwaysTypes, BoundInitial, BoundStep, PTL DEF Spec
<1> QED
  BY <1>1, AlwaysTypes, BoundIsEnough, PTL

-----------------------------------------------------------------------------
(* What a walk has passed.                                                 *)

\* What was read stays read, and what was excused stays excused.
Progress ==
  \A c \in Chats : /\ excused[c] \subseteq excused'[c]
                   /\ \A t \in Times : Readable(c, t) => Readable(c, t)'

LEMMA ReadStays ==
  ASSUME Progress, NEW c \in Chats, NEW n, ReadDownTo(c, n)
  PROVE  ReadDownTo(c, n)'
BY DEF Progress, ReadDownTo

LEMMA DecodedReadable == \A t : Decoded(t) = "blank" => t \in Carriers
BY DEF Decoded

\* The next row of a chunk is written.
LEMMA RecallReads ==
  ASSUME Types, Recall
  PROVE  /\ Progress
         /\ \A c \in Chats, t \in Times :
              c = hist.chat /\ t = Newest(hist.todo) => t \in excused'[c] \/ Readable(c, t)'
<1>1. PICK c \in Chats : c = hist.chat
  BY ChunkShape DEF Recall
<1>2. PICK t \in Times : t = Newest(hist.todo)
  BY ChunkShape, NewestIsNewest DEF Recall
<1>3. PICK inserts, repairs \in BOOLEAN :
        /\ row' = [row EXCEPT ![c][t] =
              IF inserts /\ (@ = "none" \/ (@ = "blank" /\ repairs)) THEN Decoded(t) ELSE @]
        /\ excused' = [excused EXCEPT ![c] = IF inserts /\ repairs THEN @ ELSE @ \union {t}]
  BY <1>1, <1>2 DEF Recall
<1>4. row \in Rows /\ excused \in [Chats -> SUBSET Times]
  BY DEF Types, RowsFine, PastFine
<1>5. \A d \in Chats : excused[d] \subseteq excused'[d]
  BY <1>3, <1>4
<1>6. \A d \in Chats, u \in Times : row'[d][u] =
        IF d = c /\ u = t /\ inserts /\ (row[d][u] = "none" \/ (row[d][u] = "blank" /\ repairs))
        THEN Decoded(t) ELSE row[d][u]
  BY <1>3, <1>4 DEF Rows
<1>7. Progress
  BY <1>5, <1>6, DecodedReadable DEF Progress, Readable
<1>8. t \in excused'[c] \/ Readable(c, t)'
  <2>1. CASE inserts /\ repairs
    <3> row'[c][t] = "blank" => t \in Carriers
      BY <1>6, <2>1, DecodedReadable
    <3> QED
      BY DEF Readable
  <2>2. CASE ~(inserts /\ repairs)
    BY <1>3, <1>4, <2>2
  <2> QED
    BY <2>1, <2>2
<1> QED
  BY <1>1, <1>2, <1>7, <1>8

LEMMA LiveMessageProgress ==
  ASSUME Types, NEW c \in Chats, LiveMessage(c)
  PROVE  Progress
<1>1. PICK t \in Times : row' = [row EXCEPT ![c][t] = Decoded(t)]
  BY DEF LiveMessage
<1>2. ASSUME NEW d \in Chats, NEW u \in Times
      PROVE  row'[d][u] = IF d = c /\ u = t THEN Decoded(t) ELSE row[d][u]
  <2> row \in Rows
    BY DEF Types, RowsFine
  <2> QED
    BY <1>1 DEF Rows
<1>3. UNCHANGED excused
  BY DEF LiveMessage, past
<1> QED
  BY <1>2, <1>3, DecodedReadable DEF Progress, Readable

\* A request for what is before the newest row leaves nothing behind it.
LEMMA NewestLeavesNothing ==
  ASSUME Types, NEW c \in Chats, NEW n \in Nat, AskNewest(c, n), UNCHANGED row
  PROVE  Progress /\ \A q \in asks' \ asks : q.chat = c /\ ReadDownTo(q.chat, q.before)'
<1>1. PICK N \in Held(c) :
        /\ asks' = asks \union {Ask(c, N, n)}
        /\ excused' = [excused EXCEPT ![c] = @ \union {u \in Held(c) : N <= u}]
  BY DEF AskNewest
<1>2. Held(c) \subseteq Times
  BY DEF Held
<1>3. excused \in [Chats -> SUBSET Times]
  BY DEF Types, PastFine
<1>4. \A t \in Times : t \notin Held(c) => Readable(c, t)
  BY DEF Held, Readable
<1>5. Progress
  BY <1>1, <1>2, <1>3 DEF Progress, Readable
<1>6. ReadDownTo(c, N)'
  <2> SUFFICES ASSUME NEW t \in Times, t \notin excused'[c], N <= t PROVE Readable(c, t)'
    BY DEF ReadDownTo
  <2>1. t \notin Held(c)
    BY <1>1, <1>3
  <2>2. Readable(c, t)
    BY <1>4, <2>1
  <2> QED
    BY <1>5, <2>2 DEF Progress
<1>7. Ask(c, N, n).chat = c /\ Ask(c, N, n).before = N
  BY DEF Ask
<1>8. ASSUME NEW q \in asks' \ asks PROVE q.chat = c /\ q.before = N
  BY <1>1, <1>7, <1>8
<1> QED
  BY <1>5, <1>6, <1>8

\* What GapInv says of a chunk.
Handled(h) ==
  /\ h.oldest # 0 => ReadDownTo(h.chat, h.oldest)
  /\ h.at = "next" => h.oldest # 0
  /\ \A t, u \in h.todo : t..u \subseteq h.todo
  /\ \A t \in h.todo : t + 1 \in h.todo \/ ReadDownTo(h.chat, t + 1)

LEMMA GapMeans ==
  GapInv <=> /\ \A q \in asks \union pending : ReadDownTo(q.chat, q.before)
             /\ hist.at # "idle" => Handled(hist)
BY DEF GapInv, Handled

LEMMA GapMeansThen ==
  GapInv' <=> /\ \A q \in asks' \union pending' : ReadDownTo(q.chat, q.before)'
              /\ \A h : h = hist' /\ h.at # "idle" => Handled(h)'
BY DEF GapInv, Handled

\* A chunk that waits.
LEMMA HandledStays ==
  ASSUME Progress, NEW h, h.chat \in Chats, Handled(h)
  PROVE  Handled(h)'
BY ReadStays DEF Handled

\* What is in flight: it was before, or nothing is unread behind it.
LEMMA FlightKept ==
  ASSUME Types, GapInv, Progress,
         \A q \in (asks' \union pending') \ (asks \union pending) : ReadDownTo(q.chat, q.before)'
  PROVE  \A q \in asks' \union pending' : ReadDownTo(q.chat, q.before)'
<1> SUFFICES ASSUME NEW q \in asks' \union pending' PROVE ReadDownTo(q.chat, q.before)'
  OBVIOUS
<1>1. CASE q \in asks \union pending
  <2> q.chat \in Chats
    BY <1>1 DEF Types, AsksFine, Requested
  <2> ReadDownTo(q.chat, q.before)
    BY <1>1, GapMeans
  <2> QED
    BY ReadStays
<1> QED
  BY <1>1

\* The chunk at hand stays as it is, or there is none.
LEMMA GapKept ==
  ASSUME Types, GapInv, Progress, hist' = hist \/ hist' = NoChunk,
         \A q \in (asks' \union pending') \ (asks \union pending) : ReadDownTo(q.chat, q.before)'
  PROVE  GapInv'
<1> SUFFICES ASSUME NEW h, h = hist', h.at # "idle" PROVE Handled(h)'
  BY FlightKept, GapMeansThen
<1>1. h = hist /\ hist.at # "idle"
  <2> NoChunk.at = "idle"
    BY DEF NoChunk
  <2> QED
    OBVIOUS
<1>2. h.chat \in Chats /\ Handled(h)
  BY <1>1, ChunkShape, GapMeans
<1> QED
  BY <1>2, HandledStays

LEMMA GapRecall ==
  ASSUME Types, GapInv, Recall
  PROVE  GapInv'
<1>1. PICK c \in Chats, todo \in SUBSET Times, o \in Nat, t \in Times :
        /\ c = hist.chat /\ todo = hist.todo /\ o = hist.oldest /\ t = Newest(hist.todo)
        /\ t \in todo /\ \A u \in todo : u <= t
  BY ChunkShape, NewestIsNewest DEF Recall
<1>2. Handled(hist) /\ hist \in Chunks /\ hist.at = "rows"
  BY ChunkShape, GapMeans DEF Recall
<1>3. t \in Nat /\ todo \subseteq Nat
  BY DEF Times
<1>4. Progress /\ (t \in excused'[c] \/ Readable(c, t)')
  BY <1>1, RecallReads
<1>5. ReadDownTo(c, t)'
  <2>1. t + 1 \notin todo
    BY <1>1, <1>3
  <2>2. ReadDownTo(c, t + 1)
    BY <1>1, <1>2, <2>1 DEF Handled
  <2>3. ReadDownTo(c, t + 1)'
    BY <1>4, <2>2, ReadStays
  <2> SUFFICES ASSUME NEW u \in Times, u \notin excused'[c], t <= u PROVE Readable(c, u)'
    BY DEF ReadDownTo
  <2>4. u \in Nat /\ (u = t \/ t + 1 <= u)
    BY <1>3 DEF Times
  <2> QED
    BY <1>4, <2>3, <2>4 DEF ReadDownTo
<1>6. o # 0 => ReadDownTo(c, o)'
  BY <1>1, <1>2, <1>4, ReadStays DEF Handled
<1>7. ASSUME NEW h, h = hist', h.at # "idle" PROVE Handled(h)'
  <2>1. PICK inserts \in BOOLEAN :
          hist' = [hist EXCEPT !.todo = @ \ {t},
                               !.oldest = IF inserts THEN Oldest(@, t) ELSE @]
    BY <1>1 DEF Recall
  <2>2. /\ h.chat = c /\ h.at = "rows" /\ h.todo = todo \ {t}
        /\ h.oldest = t \/ h.oldest = o
    BY <1>1, <1>2, <1>7, <2>1 DEF Chunks, Oldest
  <2>3. h.oldest # 0 => ReadDownTo(h.chat, h.oldest)'
    BY <1>5, <1>6, <2>2
  <2>4. ASSUME NEW u \in h.todo, NEW v \in h.todo PROVE u..v \subseteq h.todo
    <3>1. u \in todo /\ v \in todo /\ v < t /\ u \in Nat /\ v \in Nat
      BY <1>1, <1>3, <2>2
    <3>2. u..v \subseteq todo
      BY <1>1, <1>2, <3>1 DEF Handled
    <3>3. t \notin u..v
      BY <1>3, <3>1
    <3> QED
      BY <2>2, <3>2, <3>3
  <2>5. ASSUME NEW u \in h.todo PROVE u + 1 \in h.todo \/ ReadDownTo(h.chat, u + 1)'
    <3>1. u \in todo
      BY <2>2
    <3>2. u + 1 \in todo \/ ReadDownTo(c, u + 1)
      BY <1>1, <1>2, <3>1 DEF Handled
    <3>3. CASE u + 1 = t
      BY <1>5, <2>2, <3>3
    <3>4. CASE u + 1 # t
      BY <1>4, <2>2, <3>2, <3>4, ReadStays
    <3> QED
      BY <3>3, <3>4
  <2> QED
    BY <2>2, <2>3, <2>4, <2>5 DEF Handled
<1>8. UNCHANGED <<asks, pending>>
  BY DEF Recall
<1> QED
  BY <1>4, <1>7, <1>8, FlightKept, GapMeansThen

LEMMA GapChunkRead ==
  ASSUME Types, GapInv, ChunkRead
  PROVE  GapInv'
<1>1. Progress
  BY DEF ChunkRead, Progress, Readable
<1>2. Handled(hist) /\ hist \in Chunks /\ hist.at = "rows" /\ hist.chat \in Chats /\ hist.todo = {}
  BY ChunkShape, GapMeans DEF ChunkRead
<1>3. UNCHANGED <<asks, pending>>
  BY DEF ChunkRead
<1>4. CASE hist' = NoChunk
  BY <1>1, <1>3, <1>4, GapKept
<1>5. CASE /\ hist.oldest # 0
           /\ hist' = [hist EXCEPT !.at = "next", !.older = HasOlder(hist.chat, hist.oldest)]
  <2>1. ASSUME NEW h, h = hist' PROVE Handled(h)'
    <3>1. h.chat = hist.chat /\ h.oldest = hist.oldest /\ h.todo = {} /\ h.at = "next"
      BY <1>2, <1>5, <2>1 DEF Chunks
    <3>2. Handled(h)
      BY <1>2, <1>5, <3>1 DEF Handled
    <3>3. h.chat \in Chats
      BY <1>2, <3>1
    <3> QED
      BY <1>1, <3>2, <3>3, HandledStays
  <2> QED
    BY <1>1, <1>3, <2>1, FlightKept, GapMeansThen
<1> QED
  BY <1>4, <1>5 DEF ChunkRead

LEMMA GapNext ==
  ASSUME Types, GapInv, NextIgnored \/ NextStops \/ NextContinues
  PROVE  GapInv'
<1>1. Progress /\ hist' = NoChunk /\ UNCHANGED asks
  BY DEF NextIgnored, NextStops, NextContinues, Progress, Readable, past
<1>2. ASSUME NEW q \in pending' \ pending PROVE ReadDownTo(q.chat, q.before)'
  <2>1. PICK c \in Chats, o \in Nat :
          c = hist.chat /\ o = hist.oldest /\ Handled(hist) /\ hist.at = "next"
    BY ChunkShape, GapMeans DEF NextIgnored, NextStops, NextContinues
  <2>2. q.chat = c /\ q.before = o
    BY <1>2, <2>1 DEF NextIgnored, NextStops, NextContinues, Ask
  <2>3. ReadDownTo(c, o)
    BY <2>1 DEF Handled
  <2> QED
    BY <1>1, <2>2, <2>3, ReadStays
<1> QED
  BY <1>1, <1>2, GapKept

LEMMA GapRespond ==
  ASSUME Types, GapInv, NEW q \in asks, Answer(q) \/ Lose(q) \/ AnswerAgain(q)
  PROVE  GapInv'
<1>1. Progress /\ asks' \subseteq asks /\ UNCHANGED pending
  BY DEF Answer, Lose, AnswerAgain, Progress, Readable, past
<1>2. CASE hist' = hist
  BY <1>1, <1>2, GapKept
<1>3. CASE hist' = Chunk(q)
  <2>1. q \in Requested /\ q.chat \in Chats /\ q.before \in Nat /\ q.count \in Nat
    BY DEF Types, AsksFine, Requested
  <2>2. ReadDownTo(q.chat, q.before)
    BY GapMeans
  <2> Depth \in Nat
    BY WalkAssumption
  <2>3. /\ \A t \in Reply(q) : t \in Nat
        /\ \A t \in Nat : t \in Reply(q) <=> /\ 1 <= t /\ t <= Depth
                                             /\ q.before - q.count <= t /\ t < q.before
    BY DEF Reply, Times
  <2>4. ASSUME NEW h, h = hist' PROVE Handled(h)
    <3>1. h.chat = q.chat /\ h.oldest = 0 /\ h.at = "rows" /\ h.todo = Reply(q)
      BY <1>3, <2>1, <2>4, ChunkTyped
    <3>2. ASSUME NEW t \in Reply(q), NEW u \in Reply(q) PROVE t..u \subseteq Reply(q)
      <4> t \in Nat /\ u \in Nat
        BY <2>3
      <4> SUFFICES ASSUME NEW w \in t..u PROVE w \in Reply(q)
        OBVIOUS
      <4> w \in Nat /\ t <= w /\ w <= u
        OBVIOUS
      <4> QED
        BY <2>1, <2>3
    <3>3. ASSUME NEW t \in Reply(q), t + 1 \notin Reply(q) PROVE ReadDownTo(q.chat, t + 1)
      <4>1. t + 1 = q.before \/ t + 1 > Depth
        <5> t \in Nat /\ t + 1 \in Nat
          BY <2>3
        <5> QED
          BY <2>1, <2>3, <3>3
      <4>2. CASE t + 1 = q.before
        BY <2>2, <4>2
      <4>3. CASE t + 1 > Depth
        <5> t \in Nat
          BY <2>3
        <5> QED
          BY <4>3 DEF ReadDownTo, Times
      <4> QED
        BY <4>1, <4>2, <4>3
    <3> HIDE DEF ReadDownTo
    <3> QED
      BY <3>1, <3>2, <3>3 DEF Handled
  <2>5. ASSUME NEW h, h = hist' PROVE Handled(h)'
    <3> h.chat \in Chats
      BY <1>3, <2>1, <2>5, ChunkTyped
    <3> QED
      BY <1>1, <2>4, <2>5, HandledStays
  <2> QED
    BY <1>1, <2>5, FlightKept, GapMeansThen
<1> QED
  BY <1>2, <1>3 DEF Answer, Lose, AnswerAgain

LEMMA GapSendPending ==
  ASSUME Types, GapInv, NEW q \in pending, SendPending(q)
  PROVE  GapInv'
<1>1. Progress /\ hist' = hist /\ asks' \union pending' \subseteq asks \union pending
  BY DEF SendPending, Progress, Readable
<1> QED
  BY <1>1, GapKept

LEMMA GapAskNewest ==
  ASSUME Types, GapInv, NEW c \in Chats, NEW n \in Nat, AskNewest(c, n),
         UNCHANGED <<row, hist, pending>>
  PROVE  GapInv'
BY NewestLeavesNothing, GapKept

LEMMA GapStep == Types /\ GapInv /\ [Next]_vars => GapInv'
<1> SUFFICES ASSUME Types, GapInv, [Next]_vars PROVE GapInv'
  OBVIOUS
<1>1. ASSUME UNCHANGED <<row, excused, hist, asks, pending>> PROVE GapInv'
  <2> Progress
    BY <1>1 DEF Progress, Readable
  <2> QED
    BY <1>1, GapKept
<1>2. CASE UNCHANGED vars
  BY <1>1, <1>2 DEF vars, past
<1>3. ASSUME NEW s \in Sweeps, SweepStep(s) PROVE GapInv'
  <2>1. CASE SweepRequest(s)
    <3>1. PICK c \in Chats : c = sweep[s].chat
      BY <2>1 DEF SweepRequest, Types, CallsFine, AimedCall
    <3>2. Window \in Nat
      BY WalkAssumption
    <3>3. UNCHANGED <<row, hist, pending>>
      BY <2>1 DEF SweepRequest
    <3>4. AskNewest(c, Window) \/ UNCHANGED <<asks, excused>>
      BY <2>1, <3>1 DEF SweepRequest
    <3> QED
      BY <1>1, <3>2, <3>3, <3>4, GapAskNewest
  <2>2. CASE ~SweepRequest(s)
    BY <1>1, <1>3, <2>2
       DEF SweepStep, SweepStart, SweepReset, SweepPick, SweepBegin, SweepEnd, past
  <2> QED
    BY <2>1, <2>2
<1>4. CASE HistoryStep
  BY <1>4, GapRecall, GapChunkRead, GapNext DEF HistoryStep
<1>5. CASE \E q \in asks : Answer(q) \/ Lose(q) \/ AnswerAgain(q)
  BY <1>5, GapRespond
<1>6. CASE \E q \in pending : SendPending(q)
  BY <1>6, GapSendPending
<1>7. ASSUME NEW c \in Chats, OperatorRequest(c) PROVE GapInv'
  <2> OperatorCount \in Nat
    BY WalkAssumption
  <2> QED
    BY <1>7, GapAskNewest DEF OperatorRequest
<1>8. ASSUME NEW c \in Chats, LiveMessage(c) PROVE GapInv'
  BY <1>8, LiveMessageProgress, GapKept DEF LiveMessage
<1> QED
  BY <1>2, <1>3, <1>4, <1>5, <1>6, <1>7, <1>8 DEF Next, Respond

\* A step that moves no walk.
LEMMA NoGapKept ==
  ASSUME WalkLeavesNoGap, Progress, NEW c \in Chats, Walking(c),
         walk'[c] = walk[c], start'[c] = start[c]
  PROVE  \A t \in Times \ excused'[c] :
           walk'[c].anchor <= t /\ t < start'[c] => Readable(c, t)'
BY DEF WalkLeavesNoGap, Progress, Readable

LEMMA NoGapStep == Types /\ GapInv /\ WalkLeavesNoGap /\ [Next]_vars => WalkLeavesNoGap'
<1> SUFFICES ASSUME Types, GapInv, WalkLeavesNoGap, [Next]_vars, NEW c \in Chats, Walking(c)',
                    NEW t \in Times, t \notin excused'[c],
                    walk'[c].anchor <= t, t < start'[c]
             PROVE  Readable(c, t)'
  BY DEF WalkLeavesNoGap, Readable
<1> walk \in [Chats -> [rounds : Nat, anchor : Nat]] /\ start \in [Chats -> Nat]
  BY DEF Types, WalksFine
<1>1. ASSUME Progress, walk'[c] = walk[c], start'[c] = start[c] PROVE Readable(c, t)'
  <2> Walking(c)
    BY <1>1 DEF Walking
  <2> QED
    BY <1>1, NoGapKept
<1>2. CASE UNCHANGED vars
  <2> Progress
    BY <1>2 DEF vars, past, Progress, Readable
  <2> QED
    BY <1>1, <1>2 DEF vars, past
<1>3. ASSUME NEW s \in Sweeps, SweepStep(s) PROVE Readable(c, t)'
  <2>1. CASE SweepReset(s)
    BY <2>1 DEF SweepReset, Walking
  <2>2. CASE SweepBegin(s)
    <3> Progress
      BY <2>2 DEF SweepBegin, Progress, Readable
    <3>1. CASE sweep[s].chat = c /\ start' = [start EXCEPT ![c] = sweep[s].anchor]
               /\ walk' = [walk EXCEPT ![c] = [rounds |-> 1, anchor |-> sweep[s].anchor]]
      <4>1. walk'[c].anchor = sweep[s].anchor /\ start'[c] = sweep[s].anchor
        BY <3>1
      <4>2. sweep[s].anchor \in Nat /\ t \in Nat
        <5> sweep[s] \in Calls
          BY DEF Types, CallsFine
        <5> sweep[s].anchor \in Nat
          BY DEF Calls
        <5> QED
          BY DEF Times
      <4> QED
        BY <4>1, <4>2
    <3>2. CASE walk'[c] = walk[c] /\ start'[c] = start[c]
      BY <1>1, <3>2
    <3> QED
      BY <2>2, <3>1, <3>2 DEF SweepBegin
  <2>3. CASE SweepRequest(s)
    <3> Progress
      <4> PICK d \in Chats : d = sweep[s].chat
        BY <2>3 DEF SweepRequest, Types, CallsFine, AimedCall
      <4> Window \in Nat /\ UNCHANGED row
        BY <2>3, WalkAssumption DEF SweepRequest
      <4> AskNewest(d, Window) \/ UNCHANGED excused
        BY <2>3 DEF SweepRequest
      <4> QED
        BY NewestLeavesNothing DEF Progress, Readable
    <3> QED
      BY <1>1, <2>3 DEF SweepRequest
  <2>4. CASE SweepStart(s) \/ SweepEnd(s) \/ \E d \in Chats : SweepPick(s, d)
    <3> Progress
      BY <2>4 DEF SweepStart, SweepEnd, SweepPick, past, Progress, Readable
    <3> QED
      BY <1>1, <2>4 DEF SweepStart, SweepEnd, SweepPick, past
  <2> QED
    BY <1>3, <2>1, <2>2, <2>3, <2>4 DEF SweepStep
<1>4. CASE Recall
  <2> Progress
    BY <1>4, RecallReads
  <2> QED
    BY <1>1, <1>4 DEF Recall
<1>5. CASE ChunkRead \/ NextIgnored
  <2> Progress
    BY <1>5 DEF ChunkRead, NextIgnored, past, Progress, Readable
  <2> QED
    BY <1>1, <1>5 DEF ChunkRead, NextIgnored, past
<1>6. CASE NextStops
  <2> Progress
    BY <1>6 DEF NextStops, Progress, Readable
  <2> hist.chat # c
    BY <1>6 DEF NextStops, Walking
  <2> QED
    BY <1>1, <1>6 DEF NextStops
<1>7. CASE NextContinues
  <2> Progress
    BY <1>7 DEF NextContinues, past, Progress, Readable
  <2>1. CASE hist.chat = c
    <3>1. walk'[c].anchor = hist.oldest /\ hist.oldest # 0 /\ hist.at = "next"
      BY <1>7, <2>1, GapMeans DEF NextContinues, Handled
    <3>2. ReadDownTo(c, hist.oldest)
      BY <2>1, <3>1, GapMeans DEF Handled
    <3>3. t \notin excused[c]
      BY DEF Progress
    <3> QED
      BY <3>1, <3>2, <3>3 DEF ReadDownTo, Progress
  <2>2. CASE hist.chat # c
    BY <1>1, <1>7, <2>2 DEF NextContinues, past
  <2> QED
    BY <2>1, <2>2
<1>8. CASE \E q \in asks : Answer(q) \/ Lose(q) \/ AnswerAgain(q)
  <2> Progress
    BY <1>8 DEF Answer, Lose, AnswerAgain, past, Progress, Readable
  <2> QED
    BY <1>1, <1>8 DEF Answer, Lose, AnswerAgain, past
<1>9. CASE \E q \in pending : SendPending(q)
  <2> Progress
    BY <1>9 DEF SendPending, Progress, Readable
  <2> QED
    BY <1>1, <1>9 DEF SendPending
<1>10. ASSUME NEW d \in Chats, OperatorRequest(d) PROVE Readable(c, t)'
  <2> OperatorCount \in Nat
    BY WalkAssumption
  <2> Progress
    BY <1>10, NewestLeavesNothing DEF OperatorRequest
  <2> QED
    BY <1>1, <1>10 DEF OperatorRequest
<1>11. ASSUME NEW d \in Chats, LiveMessage(d) PROVE Readable(c, t)'
  <2> Progress
    BY <1>11, LiveMessageProgress
  <2> QED
    BY <1>1, <1>11 DEF LiveMessage, past
<1> QED
  BY <1>2, <1>3, <1>4, <1>5, <1>6, <1>7, <1>8, <1>9, <1>10, <1>11
     DEF Next, HistoryStep, Respond

LEMMA GapInitial == Init => GapInv /\ WalkLeavesNoGap
<1> SUFFICES ASSUME Init PROVE GapInv /\ WalkLeavesNoGap
  OBVIOUS
<1>1. asks = {} /\ pending = {} /\ hist.at = "idle"
  BY DEF Init, NoChunk
<1>2. \A c \in Chats : ~Walking(c)
  BY DEF Init, Walking
<1>3. GapInv
  BY <1>1 DEF GapInv
<1>4. WalkLeavesNoGap
  BY <1>2 DEF WalkLeavesNoGap
<1> QED
  BY <1>3, <1>4

\* A walk passes over nothing: behind the row it has reached every row of its
\* walk is readable, but for those sweeps and operators asked before and those a
\* statement failed on, whatever chunks of other requests it mistakes for its own.
THEOREM WalksLeaveNoGap == Spec => []WalkLeavesNoGap
<1>1. Spec => []GapInv
  BY AlwaysTypes, GapInitial, GapStep, PTL DEF Spec
<1> QED
  BY <1>1, AlwaysTypes, GapInitial, NoGapStep, PTL DEF Spec
=============================================================================
