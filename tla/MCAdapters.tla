----------------------------- MODULE MCAdapters -----------------------------
(* Small instances of the channel implementations for TLC: the inbound       *)
(* pipelines and their memories of message ids, typing loops, the state an   *)
(* answer needs, splitting, sending with retries, WeCom's streams, and the   *)
(* connections kept to bridges and clients.  They share no state; a          *)
(* behaviour is one of a single part.                                        *)
EXTENDS ChannelInbound, TypingSessions, ServerConns, TLC
LOCAL INSTANCE SequencesExt

CONSTANTS s1, s2    \* messages to send: which is which makes no difference
Alike == Permutations({s1, s2})

VARIABLES part,
  memory, ring, idx, known, clock, arrivals, sweeps,
  api, slot, seq, storing, send, calls, seen, unheard, done,
  way, good, attempt, step, op, carried, reached, pending, result, sent, trouble, forgone,
  asked, answered, parts, outbox, streams, queue, closed, finished, cancelled, age, answerCh, worker, poll, came, posts,
  message, text, start, chunk, brought, again, stalled

Ids == INSTANCE MessageDedup WITH
  Ids <- {"a", "b", "c", ""}, NoId <- "", Size <- 2, TTL <- 2, MaxArrivals <- 5, janitor <- sweeps
Replies == INSTANCE ReplyState WITH
  Posts <- {1, 2}, Sends <- {s1, s2}, None <- 0, MaxAttempts <- 2, handler <- storing, lost <- unheard
Sends == INSTANCE ChannelSend WITH
  NumParts <- 2, MaxAttempts <- 3, sender <- way, at <- step
Answers == INSTANCE AIBotStreams WITH
  NumQuestions <- 2, None <- 0, MaxParts <- 2

(* Messages of up to six pieces: fences, white space, words, long words.    *)
MaxPieces == 6
LOCAL letter == 1
LOCAL Pieces == {<<-2, -2, -2>>, <<0>>, <<-1>>, <<letter>>, [i \in 1..7 |-> letter]}
LOCAL Numbered(s) == [i \in 1..Len(s) |-> IF s[i] = letter THEN i ELSE s[i]]
LOCAL Texts == {Numbered(FlattenSeq(p)) : p \in BoundedSeq(Pieces, MaxPieces)}
Split == INSTANCE MessageSplit WITH
  Messages <- Texts, MaxLen <- 20, Reserve <- 6, LineWindow <- 6, SpaceWindow <- 4, Enough <- 3, MaxText <- 60,
  sent <- brought

LOCAL dedup == <<memory, ring, idx, known, clock, arrivals, sweeps>>
LOCAL reply == <<api, slot, seq, storing, send, calls, seen, unheard, done>>
LOCAL sending == <<way, good, attempt, step, op, carried, reached, pending, result, sent, trouble, forgone>>
LOCAL streaming == <<asked, answered, parts, outbox, streams, queue, closed, finished, cancelled, age, answerCh,
                     worker, poll, came, posts>>
LOCAL splitting == <<message, text, start, chunk, brought, again, stalled>>

MCInit ==
  /\ part \in {"inbound", "dedup", "typing", "reply", "sending", "streams", "bridge", "native", "served",
              "split"}
  /\ Init /\ (part = "inbound" \/ (adapter = "pico" /\ event = Ordinary))
  /\ Ids!Init /\ (part = "dedup" \/ memory = "qq")
  /\ TypingInit /\ (part = "typing" \/ keeps = "table")
  /\ Replies!Init /\ (part = "reply" \/ api = "qq")
  /\ Sends!Init /\ (part = "sending" \/ way = "pico")
  /\ Answers!Init
  /\ BridgeInit /\ (part = "bridge" \/ policy = "once")
  /\ NativeInit /\ (part = "native" \/ paired)
  /\ ServerInit /\ (part = "served" \/ server = "pico")
  /\ IF part = "split" THEN Split!Init ELSE message = <<>> /\ Split!Init

OnlyInbound == part = "inbound" /\ Next
  /\ UNCHANGED <<part, dedup, tyVars, reply, sending, streaming, bcVars, ncVars, scVars, splitting>>
OnlyDedup == part = "dedup" /\ Ids!Next
  /\ UNCHANGED <<part, inVars, tyVars, reply, sending, streaming, bcVars, ncVars, scVars, splitting>>
OnlyTyping == part = "typing" /\ TypingNext
  /\ UNCHANGED <<part, inVars, dedup, reply, sending, streaming, bcVars, ncVars, scVars, splitting>>
OnlyReply == part = "reply" /\ Replies!Next
  /\ UNCHANGED <<part, inVars, dedup, tyVars, sending, streaming, bcVars, ncVars, scVars, splitting>>
OnlySending == part = "sending" /\ Sends!Next
  /\ UNCHANGED <<part, inVars, dedup, tyVars, reply, streaming, bcVars, ncVars, scVars, splitting>>
OnlyStreams == part = "streams" /\ Answers!Next
  /\ UNCHANGED <<part, inVars, dedup, tyVars, reply, sending, bcVars, ncVars, scVars, splitting>>
OnlyBridge == part = "bridge" /\ BridgeNext
  /\ UNCHANGED <<part, inVars, dedup, tyVars, reply, sending, streaming, ncVars, scVars, splitting>>
OnlyNative == part = "native" /\ NativeNext
  /\ UNCHANGED <<part, inVars, dedup, tyVars, reply, sending, streaming, bcVars, scVars, splitting>>
OnlyServed == part = "served" /\ ServerNext
  /\ UNCHANGED <<part, inVars, dedup, tyVars, reply, sending, streaming, bcVars, ncVars, splitting>>
OnlySplit == part = "split" /\ Split!Next
  /\ UNCHANGED <<part, inVars, dedup, tyVars, reply, sending, streaming, bcVars, ncVars, scVars>>

MCNext ==
  OnlyInbound \/ OnlyDedup \/ OnlyTyping \/ OnlyReply \/ OnlySending \/ OnlyStreams
    \/ OnlyBridge \/ OnlyNative \/ OnlyServed \/ OnlySplit

MCSpec ==
  /\ MCInit
  /\ [][MCNext]_<<part, inVars, dedup, tyVars, reply, sending, streaming, bcVars, ncVars, scVars, splitting>>

(* A post reaches the bus once where ids are kept, in a group only when it  *)
(* is for the bot, never as an echo, and leaves no file behind that the     *)
(* order of the checks would have avoided; the memories of ids refuse what  *)
(* they accepted and nothing else, up to their size and lifetime.           *)
InboundSound ==
  /\ part = "inbound" =>
       /\ TypeOK /\ PublishedOnce /\ GroupsAsked /\ NoEcho
       /\ RejectedFetchNothing /\ FilesCarried /\ InvalidLeavesNothing
  /\ part = "dedup" => Ids!TypeOK /\ Ids!NotTwice /\ Ids!RefusesKnown

(* A message is cut into chunks that fit, in order and without loss, with   *)
(* nothing twice but headers; blocks that stand on lines of their own are   *)
(* whole in every chunk; and each round leaves less to split, unless the    *)
(* line a block opens with nearly fills a chunk.                            *)
SplitSound ==
  part = "split" =>
    /\ Split!TypeOK /\ Split!ChunkFits /\ Split!NothingLost /\ Split!TwiceInHeader
    /\ Split!BlocksWhole /\ Split!GetsOn

(* What users see twice has a reason, success means all parts, and what an  *)
(* answer uses up (tokens, sequence numbers, response URLs, streams) is     *)
(* used once, for the post it belongs to.                                   *)
OutboundSound ==
  /\ part = "sending" =>
       /\ Sends!TypeOK /\ Sends!OncePerTrouble
       /\ Sends!SuccessIsWhole /\ Sends!AllOrNothing /\ Sends!InOrder
  /\ part = "reply" =>
       /\ Replies!TypeOK /\ Replies!TokenOnce
       /\ Replies!SeenTwiceIfLost /\ Replies!SeqOnce /\ Replies!AckMeansAnswer
  /\ part = "streams" =>
       /\ Answers!TypeOK /\ Answers!MapsAgree /\ Answers!URLOnce
       /\ Answers!AnsweredOnce /\ Answers!AnswersItsQuestion
=============================================================================
