----------------------------- MODULE AgentSession -----------------------------
(***************************************************************************)
(* pkg/agent/loop.go and context.go: one conversation's history while      *)
(* rounds append to it (a round of the main loop, and one of a cron job    *)
(* that is routed to the same session), a goroutine summarizes it, a       *)
(* context error compresses it and /clear empties it; and what of it the   *)
(* model is sent (sanitizeHistoryForProvider).                             *)
(***************************************************************************)
EXTENDS Naturals, Sequences, FiniteSets, SequencesExt

CONSTANTS
  Rounds,       \* goroutines that process messages of the session
  Keep,         \* messages a summary keeps, and a compression refuses to cut
  Threshold,    \* SummarizeMessageThreshold
  MaxTurns,
  MaxRetries,   \* maxRetries of a failing LLM call
  MaxMsgs       \* bound: messages ever appended

ASSUME SessionAssumption ==
  Keep \in Nat \ {0} /\ {Threshold, MaxTurns, MaxRetries, MaxMsgs} \subseteq Nat

VARIABLES
  history,     \* the session's messages
  summary,     \* numbers of the messages its summary tells of
  turn,        \* turn[r]: the round's place, iteration, retry, calls without result, copy
  summarizing, \* the summarizer goroutine: place, copy
  next,        \* number of the next message
  dropped,     \* history: cut by a compression, with a note
  cleared,     \* history: gone by /clear
  overlap,     \* history: numbers appended while another goroutine held a copy
  raced        \* history: another goroutine held a copy when /clear was run

sessionVars == <<history, summary, turn, summarizing, next, dropped, cleared, overlap, raced>>

(* providers.Message: role, the ids of the calls it makes, the id it        *)
(* answers, and a number to know it by.                                     *)
Msg(n, role, calls, of) == [n |-> n, role |-> role, calls |-> calls, of |-> of]
Numbers(s) == {s[i].n : i \in DOMAIN s}

(* First pass of sanitizeHistoryForProvider: system messages go, a tool     *)
(* result stays behind an assistant turn with calls and its results, such a *)
(* turn stays behind a user message or a result.                            *)
LastOther(s) ==
  LET others == {i \in DOMAIN s : s[i].role # "tool"}
  IN  IF others = {} THEN 0 ELSE CHOOSE i \in others : \A j \in others : j <= i
Fits(s, m) ==
  CASE m.role = "system" -> FALSE
    [] m.role = "tool" -> LastOther(s) > 0 /\ s[LastOther(s)].calls # {}
    [] m.calls # {} -> s # <<>> /\ Last(s).role \in {"user", "tool"}
    [] OTHER -> TRUE
Pass1(h) == FoldLeft(LAMBDA s, m : IF Fits(s, m) THEN Append(s, m) ELSE s, <<>>, h)

(* Second pass: a turn whose calls are not all answered by the results that *)
(* directly follow goes, and these with it.                                 *)
ResultsAfter(s, i) == {j \in DOMAIN s : j > i /\ \A k \in i + 1..j : s[k].role = "tool"}
Complete(s, i) == s[i].calls \subseteq {s[j].of : j \in ResultsAfter(s, i)}
TurnOf(s, i) ==
  IF s[i].role # "tool" THEN i ELSE CHOOSE k \in 1..i : s[k].role # "tool" /\ i \in ResultsAfter(s, k)
KeptResults(s) == {i \in DOMAIN s : Complete(s, i)}
Kept(s) == {i \in DOMAIN s : Complete(s, TurnOf(s, i))}
Pass2(s) ==
  [k \in 1..Cardinality(Kept(s)) |-> s[CHOOSE i \in Kept(s) : Cardinality({j \in Kept(s) : j <= i}) = k]]
Sanitize(h) == Pass2(Pass1(h))

NoTurn == [at |-> "idle", iteration |-> 0, retry |-> 0, waits |-> <<>>, copy |-> <<>>]
SessionInit ==
  /\ history = <<>> /\ summary = {} /\ next = 1
  /\ turn = [r \in Rounds |-> NoTurn]
  /\ summarizing = [at |-> "idle", copy |-> <<>>]
  /\ dropped = {} /\ cleared = {} /\ overlap = {} /\ raced = FALSE

(* Someone else has read the history and will replace it.                  *)
Copied(r) == summarizing.at # "idle" \/ \E q \in Rounds \ {r} : turn[q].at = "compress"
Append1(r, role, calls, of) ==
  /\ next <= MaxMsgs
  /\ history' = Append(history, Msg(next, role, calls, of))
  /\ next' = next + 1
  /\ overlap' = IF Copied(r) THEN overlap \cup {next} ELSE overlap
  /\ UNCHANGED <<summary, summarizing, dropped, cleared, raced>>

(* runAgentLoop: the history is read for the request, the user message is  *)
(* added.                                                                   *)
AddUser(r) ==
  /\ turn[r].at = "idle"
  /\ Append1(r, "user", {}, 0)
  /\ turn' = [turn EXCEPT ![r] = [NoTurn EXCEPT !.at = "call"]]

(* runLLMIteration: the turn with its calls, the results in its order.     *)
CallTools(r) ==
  /\ turn[r].at = "call" /\ turn[r].iteration < MaxTurns
  /\ \E k \in 1..2 :
       LET ids == [i \in 1..k |-> 10 * next + i] IN
       /\ Append1(r, "assistant", ToSet(ids), 0)
       /\ turn' = [turn EXCEPT ![r] = [turn[r] EXCEPT !.at = "results", !.iteration = turn[r].iteration + 1,
                                                     !.retry = 0, !.waits = ids]]
Result(r) ==
  /\ turn[r].at = "results" /\ turn[r].waits # <<>>
  /\ Append1(r, "tool", {}, Head(turn[r].waits))
  /\ turn' = [turn EXCEPT ![r] = [turn[r] EXCEPT !.waits = Tail(turn[r].waits)]]
Results(r, stop) ==
  /\ turn[r].at = "results" /\ turn[r].waits = <<>>
  /\ turn' = [turn EXCEPT ![r] = [turn[r] EXCEPT !.at = IF stop THEN "final" ELSE "call"]]
  /\ UNCHANGED <<history, summary, summarizing, next, dropped, cleared, overlap, raced>>

(* A direct answer, or the default one after MaxTurns or a stop; then  *)
(* maybeSummarize starts the goroutine unless one is at it.                 *)
TooLong == Len(history) > Threshold
Final(r) ==
  /\ turn[r].at \in {"call", "final"}
  /\ Append1(r, "assistant", {}, 0)
  /\ turn' = [turn EXCEPT ![r] = [NoTurn EXCEPT !.at = "saved"]]
MaybeSummarize(r) ==
  /\ turn[r].at = "saved"
  /\ summarizing' = IF TooLong /\ summarizing.at = "idle" THEN [summarizing EXCEPT !.at = "start"] ELSE summarizing
  /\ turn' = [turn EXCEPT ![r] = NoTurn]
  /\ UNCHANGED <<history, summary, next, dropped, cleared, overlap, raced>>

(* The call fails for good: the user message stays without answer.         *)
LLMFails(r) ==
  /\ turn[r].at = "call"
  /\ turn' = [turn EXCEPT ![r] = NoTurn]
  /\ UNCHANGED <<history, summary, summarizing, next, dropped, cleared, overlap, raced>>

(* A context error: forceCompression reads the history, keeps its first     *)
(* message, the later half of the middle and the last, and sets it.         *)
ContextError(r) ==
  /\ turn[r].at = "call" /\ turn[r].retry < MaxRetries
  /\ turn' = [turn EXCEPT ![r] = [turn[r] EXCEPT !.at = "compress", !.retry = turn[r].retry + 1,
                                                !.copy = history]]
  /\ UNCHANGED <<history, summary, summarizing, next, dropped, cleared, overlap, raced>>
Compressed(h) ==
  LET middle == SubSeq(h, 2, Len(h) - 1)
  IN  <<h[1]>> \o SubSeq(middle, Len(middle) \div 2 + 1, Len(middle)) \o <<Last(h)>>
Compress(r) ==
  /\ turn[r].at = "compress"
  /\ turn' = [turn EXCEPT ![r] = [turn[r] EXCEPT !.at = "call", !.copy = <<>>]]
  /\ LET copy == turn[r].copy IN
     IF Len(copy) <= Keep THEN UNCHANGED <<history, dropped>>
     ELSE /\ history' = Compressed(copy)
          /\ dropped' = dropped \cup (Numbers(copy) \ Numbers(Compressed(copy)))
  /\ UNCHANGED <<summary, summarizing, next, cleared, overlap, raced>>

(* summarizeSession: the copy, the model's summary of all but the last Keep *)
(* (results of tools are left out of it), then the summary and the cut.     *)
Started ==
  /\ summarizing.at = "start"
  /\ summarizing' = IF Len(history) <= Keep THEN [at |-> "idle", copy |-> <<>>]
                    ELSE [at |-> "asks", copy |-> history]
  /\ UNCHANGED <<history, summary, turn, next, dropped, cleared, overlap, raced>>
Told(copy) == Numbers(SubSeq(copy, 1, Len(copy) - Keep))
SetSummary ==
  /\ summarizing.at = "asks"
  /\ summarizing' = [summarizing EXCEPT !.at = "cuts"]
  /\ summary' = summary \cup Told(summarizing.copy)
  /\ UNCHANGED <<history, turn, next, dropped, cleared, overlap, raced>>
Tailed == SubSeq(history, (IF Len(history) > Keep THEN Len(history) - Keep ELSE 0) + 1, Len(history))
Truncate ==
  /\ summarizing.at = "cuts"
  /\ history' = Tailed
  /\ summarizing' = [at |-> "idle", copy |-> <<>>]
  /\ UNCHANGED <<summary, turn, next, dropped, cleared, overlap, raced>>
(* Nothing to tell, or an empty answer.                                    *)
NoSummary ==
  /\ summarizing.at = "asks"
  /\ summarizing' = [at |-> "idle", copy |-> <<>>]
  /\ UNCHANGED <<history, summary, turn, next, dropped, cleared, overlap, raced>>

(* The /clear command of a round. *)
SummaryLeft == summary
NoSummaryLeft == {}
ClearHistory(r) ==
  /\ turn[r].at = "idle" /\ history # <<>>
  /\ history' = <<>> /\ summary' = NoSummaryLeft
  /\ cleared' = cleared \cup Numbers(history) \cup summary
  /\ raced' = (raced \/ Copied(r))
  /\ UNCHANGED <<turn, summarizing, next, dropped, overlap>>

SessionNext ==
  \/ \E r \in Rounds : \/ AddUser(r) \/ CallTools(r) \/ Result(r) \/ Final(r) \/ MaybeSummarize(r)
                       \/ LLMFails(r) \/ ContextError(r) \/ Compress(r) \/ ClearHistory(r)
                       \/ \E stop \in BOOLEAN : Results(r, stop)
  \/ Started \/ SetSummary \/ NoSummary \/ Truncate

SessionSpec == SessionInit /\ [][SessionNext]_sessionVars
-----------------------------------------------------------------------------
Message ==
  [n : Nat, role : {"user", "assistant", "tool"}, calls : SUBSET Nat, of : Nat]
SessionTypeOK ==
  /\ history \in Seq(Message) /\ next \in 1..MaxMsgs + 1 /\ raced \in BOOLEAN
  /\ summary \cup dropped \cup cleared \cup overlap \subseteq 1..next - 1
  /\ turn \in [Rounds -> [at : {"idle", "call", "results", "final", "saved", "compress"},
                          iteration : 0..MaxTurns, retry : 0..MaxRetries,
                          waits : Seq(Nat), copy : Seq(Message)]]
  /\ summarizing \in [at : {"idle", "start", "asks", "cuts"}, copy : Seq(Message)]

(* A message that was added is in the history, in its summary, or was cut   *)
(* with a note or a command.  What is lost beside that was added while a    *)
(* summary or a compression worked on a copy, or pushed out of the kept     *)
(* tail by as many that were.                                               *)
Lost == 1..next - 1 \ (Numbers(history) \cup summary \cup dropped \cup cleared)
LossNeedsOverlap == Cardinality(Lost) <= Cardinality(overlap)

(* A session without such an overlap loses none.                            *)
NoneLostAlone == overlap = {} => Lost = {}

(* The history is in the order of the messages, without a repetition.      *)
HistoryInOrder == \A i, j \in DOMAIN history : i < j => history[i].n < history[j].n

(* What /clear took comes back by a summary or a compression that was at    *)
(* work on its copy then, and not otherwise.                                *)
ClearedStaysAway == (summary \cup Numbers(history)) \cap cleared # {} => raced

(* Well-typed, and the three together: through summaries, compressions and  *)
(* commands of rounds that share a session no message is lost, doubled, put *)
(* out of order or brought back, but where two of them overlapped.          *)
HistoryAccounted == SessionTypeOK /\ NoneLostAlone /\ HistoryInOrder /\ ClearedStaysAway

(* What strict providers demand of the messages they get: calls are all     *)
(* answered by the results that follow them, results follow calls, and a    *)
(* turn with calls follows a user message or results.                       *)
WellFormed(s) ==
  \A i \in DOMAIN s :
    /\ s[i].role # "system"
    /\ s[i].role = "tool" => LastOther(SubSeq(s, 1, i)) > 0 /\ s[LastOther(SubSeq(s, 1, i))].calls # {}
    /\ s[i].calls # {} => Complete(s, i) /\ i > 1 /\ s[i - 1].role \in {"user", "tool"}
(* Whatever rounds, cuts and failures made of a history, the model is sent  *)
(* a well-formed part of it, with every user message; sanitizing it again   *)
(* changes nothing, and a well-formed history goes out as it is.            *)
SentIsWellFormed(h) ==
  LET s == Sanitize(h) IN
  /\ WellFormed(s) /\ Sanitize(s) = s
  /\ \A i \in DOMAIN h : h[i].role = "user" => h[i].n \in Numbers(s)
  /\ WellFormed(h) => s = h
=============================================================================
