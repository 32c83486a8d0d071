----------------------------- MODULE ReplyState -----------------------------
(* What a channel remembers of a chat's last post to answer it with: LINE's*)
(* reply and quote tokens, QQ's message id and sequence counter, Slack's   *)
(* pending acknowledgement, DingTalk's session webhook, OneBot's message   *)
(* id.  The handlers store it before they have decided whether the post is *)
(* answered at all; Send takes it, and the manager repeats a Send that     *)
(* failed.                                                                 *)
(***************************************************************************)
EXTENDS Naturals, Sequences, FiniteSets

CONSTANTS
  Posts, None,  \* posts of the chat, in order; no post
  Sends,        \* outbound messages for the chat
  MaxAttempts   \* bound of the runs: how often the manager tries one

VARIABLES
  api,      \* the platform
  slot,     \* slot[k]: the post whose k the channel remembers
  seq,      \* seq[p]: QQ's counter of post p
  handler,  \* handler[p]: how many of its stores the handler of p has done
  send,     \* send[x]: its step and what it holds
  calls,    \* the requests sent to the platform
  seen,     \* seen[x]: how often the user sees x
  lost,     \* lost[x]: delivered requests of x whose confirmation got lost
  done      \* posts that bear Slack's check mark

rsVars == <<api, slot, seq, handler, send, calls, seen, lost, done>>

(* What a handler stores, and what Send loads before the request. *)
Stores == [line |-> <<"token", "quote">>, qq |-> <<"msgID", "counter">>,
           slack |-> <<"ack">>, dingtalk |-> <<"webhook">>, onebot |-> <<"msgID">>]
Loads  == [line |-> <<"quote", "token">>, qq |-> <<"msgID", "counter">>,
           slack |-> <<>>, dingtalk |-> <<"webhook">>, onebot |-> <<"msgID">>]
Slots == {"token", "quote", "msgID", "counter", "ack", "webhook"}
Nothing == [k \in Slots |-> None]

Init ==
  /\ api \in DOMAIN Stores
  /\ slot = Nothing
  /\ seq = [p \in Posts |-> 0]
  /\ handler = [p \in Posts |-> 0]
  /\ send = [x \in Sends |-> [step |-> "load", at |-> 1, holds |-> Nothing, number |-> 0, tries |-> 1]]
  /\ calls = {}
  /\ seen = [x \in Sends |-> 0] /\ lost = [x \in Sends |-> 0]
  /\ done = {}

-----------------------------------------------------------------------------
(* The handlers: one store after the other. A post may lack the token. *)
Remember(p) ==
  LET k == Stores[api][handler[p] + 1]
  IN /\ handler[p] < Len(Stores[api])
     /\ \A q \in Posts : q < p => handler[q] > 0
     /\ slot' \in {[slot EXCEPT ![k] = p]} \cup (IF api = "line" THEN {slot} ELSE {})
     /\ handler' = [handler EXCEPT ![p] = @ + 1]
     /\ UNCHANGED <<api, seq, send, calls, seen, lost, done>>

-----------------------------------------------------------------------------
(* Send: LINE takes the tokens away, the others leave what they read. *)
Keep(k) == slot
Consume(k) == [slot EXCEPT ![k] = None]
AfterLoad(k) == IF api = "line" THEN Consume(k) ELSE Keep(k)

(* QQ counts on the counter it finds, if the chat has an id at all. *)
Counted(x, k) ==
  LET p == slot[k]
  IN IF k = "counter" /\ p # None /\ send[x].holds["msgID"] # None
     THEN seq' = [seq EXCEPT ![p] = @ + 1] ELSE UNCHANGED seq

Load(x) ==
  LET k == Loads[api][send[x].at]
  IN /\ send[x].step = "load" /\ send[x].at <= Len(Loads[api])
     /\ slot' = AfterLoad(k)
     /\ Counted(x, k)
     /\ send' = [send EXCEPT ![x].at = @ + 1, ![x].holds = [@ EXCEPT ![k] = slot[k]],
                             ![x].number = IF k = "counter" /\ slot[k] # None THEN seq'[slot[k]] ELSE 0]
     /\ UNCHANGED <<api, handler, calls, seen, lost, done>>

(* LINE's reply token may have got too old. *)
Starts(x) ==
  IF api = "line" /\ send[x].holds["token"] # None THEN {"reply", "post"}
  ELSE IF api = "dingtalk" /\ send[x].holds["webhook"] = None THEN {"failed"} ELSE {"post"}
Ready(x) ==
  /\ send[x].step = "load" /\ send[x].at > Len(Loads[api])
  /\ \E s \in Starts(x) : send' = [send EXCEPT ![x].step = s]
  /\ UNCHANGED <<api, slot, seq, handler, calls, seen, lost, done>>

(* A request is delivered, delivered without the channel hearing of it, or  *)
(* fails. LINE pushes what it could not reply; a failed Send is tried again *)
(* by the manager, with whatever the channel remembers by then.             *)
Request(x) == calls' = calls \cup {[by |-> x, try |-> send[x].tries, as |-> send[x].step,
                                    with |-> send[x].holds, number |-> send[x].number]}
Failed(x) == IF send[x].step = "reply" THEN "post" ELSE "failed"
Call(x) ==
  /\ send[x].step \in {"reply", "post"}
  /\ Request(x)
  /\ \/ /\ seen' = [seen EXCEPT ![x] = @ + 1]
        /\ send' = [send EXCEPT ![x].step = IF api = "slack" THEN "ack" ELSE "sent"]
        /\ UNCHANGED lost
     \/ /\ seen' = [seen EXCEPT ![x] = @ + 1]
        /\ lost' = [lost EXCEPT ![x] = @ + 1]
        /\ send' = [send EXCEPT ![x].step = Failed(x)]
     \/ /\ send' = [send EXCEPT ![x].step = Failed(x)]
        /\ UNCHANGED <<seen, lost>>
  /\ UNCHANGED <<api, slot, seq, handler, done>>

(* Slack marks the post as answered. *)
Acknowledge(x) ==
  /\ send[x].step = "ack"
  /\ done' = done \cup ({slot["ack"]} \ {None})
  /\ slot' = Consume("ack")
  /\ send' = [send EXCEPT ![x].step = "sent"]
  /\ UNCHANGED <<api, seq, handler, calls, seen, lost>>

Retry(x) ==
  /\ send[x].step = "failed" /\ send[x].tries < MaxAttempts
  /\ send' = [send EXCEPT ![x] = [step |-> "load", at |-> 1, holds |-> Nothing, number |-> 0, tries |-> @.tries + 1]]
  /\ UNCHANGED <<api, slot, seq, handler, calls, seen, lost, done>>

Next ==
  \/ \E p \in Posts : Remember(p)
  \/ \E x \in Sends : Load(x) \/ Ready(x) \/ Call(x) \/ Acknowledge(x) \/ Retry(x)

Spec == Init /\ [][Next]_rsVars
-----------------------------------------------------------------------------
TypeOK ==
  /\ slot \in [Slots -> Posts \cup {None}] /\ seq \in [Posts -> Nat]
  /\ \A p \in Posts : handler[p] \in 0..Len(Stores[api])
  /\ send \in [Sends -> [step : {"load", "reply", "post", "ack", "sent", "failed"}, at : 1..3,
                         holds : [Slots -> Posts \cup {None}], number : Nat, tries : 1..MaxAttempts]]
  /\ seen \in [Sends -> Nat] /\ lost \in [Sends -> Nat] /\ done \subseteq Posts

(* LINE's tokens are good for one message: no two messages, and no two      *)
(* attempts, carry the same one, whoever sends at the same time. Only the   *)
(* push that replaces a failed reply quotes what the reply quoted.          *)
TokenOnce ==
  api = "line" => \A c, d \in calls : \A k \in {"token", "quote"} :
    c.with[k] = d.with[k] /\ c.with[k] # None => c.by = d.by /\ c.try = d.try

(* The user sees a message again only if a confirmation got lost. *)
SeenTwiceIfLost == \A x \in Sends : seen[x] <= 1 + lost[x]

(* QQ refuses a second message with the same id and number. Two requests    *)
(* bear the same only if one of them loaded the id of one post and the      *)
(* counter of the other, which the handler's two stores allow.              *)
SeqOnce ==
  api = "qq" => \A c, d \in calls :
    /\ c # d /\ c.number = d.number /\ c.number > 0
    /\ c.with["msgID"] = d.with["msgID"] /\ c.with["msgID"] # None
    => \E e \in {c, d} : e.with["msgID"] # e.with["counter"]

(* Slack marks a post as answered only after some message of the chat was   *)
(* delivered and confirmed.                                                 *)
AckMeansAnswer == Cardinality(done) <= Cardinality({x \in Sends : send[x].step = "sent"})
=============================================================================
