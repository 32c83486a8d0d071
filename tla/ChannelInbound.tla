--------------------------- MODULE ChannelInbound ---------------------------
(* How a channel implementation turns an event of its platform into a      *)
(* message on the bus.  Every handler is a pipeline of screening steps,    *)
(* each of which may end the event, with effects in between: a download    *)
(* that leaves a file in the media store, an id that is marked as seen.    *)
(* The order of the steps is what differs from channel to channel and what *)
(* the properties are about.  Two deliveries of one post are handled: the  *)
(* platform delivers it again, or, on Slack, reports it both as a message  *)
(* and as a mention.                                                       *)
(***************************************************************************)
EXTENDS Naturals, Sequences, FiniteSets

VARIABLES
  adapter,    \* the channel that runs
  event,      \* what is true of the post (a set of facts)
  at,         \* per delivery, the step it is at: 0 before, Ended after
  body,       \* per delivery, the content by now: none, the text, or more than it
  files,      \* deliveries that left a file in the media store
  marked,     \* the post's id is in the channel's memory of seen ids
  published   \* deliveries that reached the bus

inVars == <<adapter, event, at, body, files, marked, published>>

Deliveries == {1, 2}
Ended == 99

(* A step of a pipeline. *)
Skip(fact) == [do |-> "skip", on |-> fact]
Need(fact) == [do |-> "need", on |-> fact]
Do(effect) == [do |-> effect, on |-> "none"]

(* The pipelines. "fetch" downloads and stores the attachment and leaves    *)
(* the content as it is when that fails; "fetchOrName" names it instead.    *)
MatrixContent  == <<Do("fetchOrName"), Do("body")>>
MatrixMentions == <<Do("trigger")>>
Matrix ==
  <<Skip("own"), Skip("old"), Skip("edit"), Need("supported")>> \o MatrixContent
    \o <<Need("allowed")>> \o MatrixMentions \o <<Do("strip"), Do("body"), Do("publish")>>

OneBotRaw      == <<Need("supported"), Do("screenKnown")>>
OneBotSegments == <<Do("fetch")>>
OneBotPost     == OneBotSegments \o <<Do("dedup"), Do("body"), Do("trigger"), Need("allowed"), Do("publish")>>

TelegramFiles == <<Do("fetch")>>
Telegram == <<Need("allowed")>> \o TelegramFiles \o <<Do("fill"), Do("trigger"), Do("strip"), Do("publish")>>

FeishuFiles    == <<Do("fetch")>>
FeishuMentions == <<Do("trigger")>>
Feishu == <<Need("allowed")>> \o FeishuFiles \o <<Do("fill")>> \o FeishuMentions \o <<Do("publish")>>

LINEWebhook  == <<Need("valid")>>
LINEMentions == <<Do("strip"), Do("body"), Do("trigger")>>
LINE == <<Need("supported"), Do("fetch")>> \o LINEMentions \o <<Need("allowed"), Do("publish")>>

QQC2C     == <<Do("dedup"), Need("supported"), Do("body"), Need("allowed"), Do("publish")>>
QQGroupAT == <<Do("dedup"), Need("supported"), Do("body"), Do("triggerNamed"), Need("allowed"), Do("publish")>>

DiscordFetchFirst ==
  <<Skip("own"), Do("fetchOrName"), Need("allowed"), Do("strip"), Do("trigger"), Do("body"), Do("publish")>>
Discord == <<Skip("own"), Need("allowed"), Do("strip"), Do("trigger"), Do("fetchOrName"), Do("body"), Do("publish")>>

SlackPost    == <<Skip("own"), Need("supported"), Need("allowed"), Do("strip"), Do("triggerUnnamed"),
                  Do("fetch"), Do("body"), Do("publish")>>
SlackMention == <<Skip("own"), Need("allowed"), Do("strip"), Do("body"), Do("publish")>>
SlackCommand == <<Need("allowed"), Do("fill"), Do("publish")>>

WeComBotCallback == <<Need("valid")>>
WeComBot         == <<Need("supported"), Do("dedup"), Do("triggerUnnamed"), Need("allowed"), Do("publish")>>
WeComAppCallback == <<Need("valid")>>
WeComApp         == <<Need("supported"), Do("dedup"), Need("allowed"), Do("publish")>>

DingTalk == <<Do("body"), Do("triggerUnnamed"), Need("allowed"), Do("publish")>>
IRC      == <<Skip("own"), Need("allowed"), Do("trigger"), Do("strip"), Do("body"), Do("publish")>>
MaixCam  == <<Need("supported"), Need("allowed"), Do("publish")>>
WhatsApp == <<Need("supported"), Need("allowed"), Do("publish")>>
WhatsAppNative == <<Do("body"), Need("allowed"), Do("publish")>>
Pico     == <<Do("body"), Need("allowed"), Do("publish")>>

(* The pipelines a delivery goes through. A Slack post that mentions the    *)
(* bot arrives as two events.                                               *)
Pipeline(a, d) ==
  CASE a = "matrix"   -> Matrix
    [] a = "onebot"   -> OneBotRaw \o OneBotPost
    [] a = "telegram" -> Telegram
    [] a = "feishu"   -> Feishu
    [] a = "line"     -> LINEWebhook \o LINE
    [] a = "qqc2c"    -> QQC2C
    [] a = "qqgroup"  -> QQGroupAT
    [] a = "discord"  -> Discord
    [] a = "slack"    -> IF d = 1 THEN SlackPost ELSE SlackMention
    [] a = "slackcmd" -> SlackCommand
    [] a = "wecom"    -> WeComBotCallback \o WeComBot
    [] a = "wecomapp" -> WeComAppCallback \o WeComApp
    [] a = "dingtalk" -> DingTalk
    [] a = "irc"      -> IRC
    [] a = "maixcam"  -> MaixCam
    [] a = "whatsapp" -> WhatsApp
    [] a = "native"   -> WhatsAppNative
    [] a = "pico"     -> Pico

Adapters == {"matrix", "onebot", "telegram", "feishu", "line", "qqc2c", "qqgroup", "discord", "slack", "slackcmd",
             "wecom", "wecomapp", "dingtalk", "irc", "maixcam", "whatsapp", "native", "pico"}

(* Handlers that run one event at a time: the channel's own read loop calls *)
(* them. The others run in a goroutine per event.                           *)
Sequential == {"matrix", "onebot", "slack", "slackcmd", "whatsapp"}

(* ShouldRespondInGroup: "prefix" is a content that begins with a           *)
(* configured prefix, "open" a group_trigger that is not configured.        *)
ShouldRespondInGroup(mentioned) == mentioned \/ event \cap {"prefix", "open"} # {}

(* What a pipeline never looks at keeps its ordinary value. *)
Ordinary == {"valid", "supported", "allowed", "text"}
AskedAbout(a) ==
  LET steps == UNION {{Pipeline(a, d)[i] : i \in 1..Len(Pipeline(a, d))} : d \in Deliveries}
      asks == [trigger |-> {"group", "mention", "prefix", "open"}, triggerUnnamed |-> {"group", "mention", "prefix", "open"},
               triggerNamed |-> {"group", "mention", "prefix", "open"}, screenKnown |-> {"anonymous", "allowed"},
               fetch |-> {"media"}, fetchOrName |-> {"media"}, strip |-> {"bare"}, body |-> {"text"}, fill |-> {"text"}]
  IN (({s.on : s \in steps} \ {"none"}) \cup UNION {asks[e] : e \in {s.do : s \in steps} \cap DOMAIN asks})

Init ==
  /\ adapter \in Adapters
  /\ event \in {f \cup (Ordinary \ AskedAbout(adapter)) : f \in SUBSET AskedAbout(adapter)}
  /\ "bare" \in event => "text" \in event
  /\ "mention" \in event => "group" \in event
  /\ adapter = "qqgroup" => {"group", "mention"} \subseteq event
  /\ ~({"prefix", "open"} \subseteq event)
  /\ at = [d \in Deliveries |-> 0]
  /\ body = [d \in Deliveries |-> IF "text" \in event THEN "text" ELSE "none"]
  /\ files = {} /\ published = {}
  /\ marked = FALSE

Step(d) == Pipeline(adapter, d)[at[d]]
Running(d) == at[d] \notin {0, Ended}
Goes(d) == at' = [at EXCEPT ![d] = @ + 1]
Ends(d) == at' = [at EXCEPT ![d] = Ended]

Deliver(d) ==
  /\ at[d] = 0
  /\ d = 2 => (IF adapter \in Sequential THEN at[1] = Ended ELSE at[1] > 0)
  /\ d = 2 /\ adapter = "slack" => "mention" \in event
  /\ Goes(d)
  /\ UNCHANGED <<adapter, event, body, files, marked, published>>

(* A fact of the event ends it or lets it pass. *)
Screen(d) ==
  /\ Running(d) /\ Step(d).do \in {"skip", "need"}
  /\ IF (Step(d).do = "skip") = (Step(d).on \in event) THEN Ends(d) ELSE Goes(d)
  /\ UNCHANGED <<adapter, event, body, files, marked, published>>

(* OneBot screens the sender first only when the event names one. *)
ScreenKnown(d) ==
  /\ Running(d) /\ Step(d).do = "screenKnown"
  /\ IF event \cap {"allowed", "anonymous"} = {} THEN Ends(d) ELSE Goes(d)
  /\ UNCHANGED <<adapter, event, body, files, marked, published>>

(* Group posts are answered when the bot is addressed; SlackPost, WeComBot  *)
(* and DingTalk cannot tell a mention and ask with FALSE, QQGroupAT is only *)
(* ever told of mentions and asks with TRUE.                                *)
Trigger(d) ==
  /\ Running(d) /\ Step(d).do \in {"trigger", "triggerUnnamed", "triggerNamed"}
  /\ IF \/ "group" \notin event
        \/ ShouldRespondInGroup(\/ Step(d).do = "triggerNamed"
                                \/ Step(d).do = "trigger" /\ "mention" \in event)
     THEN Goes(d) ELSE Ends(d)
  /\ UNCHANGED <<adapter, event, body, files, marked, published>>

(* The attachment is downloaded into the media store, or the download fails. *)
Fetch(d) ==
  /\ Running(d) /\ Step(d).do \in {"fetch", "fetchOrName"}
  /\ Goes(d)
  /\ IF "media" \notin event
     THEN UNCHANGED <<body, files>>
     ELSE \/ files' = files \cup {d} /\ body' = [body EXCEPT ![d] = "more"]
          \/ /\ body' = [body EXCEPT ![d] = IF Step(d).do = "fetchOrName" THEN "more" ELSE @]
             /\ UNCHANGED files
  /\ UNCHANGED <<adapter, event, marked, published>>

(* The mention is cut from the text, which may leave nothing. *)
Strip(d) ==
  /\ Running(d) /\ Step(d).do = "strip"
  /\ body' = [body EXCEPT ![d] = IF "bare" \in event /\ @ = "text" THEN "none" ELSE @]
  /\ Goes(d)
  /\ UNCHANGED <<adapter, event, files, marked, published>>

(* An empty message is dropped, or given a content. *)
NeedBody(d) ==
  /\ Running(d) /\ Step(d).do = "body"
  /\ IF body[d] # "none" THEN Goes(d) ELSE Ends(d)
  /\ UNCHANGED <<adapter, event, body, files, marked, published>>

FillBody(d) ==
  /\ Running(d) /\ Step(d).do = "fill"
  /\ body' = [body EXCEPT ![d] = IF @ = "none" THEN "more" ELSE @]
  /\ Goes(d)
  /\ UNCHANGED <<adapter, event, files, marked, published>>

(* isDuplicate, MarkMessageProcessed: check and mark under one lock. *)
Dedup(d) ==
  /\ Running(d) /\ Step(d).do = "dedup"
  /\ IF marked THEN Ends(d) ELSE Goes(d)
  /\ marked' = TRUE
  /\ UNCHANGED <<adapter, event, body, files, published>>

(* BaseChannel.HandleMessage checks the allow-list once more. *)
HandleMessage(d) ==
  /\ Running(d) /\ Step(d).do = "publish"
  /\ published' = IF "allowed" \in event THEN published \cup {d} ELSE published
  /\ Ends(d)
  /\ UNCHANGED <<adapter, event, body, files, marked>>

Next == \E d \in Deliveries :
          \/ Deliver(d) \/ Screen(d) \/ ScreenKnown(d) \/ Trigger(d) \/ Fetch(d) \/ Strip(d)
          \/ NeedBody(d) \/ FillBody(d) \/ Dedup(d) \/ HandleMessage(d)

Spec == Init /\ [][Next]_inVars
-----------------------------------------------------------------------------
TypeOK ==
  /\ adapter \in Adapters
  /\ \A d \in Deliveries : at[d] \in 0..Len(Pipeline(adapter, d)) \cup {Ended}
  /\ body \in [Deliveries -> {"none", "text", "more"}]
  /\ files \subseteq Deliveries /\ published \subseteq Deliveries /\ marked \in BOOLEAN

(* Channels that keep a memory of message ids publish a post once however   *)
(* often, and however concurrently, the platform delivers it.               *)
PublishedOnce ==
  adapter \in {"onebot", "qqc2c", "qqgroup", "wecom", "wecomapp"} => Cardinality(published) <= 1

(* A group post goes to the agent only if the group's trigger rules say so, *)
(* on every channel that has such rules; Slack, which reports a mention     *)
(* twice, answers it twice only where it answers everything or a prefix.    *)
GroupsAsked ==
  /\ published # {} /\ "group" \in event => event \cap {"mention", "prefix", "open"} # {}
  /\ adapter = "slack" /\ published = Deliveries => "group" \in event /\ event \cap {"prefix", "open"} # {}

(* The bot's own posts, posts older than the start and edits never reach    *)
(* the agent: an answer of the bot cannot set off another.                  *)
NoEcho ==
  \A d \in published : event \cap {"own", "old", "edit"} = {}

(* Where the code says it screens the sender first "to avoid downloading    *)
(* attachments for rejected users", it does: no file of a rejected sender   *)
(* is stored.                                                               *)
RejectedFetchNothing ==
  files # {} => \/ "allowed" \in event
                \/ adapter \in {"matrix", "line"}
                \/ adapter = "onebot" /\ "anonymous" \in event

(* A webhook request that cannot be verified or read leaves no trace.       *)
InvalidLeavesNothing ==
  "valid" \notin event => published = {} /\ files = {} /\ ~marked

(* Discord and Slack fetch last: a file they store always has a message     *)
(* that carries it. The others leave files of ignored posts to the janitor. *)
FilesCarried ==
  adapter \in {"discord", "slack"} =>
    \A d \in files : at[d] = Ended => d \in published
=============================================================================
