----------------------------- MODULE ChannelSend -----------------------------
(* How the channel implementations send: what they check before, how they  *)
(* go through the parts of a message (media parts, chunks, lines, client   *)
(* connections), which error they report, and what the user has seen when  *)
(* the manager tries again (sendWithRetry, sendMediaWithRetry).            *)
(***************************************************************************)
EXTENDS Naturals, Sequences, FiniteSets

CONSTANTS NumParts, MaxAttempts    \* bounds of the runs

Parts == 1..NumParts

VARIABLES
  sender,     \* the channel and the kind of message
  good,       \* parts that can be resolved, opened, or put into a URL
  attempt,    \* the manager's attempts so far
  at,         \* "idle", the part it is at, or NumParts + 1: all done
  op,         \* the operation of the part it is at
  carried,    \* parts collected for a single request
  reached,    \* parts this attempt has brought over
  pending,    \* an error to be reported at the end
  result,     \* what the attempt returned
  sent,       \* sent[p]: how often part p reached the user
  trouble,    \* requests that failed or whose confirmation was lost
  forgone     \* parts given up in an attempt that went on

csVars == <<sender, good, attempt, at, op, carried, reached, pending, result, sent, trouble, forgone>>

(* What is checked before anything is sent, with the error if it fails.     *)
(* "nil" is no error, "plain" one the manager does not know.                *)
Check(fact, err) == [on |-> fact, err |-> err]
Running == Check("running", "notRunning")
Store   == Check("store", "sendFailed")
Way(before, each) == [before |-> <<Running>> \o before, each |-> each]

MatrixText   == Way(<<Check("chat", "sendFailed"), Check("content", "nil")>>, <<"send">>)
MatrixMedia  == Way(<<Check("chat", "sendFailed"), Store>>, <<"readable", "upload", "send">>)
OneBotText   == Way(<<Check("conn", "plain"), Check("chat", "plain")>>, <<"write">>)
OneBotMedia  == Way(<<Check("conn", "plain"), Store>>, <<"collect", "writeAll">>)
TelegramHTML == <<"html", "send">>
TelegramText == Way(<<Check("chat", "sendFailed"), Check("content", "nil")>>, TelegramHTML)
TelegramMedia == Way(<<Check("chat", "sendFailed"), Store>>, <<"readable", "send">>)
FeishuCard   == <<"send">>
FeishuText   == Way(<<Check("chat", "sendFailed"), Check("content", "plain")>>, FeishuCard)
FeishuUpload == <<"upload", "send">>
FeishuMedia  == Way(<<Check("chat", "sendFailed"), Store>>, <<"readable">> \o FeishuUpload)
LINEMedia    == Way(<<Store>>, <<"sendClassified">>)
QQMedia      == Way(<<>>, <<"readable", "send">>)
DiscordChunk == <<"timed">>
DiscordText  == Way(<<Check("chat", "plain"), Check("content", "nil")>>, DiscordChunk)
DiscordMedia == Way(<<Check("chat", "plain"), Store>>, <<"collect", "timedAll">>)
SlackText    == Way(<<Check("chat", "plain")>>, <<"send">>)
SlackMedia   == Way(<<Check("chat", "plain"), Store>>, <<"readable", "send">>)
WeComWebhook == <<"sendClassified">>
WeComBotText == Way(<<>>, WeComWebhook)
WeComSend    == <<"sendClassified">>
WeComAppText == Way(<<Check("token", "plain")>>, WeComSend)
WeComUpload  == <<"uploadOrName">>
WeComAppMedia == Way(<<Check("token", "temporary"), Store>>, <<"readable">> \o WeComUpload \o WeComSend)
WhatsAppText == Way(<<Check("conn", "temporary")>>, <<"write">>)
NativeText   == Way(<<Check("conn", "temporary"), Check("paired", "temporary"), Check("chat", "plain")>>, <<"send">>)
DingTalkReply == <<"send">>
DingTalkText == Way(<<Check("webhook", "plain")>>, DingTalkReply)
IRCText      == Way(<<Check("chat", "sendFailed"), Check("content", "nil")>>, <<"privmsg">>)
MaixCamText  == Way(<<Check("conn", "plain")>>, <<"tell">>)
PicoBroadcast == <<"anyOf">>
PicoText     == Way(<<>>, PicoBroadcast)

Senders == [matrix |-> MatrixText, matrixMedia |-> MatrixMedia, onebot |-> OneBotText, onebotMedia |-> OneBotMedia,
            telegram |-> TelegramText, telegramMedia |-> TelegramMedia, feishu |-> FeishuText,
            feishuMedia |-> FeishuMedia, lineMedia |-> LINEMedia, qqMedia |-> QQMedia, discord |-> DiscordText,
            discordMedia |-> DiscordMedia, slack |-> SlackText, slackMedia |-> SlackMedia, wecom |-> WeComBotText,
            wecomApp |-> WeComAppText, wecomAppMedia |-> WeComAppMedia, whatsapp |-> WhatsAppText,
            native |-> NativeText, dingtalk |-> DingTalkText, irc |-> IRCText, maixcam |-> MaixCamText,
            pico |-> PicoText]

(* Only these go through several parts; the others send one. *)
ManyParts == {"matrixMedia", "onebotMedia", "telegram", "telegramMedia", "feishuMedia", "lineMedia", "qqMedia",
              "discordMedia", "slackMedia", "wecomAppMedia", "irc", "maixcam", "pico"}
Mine == IF sender \in ManyParts THEN Parts ELSE {1}
Last == Cardinality(Mine)
Each == Senders[sender].each

Init ==
  /\ sender \in DOMAIN Senders
  /\ good \in IF {"readable", "collect"} \cap {Each[i] : i \in 1..Len(Each)} # {} THEN SUBSET Parts ELSE {Parts}
  /\ attempt = 0 /\ at = 0 /\ op = 1
  /\ carried = {} /\ reached = {} /\ forgone = {}
  /\ pending = "nil" /\ result = "none"
  /\ sent = [p \in Parts |-> 0]
  /\ trouble = 0

-----------------------------------------------------------------------------
Returns(r) == result' = r /\ at' = 0
GoesOn ==
  IF op < Len(Each) /\ Each[op] # "collect" THEN op' = op + 1 /\ at' = at ELSE op' = 1 /\ at' = at + 1

(* Send, SendMedia begin. What the world lets pass may differ from attempt  *)
(* to attempt; a chat id does not.                                          *)
Retriable == {"temporary", "rateLimit", "plain"}
Begin ==
  /\ at = 0
  /\ attempt < MaxAttempts /\ (attempt = 0 \/ result \in Retriable)
  /\ attempt' = attempt + 1
  /\ carried' = {} /\ reached' = {} /\ forgone' = {} /\ pending' = "nil" /\ op' = 1
  /\ \/ \E i \in 1..Len(Senders[sender].before) : Returns(Senders[sender].before[i].err)
     \/ at' = 1 /\ result' = "none"
  /\ UNCHANGED <<sender, good, sent, trouble>>

At(o) == at \in Mine /\ Each[op] \in o

(* A part that cannot be read is left out. *)
Readable ==
  /\ At({"readable"})
  /\ IF at \in good THEN GoesOn ELSE at' = at + 1 /\ op' = 1
  /\ UNCHANGED <<sender, good, attempt, carried, reached, pending, result, sent, trouble, forgone>>

Collect ==
  /\ At({"collect"})
  /\ carried' = IF at \in good THEN carried \cup {at} ELSE carried
  /\ at' = at + 1
  /\ UNCHANGED <<sender, good, attempt, op, reached, pending, result, sent, trouble, forgone>>

Classes(o) == IF o = "sendClassified" THEN {"temporary", "rateLimit", "sendFailed", "plain"}
              ELSE IF o \in {"timed", "timedAll"} THEN {"temporary", "plain"} ELSE {"temporary"}
Brings(ps) == sent' = [p \in Parts |-> IF p \in ps THEN sent[p] + 1 ELSE sent[p]] /\ reached' = reached \cup ps

Upload ==
  /\ At({"upload"})
  /\ \/ GoesOn /\ UNCHANGED <<result, trouble>>
     \/ Returns("temporary") /\ trouble' = trouble + 1 /\ UNCHANGED op
  /\ UNCHANGED <<sender, good, attempt, carried, reached, pending, sent, forgone>>

(* WeCom names a file it cannot upload, whether that arrives or not. *)
UploadOrName ==
  /\ At({"uploadOrName"})
  /\ \/ GoesOn /\ UNCHANGED <<trouble, forgone>>
     \/ at' = at + 1 /\ op' = 1 /\ trouble' = trouble + 1 /\ forgone' = forgone \cup {at}
  /\ UNCHANGED <<sender, good, attempt, carried, reached, pending, result, sent>>

(* A request brings the parts over and says so; or brings them over and     *)
(* fails (an answer lost, a call that outlives its timeout); or fails.      *)
Request(ps) ==
  \/ /\ Brings(ps)
     /\ at' = IF ps = {at} THEN at + 1 ELSE at
     /\ IF ps = {at} THEN op' = 1 /\ UNCHANGED result ELSE Returns("nil") /\ UNCHANGED op
     /\ UNCHANGED trouble
  \/ /\ Brings(ps) \/ UNCHANGED <<sent, reached>>
     /\ trouble' = trouble + 1
     /\ \E c \in Classes(Each[op]) : Returns(c)
     /\ UNCHANGED op

SendOne ==
  /\ At({"send", "sendClassified", "timed", "write"})
  /\ \/ Request({at})
     \/ Each[op] = "write" /\ GoesOn /\ trouble' = trouble + 1 /\ UNCHANGED <<result, sent, reached>>
  /\ UNCHANGED <<sender, good, attempt, carried, pending, forgone>>

(* Telegram: any failure of the HTML form is taken for a parse error, and   *)
(* the chunk is sent again as plain text.                                   *)
SendHTML ==
  /\ At({"html"})
  /\ \/ Brings({at}) /\ at' = at + 1 /\ op' = 1 /\ UNCHANGED trouble
     \/ /\ Brings({at}) \/ UNCHANGED <<sent, reached>>
        /\ GoesOn /\ trouble' = trouble + 1
  /\ UNCHANGED <<sender, good, attempt, carried, pending, result, forgone>>

(* IRC never hears of a failure; MaixCam and Pico go on to the next client. *)
Tell ==
  /\ At({"privmsg", "tell", "anyOf"})
  /\ \/ Brings({at}) /\ UNCHANGED <<trouble, pending>>
     \/ /\ trouble' = trouble + 1
        /\ pending' = IF Each[op] = "tell" THEN "temporary" ELSE pending
        /\ UNCHANGED <<sent, reached>>
  /\ GoesOn
  /\ UNCHANGED <<sender, good, attempt, carried, result, forgone>>

-----------------------------------------------------------------------------
(* After the last part. *)
AllAtOnce == {"collect"} \cap {Each[i] : i \in 1..Len(Each)} # {}
Finish ==
  /\ at = Last + 1 /\ ~AllAtOnce
  /\ Returns(IF Each[1] = "anyOf" /\ reached = {} THEN "sendFailed" ELSE pending)
  /\ UNCHANGED <<sender, good, attempt, op, carried, reached, pending, sent, trouble, forgone>>

(* Discord and OneBot send everything in one request; OneBot looks at the   *)
(* chat id only now, and hears nothing of what it has written.              *)
SendAll ==
  /\ at = Last + 1 /\ AllAtOnce
  /\ IF carried = {}
     THEN Returns("nil") /\ UNCHANGED <<sent, reached, trouble, op>>
     ELSE \/ /\ Brings(carried) /\ Returns("nil") /\ UNCHANGED <<trouble, op>>
          \/ /\ Brings(carried) \/ UNCHANGED <<sent, reached>>
             /\ trouble' = trouble + 1 /\ UNCHANGED op
             /\ \/ \E c \in Classes(Each[2]) : Returns(c)
                \/ Each[2] = "writeAll" /\ Returns("nil")
          \/ /\ Each[2] = "writeAll" /\ Returns("sendFailed")
             /\ UNCHANGED <<sent, reached, trouble, op>>
  /\ UNCHANGED <<sender, good, attempt, carried, pending, forgone>>

Next == Begin \/ Readable \/ Collect \/ Upload \/ UploadOrName \/ SendOne \/ SendHTML \/ Tell \/ Finish \/ SendAll
Spec == Init /\ [][Next]_csVars
-----------------------------------------------------------------------------
TypeOK ==
  /\ good \subseteq Parts /\ carried \subseteq good /\ reached \subseteq Parts /\ forgone \subseteq Parts
  /\ attempt \in 0..MaxAttempts /\ at \in 0..Last + 1 /\ op \in 1..Len(Each)
  /\ {pending, result} \subseteq Retriable \cup {"nil", "none", "sendFailed", "notRunning"}
  /\ sent \in [Parts -> Nat] /\ trouble \in Nat

(* What the user has seen twice had a reason each time: no retry, and no    *)
(* fallback inside an attempt, repeats a part unless a request failed or    *)
(* its confirmation was lost.                                               *)
OncePerTrouble == \A p \in Parts : sent[p] <= 1 + trouble

(* An attempt reported as successful has brought over every part it could   *)
(* read in this or an earlier attempt. The exceptions are the channels that *)
(* hear nothing back, and Pico, which asks for one client only; WeCom       *)
(* names what it could not upload.                                          *)
Deaf == {"onebot", "onebotMedia", "whatsapp", "irc", "pico"}
SuccessIsWhole ==
  at = 0 /\ result = "nil" /\ reached # {} /\ sender \notin Deaf =>
    \A p \in Mine : p \in good => sent[p] > 0 \/ p \in forgone

(* A single request is all or nothing: the user never sees one file of a    *)
(* message and not the other.                                               *)
AllOrNothing ==
  AllAtOnce => \A p, q \in good : sent[p] = sent[q]

(* Parts sent one by one arrive in order: no part before the one in front   *)
(* of it, however often the message is tried again.                         *)
InOrder ==
  sender \notin Deaf \cup {"maixcam"} =>
    \A p, q \in Mine \cap good : p < q /\ sent[q] > 0 => sent[p] > 0 \/ p \in forgone \/ sender = "wecomAppMedia"
=============================================================================
